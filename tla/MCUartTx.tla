------------------------------ MODULE MCUartTx ------------------------------
(***************************************************************************)
(* The ring has 3 slots.  A byte is 10 bits on the wire and a bit takes 87 *)
(* microseconds divided by 10 at UART0's 115200 baud (USF.c:53), 174       *)
(* divided by 10 at UART1's 57600 baud (wifly.c:71): flush's delay of 100  *)
(* microseconds covers 11 whole bits of UART0, and at most 6 of UART1.     *)
(***************************************************************************)
EXTENDS UartTx
=============================================================================
