-------------------------------- MODULE Ring --------------------------------
(***************************************************************************)
(* The ring buffers of drivers/uart.c: an array, a head index (the slot    *)
(* last written) and a tail index (the slot last read), both moved by one  *)
(* under a mask.  The receive and the transmit side have one each; their   *)
(* modules extend this one, and name what is theirs with Rx or Tx.         *)
(***************************************************************************)
EXTENDS Integers, Sequences

CONSTANTS Size,     \* UART_RX_BUFFER_SIZE, UART_TX_BUFFER_SIZE
          Byte,     \* the values of a byte
          NoByte    \* no byte

ASSUME SizeAssumption == Size \in Nat /\ Size >= 2
ASSUME NoByteAssumption == NoByte \notin Byte

Slot == 0 .. Size - 1

(* (index + 1) & the mask, which is Size - 1 *)
NextSlotUnmasked(i) == i + 1  \* mutant: the mask is forgotten
NextSlot(i) == (i + 1) % Size

(* how far the head h is ahead of the tail t, and the slot i places after t *)
Distance(h, t) == IF h >= t THEN h - t ELSE h + Size - t
SlotAfter(t, i) == (t + i) % Size

(* the bytes the ring holds, the oldest first *)
Held(buf, h, t) == [i \in 1 .. Distance(h, t) |-> buf[SlotAfter(t, i)]]
=============================================================================
