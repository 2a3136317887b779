------------------------------- MODULE UartRx -------------------------------
(***************************************************************************)
(* The receive side of drivers/uart.c: the receive interrupt fills a ring  *)
(* buffer that uart_getc() empties.  The program is one thread that the    *)
(* interrupt preempts between any two of its instructions, so getc is one  *)
(* step per access to a volatile variable and the interrupt handler, which *)
(* runs with interrupts disabled, is a single step.  UART0 and UART1 have  *)
(* the same code; this module is either of them.                           *)
(***************************************************************************)
EXTENDS Ring

(***************************************************************************)
(* The error bits of UART_LastRxError: a frame error, an overrun of the    *)
(* hardware's register, and an overflow of the ring buffer.                *)
(***************************************************************************)
Error == {"FE", "DOR", "OVERFLOW"}

VARIABLES
    RxHead,       \* UART_RxHead: the slot last written by the interrupt
    RxTail,       \* UART_RxTail: the slot last read by getc
    RxBuf,        \* UART_RxBuf
    LastRxError,  \* UART_LastRxError, the set of its error bits
    rxpc,         \* the next access of getc, "idle" when it is not running
    rxdata,       \* getc's local variable, its low byte
    err,          \* getc's local variable, its high byte
    unreported    \* history: a byte was dropped since getc last reported one

rxring == <<RxHead, RxTail, RxBuf>>
rxvars == <<RxHead, RxTail, RxBuf, LastRxError, rxpc, rxdata, err, unreported>>

RxTypeOK == /\ RxHead \in Slot /\ RxTail \in Slot
            /\ RxBuf \in [Slot -> Byte]
            /\ LastRxError \in SUBSET Error
            /\ rxpc \in {"idle", "advance", "read", "readError", "clearError"}
            /\ rxdata \in Byte \cup {NoByte}
            /\ err \in SUBSET Error
            /\ unreported \in BOOLEAN

(***************************************************************************)
(* uart_init sets the indices to 0; the buffer is zeroed static storage.   *)
(***************************************************************************)
RxInit == /\ RxHead = 0 /\ RxTail = 0
          /\ \E b \in Byte : RxBuf = [i \in Slot |-> b]
          /\ LastRxError = {}
          /\ rxpc = "idle" /\ rxdata = NoByte /\ err = {}
          /\ unreported = FALSE

(***************************************************************************)
(* The receive interrupt: byte b arrives with the status bits usr, a       *)
(* subset of {"FE", "DOR"}.  A full buffer drops the byte and its status.  *)
(***************************************************************************)
OverflowOverwrites ==             \* mutant: a full buffer takes the byte's status only
    /\ NextSlot(RxHead) = RxTail
    /\ RxHead' = NextSlot(RxHead)
    /\ LastRxError' = LastRxError \cup {"OVERFLOW"}
    /\ unreported' = TRUE
    /\ UNCHANGED <<RxTail, RxBuf>>

Overflow == /\ NextSlot(RxHead) = RxTail
            /\ LastRxError' = LastRxError \cup {"OVERFLOW"}
            /\ unreported' = TRUE
            /\ UNCHANGED <<rxring>>

RxStore(b, usr) == /\ NextSlot(RxHead) # RxTail
                   /\ RxHead' = NextSlot(RxHead)
                   /\ RxBuf' = [RxBuf EXCEPT ![NextSlot(RxHead)] = b]
                   /\ LastRxError' = LastRxError \cup usr
                   /\ UNCHANGED <<RxTail, unreported>>

ReceiveISR(b, usr) == (Overflow \/ RxStore(b, usr)) /\ UNCHANGED <<rxpc, rxdata, err>>

(***************************************************************************)
(* uart_getc, one step per volatile access.  Its local tmptail equals      *)
(* RxTail from the step that stores it until getc returns.                 *)
(***************************************************************************)
GetcCheck == /\ rxpc = "idle"
             /\ RxHead # RxTail      \* otherwise UART_NO_DATA is returned
             /\ rxpc' = "advance"
             /\ UNCHANGED <<rxring, LastRxError, rxdata, err, unreported>>

GetcAdvance == /\ rxpc = "advance"
               /\ RxTail' = NextSlot(RxTail)
               /\ rxpc' = "read"
               /\ UNCHANGED <<RxHead, RxBuf, LastRxError, rxdata, err, unreported>>

GetcRead == /\ rxpc = "read"
            /\ rxdata' = RxBuf[RxTail]
            /\ rxpc' = "readError"
            /\ UNCHANGED <<rxring, LastRxError, err, unreported>>

GetcReadError == /\ rxpc = "readError"
                 /\ err' = LastRxError
                 /\ rxpc' = "clearError"
                 /\ UNCHANGED <<rxring, LastRxError, rxdata, unreported>>

(* the last store, and the return of <<err, data>> to the caller           *)
GetcReturn == /\ rxpc = "clearError"
              /\ LastRxError' = {}
              /\ unreported' = (unreported /\ "OVERFLOW" \notin err)
              /\ rxpc' = "idle" /\ rxdata' = NoByte /\ err' = {}
              /\ UNCHANGED <<rxring>>

Getc == GetcCheck \/ GetcAdvance \/ GetcRead \/ GetcReadError \/ GetcReturn

RxNext == Getc \/ \E b \in Byte, usr \in SUBSET {"FE", "DOR"} : ReceiveISR(b, usr)

RxSpec == RxInit /\ [][RxNext]_rxvars

-----------------------------------------------------------------------------
(***************************************************************************)
(* Refinement: the ring buffer is a bounded first-in first-out queue.      *)
(***************************************************************************)
RxContents == Held(RxBuf, RxHead, RxTail)

InHand == CASE rxpc = "read" -> RxBuf[RxTail]
            [] rxpc \in {"readError", "clearError"} -> rxdata
            [] OTHER -> NoByte

RxFifo == INSTANCE BoundedFifo WITH Element <- Byte, Capacity <- Size - 1,
                                    Nothing <- NoByte, queue <- RxContents, hand <- InHand

(* The ring buffer implements the queue although getc publishes the new    *)
(* tail (uart.c:427) before it has read the slot (uart.c:430): no          *)
(* interleaving of the interrupt loses, repeats, reorders or overwrites a  *)
(* byte that was stored.                                                   *)
RxFifoSpec == RxFifo!Spec

(* getc reports an overflow only when a byte has been dropped since the    *)
(* last report: the error register is never stale the other way.           *)
NoSpuriousOverflow == "OVERFLOW" \in LastRxError => unreported
=============================================================================
