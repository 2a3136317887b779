------------------------------- MODULE UartTx -------------------------------
(***************************************************************************)
(* The transmit side of drivers/uart.c: uart_putc() fills a ring buffer    *)
(* that the data-register-empty interrupt moves, a byte at a time, to the  *)
(* UART; uart_flush() waits for it before the processor sleeps.  The       *)
(* hardware has a one-byte data register in front of a shift register.     *)
(*                                                                         *)
(* Time is counted in bits on the wire.  Interrupts are enabled while the  *)
(* program runs, so a pending interrupt is served before its next step.    *)
(***************************************************************************)
EXTENDS Ring

CONSTANTS FrameBits,   \* bits of a byte on the wire: start bit, data, stop bit
          FlushBits    \* bit times in uart_flush's delay of 100 microseconds

ASSUME BitsAssumption == FrameBits \in Nat \ {0} /\ FlushBits \in Nat

VARIABLES
    TxHead,     \* UART_TxHead: the slot last written by putc
    TxTail,     \* UART_TxTail: the slot last handed to the UART
    TxBuf,      \* UART_TxBuf
    UDRIE,      \* the interrupt enable bit in UART0_CONTROL
    NeedFlush,  \* UART_NeedFlush
    DataReg,    \* UART0_DATA, NoByte when it is empty
    bitsLeft,   \* bits the shift register has still to send
    txpc,       \* where the program is, "idle" outside this driver
    txdata,     \* the argument of putc
    delay       \* bit times left of flush's delay

txring == <<TxHead, TxTail, TxBuf>>
txvars == <<TxHead, TxTail, TxBuf, UDRIE, NeedFlush, DataReg, bitsLeft, txpc, txdata, delay>>

TxTypeOK == /\ TxHead \in Slot /\ TxTail \in Slot
            /\ TxBuf \in [Slot -> Byte]
            /\ UDRIE \in BOOLEAN /\ NeedFlush \in BOOLEAN
            /\ DataReg \in Byte \cup {NoByte}
            /\ bitsLeft \in 0 .. FrameBits
            /\ txpc \in {"idle", "wait", "store", "publish", "enable",
                         "flush", "delay", "flushed"}
            /\ txdata \in Byte \cup {NoByte}
            /\ delay \in 0 .. FlushBits

TxInit == /\ TxHead = 0 /\ TxTail = 0
          /\ \E b \in Byte : TxBuf = [i \in Slot |-> b]
          /\ UDRIE = FALSE /\ NeedFlush = FALSE
          /\ DataReg = NoByte /\ bitsLeft = 0
          /\ txpc = "idle" /\ txdata = NoByte /\ delay = 0

(***************************************************************************)
(* The data-register-empty interrupt.                                      *)
(***************************************************************************)
Pending == UDRIE /\ DataReg = NoByte

SendByteKeepsFlag ==         \* mutant: UART_NeedFlush is not set
    /\ TxHead # TxTail
    /\ TxTail' = NextSlot(TxTail)
    /\ DataReg' = TxBuf[NextSlot(TxTail)]
    /\ UNCHANGED <<TxHead, TxBuf, UDRIE, NeedFlush>>

SendByte == /\ TxHead # TxTail
            /\ TxTail' = NextSlot(TxTail)
            /\ DataReg' = TxBuf[NextSlot(TxTail)]
            /\ NeedFlush' = TRUE
            /\ UNCHANGED <<TxHead, TxBuf, UDRIE>>

BufferEmpty == /\ TxHead = TxTail
               /\ UDRIE' = FALSE
               /\ NeedFlush' = FALSE
               /\ UNCHANGED <<txring, DataReg>>

TransmitISR == /\ Pending
               /\ SendByte \/ BufferEmpty
               /\ UNCHANGED <<bitsLeft, txpc, txdata, delay>>

(***************************************************************************)
(* The UART: an empty shift register takes the data register at once, and  *)
(* a bit time passes for it and for a delay loop of the program.           *)
(***************************************************************************)
LoadShifter == /\ DataReg # NoByte /\ bitsLeft = 0
               /\ bitsLeft' = FrameBits
               /\ DataReg' = NoByte
               /\ UNCHANGED <<txring, UDRIE, NeedFlush, txpc, txdata, delay>>

Settled == ~Pending /\ ~(DataReg # NoByte /\ bitsLeft = 0)

TxBitTime == /\ Settled
             /\ bitsLeft > 0 \/ delay > 0
             /\ bitsLeft' = IF bitsLeft > 0 THEN bitsLeft - 1 ELSE 0
             /\ delay' = IF delay > 0 THEN delay - 1 ELSE 0
             /\ UNCHANGED <<txring, UDRIE, NeedFlush, DataReg, txpc, txdata>>

(***************************************************************************)
(* uart_putc, one step per volatile access.  Setting UDRIE is a read and a *)
(* write of the control register, but only its UDRIE bit ever changes and  *)
(* the written value has it set, so the write alone is the step.           *)
(***************************************************************************)
PutcCall(b) == /\ txpc = "idle"
               /\ txpc' = "wait" /\ txdata' = b
               /\ UNCHANGED <<txring, UDRIE, NeedFlush, DataReg, bitsLeft, delay>>

PutcNoWait ==                \* mutant: putc does not wait for a free slot
    /\ txpc = "wait"
    /\ txpc' = "store"
    /\ UNCHANGED <<txring, UDRIE, NeedFlush, DataReg, bitsLeft, txdata, delay>>

PutcWait == /\ txpc = "wait"
            /\ NextSlot(TxHead) # TxTail
            /\ txpc' = "store"
            /\ UNCHANGED <<txring, UDRIE, NeedFlush, DataReg, bitsLeft, txdata, delay>>

PutcStore == /\ txpc = "store"
             /\ TxBuf' = [TxBuf EXCEPT ![NextSlot(TxHead)] = txdata]
             /\ txpc' = "publish"
             /\ UNCHANGED <<TxHead, TxTail, UDRIE, NeedFlush, DataReg, bitsLeft, txdata, delay>>

PutcPublish == /\ txpc = "publish"
               /\ TxHead' = NextSlot(TxHead)
               /\ txpc' = "enable"
               /\ UNCHANGED <<TxTail, TxBuf, UDRIE, NeedFlush, DataReg, bitsLeft, txdata, delay>>

PutcReturnsDisabled ==       \* mutant: the interrupt is not enabled
    /\ txpc = "enable"
    /\ txpc' = "idle" /\ txdata' = NoByte
    /\ UNCHANGED <<txring, UDRIE, NeedFlush, DataReg, bitsLeft, delay>>

PutcEnable == /\ txpc = "enable"
              /\ UDRIE' = TRUE
              /\ txpc' = "idle" /\ txdata' = NoByte
              /\ UNCHANGED <<txring, NeedFlush, DataReg, bitsLeft, delay>>

(***************************************************************************)
(* uart_flush: wait for UART_NeedFlush to clear, then 100 microseconds.    *)
(***************************************************************************)
FlushCall == /\ txpc = "idle"
             /\ txpc' = "flush"
             /\ UNCHANGED <<txring, UDRIE, NeedFlush, DataReg, bitsLeft, txdata, delay>>

FlushWait == /\ txpc = "flush" /\ ~NeedFlush
             /\ txpc' = "delay" /\ delay' = FlushBits
             /\ UNCHANGED <<txring, UDRIE, NeedFlush, DataReg, bitsLeft, txdata>>

FlushDelay == /\ txpc = "delay" /\ delay = 0
              /\ txpc' = "flushed"
              /\ UNCHANGED <<txring, UDRIE, NeedFlush, DataReg, bitsLeft, txdata, delay>>

FlushReturn == /\ txpc = "flushed"
               /\ txpc' = "idle"
               /\ UNCHANGED <<txring, UDRIE, NeedFlush, DataReg, bitsLeft, txdata, delay>>

Program == /\ ~Pending
           /\ \/ \E b \in Byte : PutcCall(b)
              \/ PutcWait \/ PutcStore \/ PutcPublish \/ PutcEnable
              \/ FlushCall \/ FlushWait \/ FlushDelay \/ FlushReturn

TxNext == TransmitISR \/ LoadShifter \/ TxBitTime \/ Program

(***************************************************************************)
(* Interrupts are served, the hardware shifts and a call that can take its *)
(* next step takes it; whether the program makes another call is open.     *)
(***************************************************************************)
Fairness == /\ WF_txvars(TransmitISR) /\ WF_txvars(LoadShifter) /\ WF_txvars(TxBitTime)
            /\ WF_txvars(Program /\ txpc # "idle")

TxSpec == TxInit /\ [][TxNext]_txvars /\ Fairness

-----------------------------------------------------------------------------
TxContents == Held(TxBuf, TxHead, TxTail)

TxFifo == INSTANCE BoundedFifo WITH Element <- Byte, Capacity <- Size - 1,
                                    Nothing <- NoByte, queue <- TxContents, hand <- DataReg

(* Bytes reach the data register in the order putc was called with them,   *)
(* none lost or sent twice, although putc writes the slot and publishes it *)
(* in two steps that the interrupt may separate.                           *)
TxFifoSpec == TxFifo!Spec

(* uart.c:466: when flush returns the stop bit of the last byte is on the  *)
(* wire: nothing is queued, waiting or being shifted, so the processor may *)
(* stop the UART's clock.                                                  *)
FlushDrains == txpc = "flushed" => TxHead = TxTail /\ DataReg = NoByte /\ bitsLeft = 0

(* What putc queued is sent: the interrupt stays enabled while the ring    *)
(* holds a byte and putc is not about to enable it, so a full ring drains  *)
(* and a waiting putc always returns; and so does flush, for               *)
(* UART_NeedFlush is cleared once the ring has drained.                    *)
CallsReturn == (txpc = "wait" ~> txpc = "idle") /\ (txpc = "flush" ~> txpc = "flushed")
=============================================================================
