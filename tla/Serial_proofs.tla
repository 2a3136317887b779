---------------------------- MODULE Serial_proofs ----------------------------
(***************************************************************************)
(* The serial ports: the two rings of the UART driver implement            *)
(* BoundedFifo, for every size of a buffer and every set of byte values,   *)
(* and flush leaves nothing on the wire.  The two sides share the lemmas   *)
(* about the ring.                                                         *)
(***************************************************************************)
EXTENDS UartRx, UartTx, SoftSerial, SequenceTheorems, TLAPS

(***************************************************************************)
(* The ring.  First the arithmetic of its indices.                         *)
(***************************************************************************)
LEMMA SlotAfterValue ==
  ASSUME NEW t \in Slot, NEW i \in 0 .. Size
  PROVE  /\ SlotAfter(t, i) = (IF t + i < Size THEN t + i ELSE t + i - Size)
         /\ SlotAfter(t, i) \in Slot
  BY SizeAssumption DEF SlotAfter, Slot

LEMMA NextSlotValue ==
  ASSUME NEW i \in Slot
  PROVE  /\ NextSlot(i) = (IF i = Size - 1 THEN 0 ELSE i + 1)
         /\ NextSlot(i) \in Slot
<1>1. NextSlot(i) = SlotAfter(i, 1)
  BY DEF NextSlot, SlotAfter
<1>2. 1 \in 0 .. Size
  BY SizeAssumption
<1>3. /\ SlotAfter(i, 1) = (IF i + 1 < Size THEN i + 1 ELSE i + 1 - Size)
      /\ SlotAfter(i, 1) \in Slot
  BY <1>2, SlotAfterValue
<1> QED BY <1>1, <1>3, SizeAssumption DEF Slot

LEMMA DistanceValue ==
  ASSUME NEW h \in Slot, NEW t \in Slot
  PROVE  /\ Distance(h, t) \in 0 .. Size - 1
         /\ h = t <=> Distance(h, t) = 0
         /\ NextSlot(h) = t <=> Distance(h, t) = Size - 1
  BY SizeAssumption, NextSlotValue DEF Slot, Distance

(* storing a byte uses a slot that holds none *)
LEMMA StoreArithmetic ==
  ASSUME NEW h \in Slot, NEW t \in Slot, NextSlot(h) # t
  PROVE  /\ Distance(NextSlot(h), t) = Distance(h, t) + 1
         /\ SlotAfter(t, Distance(h, t) + 1) = NextSlot(h)
         /\ \A i \in 1 .. Distance(h, t) : SlotAfter(t, i) # NextSlot(h)
<1>1. NextSlot(h) = (IF h = Size - 1 THEN 0 ELSE h + 1) /\ NextSlot(h) \in Slot
  BY NextSlotValue
<1>2. Distance(NextSlot(h), t) = Distance(h, t) + 1
  BY <1>1, SizeAssumption DEF Slot, Distance
<1>3. ASSUME NEW i \in 1 .. Distance(h, t) + 1
      PROVE  SlotAfter(t, i) = (IF t + i < Size THEN t + i ELSE t + i - Size)
  <2>1. i \in 0 .. Size
    BY SizeAssumption DEF Slot, Distance
  <2> QED BY <2>1, SlotAfterValue
<1>4. SlotAfter(t, Distance(h, t) + 1) = NextSlot(h)
  BY <1>1, <1>3, SizeAssumption DEF Slot, Distance
<1>5. ASSUME NEW i \in 1 .. Distance(h, t)
      PROVE  SlotAfter(t, i) # NextSlot(h)
  BY <1>1, <1>3, SizeAssumption DEF Slot, Distance
<1> QED BY <1>2, <1>4, <1>5

(* moving the tail leaves the other bytes where they were *)
LEMMA AdvanceArithmetic ==
  ASSUME NEW h \in Slot, NEW t \in Slot, h # t
  PROVE  /\ Distance(h, NextSlot(t)) = Distance(h, t) - 1
         /\ \A i \in 1 .. Distance(h, t) - 1 :
               SlotAfter(NextSlot(t), i) = SlotAfter(t, i + 1)
<1>1. NextSlot(t) = (IF t = Size - 1 THEN 0 ELSE t + 1) /\ NextSlot(t) \in Slot
  BY NextSlotValue
<1>2. Distance(h, NextSlot(t)) = Distance(h, t) - 1
  BY <1>1, SizeAssumption DEF Slot, Distance
<1>3. ASSUME NEW i \in 1 .. Distance(h, t) - 1
      PROVE  SlotAfter(NextSlot(t), i) = SlotAfter(t, i + 1)
  <2>1. i \in 0 .. Size /\ i + 1 \in 0 .. Size
    BY SizeAssumption DEF Slot, Distance
  <2>2. SlotAfter(NextSlot(t), i) = IF NextSlot(t) + i < Size THEN NextSlot(t) + i
                                    ELSE NextSlot(t) + i - Size
    BY <1>1, <2>1, SlotAfterValue
  <2>3. SlotAfter(t, i + 1) = IF t + (i + 1) < Size THEN t + (i + 1) ELSE t + (i + 1) - Size
    BY <2>1, SlotAfterValue
  <2> QED BY <1>1, <2>1, <2>2, <2>3, SizeAssumption DEF Slot
<1> QED BY <1>2, <1>3

(* What the ring holds is a sequence of bytes. *)
LEMMA HeldShape ==
  ASSUME NEW h \in Slot, NEW t \in Slot, NEW buf \in [Slot -> Byte]
  PROVE  /\ Held(buf, h, t) \in Seq(Byte)
         /\ Len(Held(buf, h, t)) = Distance(h, t)
         /\ \A i \in 1 .. Distance(h, t) : Held(buf, h, t)[i] = buf[SlotAfter(t, i)]
<1>1. Distance(h, t) \in 0 .. Size - 1
  BY DistanceValue
<1>2. ASSUME NEW i \in 1 .. Distance(h, t) PROVE buf[SlotAfter(t, i)] \in Byte
  <2>1. i \in 0 .. Size
    BY <1>1, SizeAssumption
  <2> QED BY <2>1, SlotAfterValue
<1>3. Distance(h, t) \in Nat
  BY <1>1, SizeAssumption
<1> HIDE DEF Distance, SlotAfter
<1> QED BY <1>2, <1>3 DEF Held

(* Writing the free slot before the head leaves what the ring holds. *)
LEMMA RingWrite ==
  ASSUME NEW h \in Slot, NEW t \in Slot, NextSlot(h) # t, NEW buf, NEW new,
         \A s \in Slot : s # NextSlot(h) => new[s] = buf[s]
  PROVE  Held(new, h, t) = Held(buf, h, t)
<1>1. Distance(h, t) \in 0 .. Size - 1
  BY DistanceValue
<1>2. ASSUME NEW i \in 1 .. Distance(h, t) PROVE new[SlotAfter(t, i)] = buf[SlotAfter(t, i)]
  <2>1. i \in 0 .. Size
    BY <1>1, SizeAssumption
  <2>2. SlotAfter(t, i) \in Slot
    BY <2>1, SlotAfterValue
  <2>3. SlotAfter(t, i) # NextSlot(h)
    BY StoreArithmetic
  <2> QED BY <2>2, <2>3
<1> QED BY <1>2 DEF Held

(* Moving the head over a slot that has been written appends its byte, and *)
(* there was room for it.                                                  *)
LEMMA RingPublish ==
  ASSUME NEW h \in Slot, NEW t \in Slot, NEW buf \in [Slot -> Byte], NextSlot(h) # t
  PROVE  /\ Held(buf, NextSlot(h), t) = Append(Held(buf, h, t), buf[NextSlot(h)])
         /\ Len(Held(buf, h, t)) < Size - 1
<1> DEFINE d == Distance(h, t)
           n == NextSlot(h)
           q == Held(buf, h, t)
           q2 == Held(buf, n, t)
<1>1. n \in Slot /\ buf[n] \in Byte
  BY NextSlotValue
<1>2. d \in 0 .. Size - 1 /\ d # Size - 1
  BY DistanceValue
<1>3. Distance(n, t) = d + 1 /\ SlotAfter(t, d + 1) = n
  BY StoreArithmetic
<1>4. q \in Seq(Byte) /\ Len(q) = d /\ \A i \in 1 .. d : q[i] = buf[SlotAfter(t, i)]
  BY HeldShape
<1>5. q2 = [i \in 1 .. d + 1 |-> buf[SlotAfter(t, i)]]
  BY <1>3 DEF Held
<1>6. d \in Nat /\ d < Size - 1
  BY <1>2, SizeAssumption
<1> HIDE DEF d, n, q, q2
<1>7. ASSUME NEW i \in 1 .. d + 1 PROVE buf[SlotAfter(t, i)] = Append(q, buf[n])[i]
  <2>1. CASE i = d + 1
    BY <1>1, <1>3, <1>4, <2>1, AppendProperties
  <2>2. CASE i # d + 1
    <3>1. i \in 1 .. d
      BY <1>6, <2>2
    <3> QED BY <1>1, <1>4, <3>1, AppendProperties
  <2> QED BY <2>1, <2>2
<1>8. Append(q, buf[n]) = [i \in 1 .. d + 1 |-> Append(q, buf[n])[i]]
  <2>1. Append(q, buf[n]) \in Seq(Byte) /\ Len(Append(q, buf[n])) = d + 1
    BY <1>1, <1>4, AppendProperties
  <2>2. Append(q, buf[n]) \in [1 .. d + 1 -> Byte]
    BY <2>1, LenProperties
  <2> QED BY <2>2
<1>9. q2 = Append(q, buf[n])
  BY <1>5, <1>7, <1>8
<1> QED BY <1>4, <1>6, <1>9 DEF d, n, q, q2

(* Moving the tail takes the oldest byte, that of the slot it moves to. *)
LEMMA RingTake ==
  ASSUME NEW h \in Slot, NEW t \in Slot, NEW buf \in [Slot -> Byte], h # t
  PROVE  /\ Held(buf, h, t) # << >>
         /\ Head(Held(buf, h, t)) = buf[NextSlot(t)]
         /\ Held(buf, h, NextSlot(t)) = Tail(Held(buf, h, t))
<1> DEFINE d == Distance(h, t)
           n == NextSlot(t)
           q == Held(buf, h, t)
           q2 == Held(buf, h, n)
<1>1. d \in 0 .. Size - 1 /\ d # 0
  BY DistanceValue
<1>2. /\ Distance(h, n) = d - 1
      /\ \A i \in 1 .. d - 1 : SlotAfter(n, i) = SlotAfter(t, i + 1)
  BY AdvanceArithmetic
<1>3. q \in Seq(Byte) /\ Len(q) = d /\ \A i \in 1 .. d : q[i] = buf[SlotAfter(t, i)]
  BY HeldShape
<1>4. q2 = [i \in 1 .. d - 1 |-> buf[SlotAfter(n, i)]]
  BY <1>2 DEF Held
<1>5. d \in Nat /\ d >= 1 /\ SlotAfter(t, 1) = n
  BY <1>1, SizeAssumption DEF SlotAfter, NextSlot
<1> HIDE DEF d, n, q, q2
<1>6. q # << >> /\ Head(q) = buf[n]
  BY <1>3, <1>5
<1>7. /\ Tail(q) \in Seq(Byte) /\ Len(Tail(q)) = d - 1
      /\ \A i \in 1 .. d - 1 : Tail(q)[i] = q[i + 1]
  BY <1>3, <1>6, HeadTailProperties
<1>8. Tail(q) = [i \in 1 .. d - 1 |-> Tail(q)[i]]
  <2>1. Tail(q) \in [1 .. d - 1 -> Byte]
    BY <1>7, LenProperties
  <2> QED BY <2>1
<1>9. ASSUME NEW i \in 1 .. d - 1 PROVE q[i + 1] = buf[SlotAfter(n, i)]
  BY <1>2, <1>3, <1>5
<1>10. q2 = Tail(q)
  BY <1>4, <1>7, <1>8, <1>9
<1> QED BY <1>6, <1>10 DEF d, n, q, q2

-----------------------------------------------------------------------------
(***************************************************************************)
(* The receive side.                                                       *)
(***************************************************************************)
LEMMA RxInitTypes == RxInit => RxTypeOK
<1> SUFFICES ASSUME RxInit PROVE RxTypeOK
  OBVIOUS
<1>1. RxBuf \in [Slot -> Byte]
  BY DEF RxInit
<1>2. 0 \in Slot
  BY SizeAssumption DEF Slot
<1> QED BY <1>1, <1>2 DEF RxInit, RxTypeOK

(* The indices stay in the buffer and every variable keeps its type, for   *)
(* every buffer size: no interrupt or call writes outside UART_RxBuf.      *)
THEOREM RxTyping == RxSpec => []RxTypeOK
<1>1. RxInit => RxTypeOK
  BY RxInitTypes
<1>2. RxTypeOK /\ [RxNext]_rxvars => RxTypeOK'
  <2> SUFFICES ASSUME RxTypeOK, [RxNext]_rxvars PROVE RxTypeOK'
    OBVIOUS
  <2>1. ASSUME NEW b \in Byte, NEW usr \in SUBSET {"FE", "DOR"}, ReceiveISR(b, usr)
        PROVE RxTypeOK'
    <3>1. NextSlot(RxHead) \in Slot
      BY NextSlotValue DEF RxTypeOK
    <3>2. CASE Overflow
      BY <2>1, <3>2 DEF ReceiveISR, Overflow, RxTypeOK, rxring, Error
    <3>3. CASE RxStore(b, usr)
      BY <2>1, <3>1, <3>3 DEF ReceiveISR, RxStore, RxTypeOK, Error
    <3> QED BY <2>1, <3>2, <3>3 DEF ReceiveISR
  <2>2. CASE GetcCheck
    BY <2>2 DEF GetcCheck, RxTypeOK, rxring
  <2>3. CASE GetcAdvance
    <3>1. NextSlot(RxTail) \in Slot
      BY NextSlotValue DEF RxTypeOK
    <3> QED BY <2>3, <3>1 DEF GetcAdvance, RxTypeOK
  <2>4. CASE GetcRead
    BY <2>4 DEF GetcRead, RxTypeOK, rxring
  <2>5. CASE GetcReadError
    BY <2>5 DEF GetcReadError, RxTypeOK, rxring
  <2>6. CASE GetcReturn
    BY <2>6 DEF GetcReturn, RxTypeOK, rxring
  <2>7. CASE UNCHANGED rxvars
    BY <2>7 DEF rxvars, RxTypeOK
  <2> QED BY <2>1, <2>2, <2>3, <2>4, <2>5, <2>6, <2>7 DEF RxNext, Getc
<1> QED BY <1>1, <1>2, PTL DEF RxSpec

-----------------------------------------------------------------------------
(***************************************************************************)
(* getc found the ring non-empty before it moves the tail, and data holds  *)
(* a byte exactly between the read and the return: the two facts about the *)
(* control state that the refinement needs.                                *)
(***************************************************************************)
RxInv == /\ RxTypeOK
         /\ rxpc = "advance" => RxHead # RxTail
         /\ rxpc \in {"readError", "clearError"} <=> rxdata # NoByte

LEMMA RxInductive == RxSpec => []RxInv
<1>1. RxInit => RxInv
  <2> SUFFICES ASSUME RxInit PROVE RxInv
    OBVIOUS
  <2>1. RxTypeOK
    BY RxInitTypes
  <2> QED BY <2>1 DEF RxInit, RxInv
<1>2. RxInv /\ RxTypeOK' /\ [RxNext]_rxvars => RxInv'
  <2> SUFFICES ASSUME RxInv, RxTypeOK', [RxNext]_rxvars PROVE RxInv'
    OBVIOUS
  <2>1. ASSUME NEW b \in Byte, NEW usr \in SUBSET {"FE", "DOR"}, ReceiveISR(b, usr)
        PROVE RxInv'
    BY <2>1, NextSlotValue DEF ReceiveISR, Overflow, RxStore, rxring, RxInv, RxTypeOK
  <2>2. CASE GetcCheck
    BY <2>2 DEF GetcCheck, RxInv, rxring
  <2>3. CASE GetcAdvance
    BY <2>3 DEF GetcAdvance, RxInv
  <2>4. CASE GetcRead
    BY <2>4, NoByteAssumption DEF GetcRead, RxInv, rxring, RxTypeOK
  <2>5. CASE GetcReadError
    BY <2>5 DEF GetcReadError, RxInv, rxring
  <2>6. CASE GetcReturn
    BY <2>6 DEF GetcReturn, RxInv, rxring
  <2>7. CASE UNCHANGED rxvars
    BY <2>7 DEF rxvars, RxInv
  <2> QED BY <2>1, <2>2, <2>3, <2>4, <2>5, <2>6, <2>7 DEF RxNext, Getc
<1> QED BY <1>1, <1>2, RxTyping, PTL DEF RxSpec

(* Storing a byte appends it to the queue. *)
LEMMA RxStorePuts ==
  ASSUME RxInv, NEW b \in Byte, NEW usr, RxStore(b, usr), UNCHANGED <<rxpc, rxdata, err>>
  PROVE  RxFifo!Put(b)
<1>1. RxHead \in Slot /\ RxTail \in Slot /\ RxBuf \in [Slot -> Byte] /\ NextSlot(RxHead) # RxTail
  BY DEF RxInv, RxTypeOK, RxStore
<1>2. RxHead' = NextSlot(RxHead) /\ RxTail' = RxTail
  BY DEF RxStore
<1>3. /\ Held(RxBuf', RxHead, RxTail) = RxContents
      /\ RxBuf' \in [Slot -> Byte] /\ RxBuf'[NextSlot(RxHead)] = b
  <2>1. RxBuf' \in [Slot -> Byte] /\ RxBuf'[NextSlot(RxHead)] = b
    BY <1>1, NextSlotValue DEF RxStore
  <2>2. \A s \in Slot : s # NextSlot(RxHead) => RxBuf'[s] = RxBuf[s]
    BY <1>1 DEF RxStore
  <2>3. Held(RxBuf', RxHead, RxTail) = Held(RxBuf, RxHead, RxTail)
    BY <1>1, <2>2, RingWrite
  <2> QED BY <2>1, <2>3 DEF RxContents
<1>4. /\ Held(RxBuf', NextSlot(RxHead), RxTail) = Append(RxContents, b)
      /\ Len(RxContents) < Size - 1
  BY <1>1, <1>3, RingPublish
<1>5. RxContents' = Append(RxContents, b)
  BY <1>2, <1>4 DEF RxContents
<1>6. InHand' = InHand
  <2>1. RxBuf'[RxTail] = RxBuf[RxTail]
    BY <1>1 DEF RxStore
  <2> QED BY <1>2, <2>1 DEF InHand
<1> QED BY <1>4, <1>5, <1>6 DEF RxFifo!Put

(* Moving the tail takes the oldest byte into the hand. *)
LEMMA AdvanceTakes ==
  ASSUME RxInv, GetcAdvance
  PROVE  RxFifo!Take
<1>1. RxHead \in Slot /\ RxTail \in Slot /\ RxBuf \in [Slot -> Byte] /\ RxHead # RxTail
  BY DEF RxInv, RxTypeOK, GetcAdvance
<1>2. RxTail' = NextSlot(RxTail) /\ RxHead' = RxHead /\ RxBuf' = RxBuf
  BY DEF GetcAdvance
<1>3. /\ RxContents # << >>
      /\ Head(RxContents) = RxBuf[NextSlot(RxTail)]
      /\ Held(RxBuf, RxHead, NextSlot(RxTail)) = Tail(RxContents)
  BY <1>1, RingTake DEF RxContents
<1>4. RxContents' = Tail(RxContents)
  BY <1>2, <1>3 DEF RxContents
<1>5. InHand = NoByte /\ InHand' = RxBuf[NextSlot(RxTail)]
  BY <1>2 DEF GetcAdvance, InHand
<1> QED BY <1>3, <1>4, <1>5 DEF RxFifo!Take

(* The ring buffer, read and written at the same time, is a bounded queue: *)
(* getc and the receive interrupt cannot lose, repeat, reorder or corrupt  *)
(* a stored byte, whatever the size of the buffer.                         *)
THEOREM RxRingIsAFifo == RxSpec => RxFifoSpec
<1>1. RxInit => RxFifo!Init
  <2> SUFFICES ASSUME RxInit PROVE RxFifo!Init
    OBVIOUS
  <2>1. Distance(RxHead, RxTail) = 0
    BY DEF RxInit, Distance
  <2>2. RxContents = << >>
    BY <2>1 DEF RxContents, Held
  <2> QED BY <2>2 DEF RxInit, InHand, RxFifo!Init
<1>2. RxInv /\ RxInv' /\ [RxNext]_rxvars => [RxFifo!Next]_RxFifo!vars
  <2> SUFFICES ASSUME RxInv, RxInv', [RxNext]_rxvars PROVE [RxFifo!Next]_RxFifo!vars
    OBVIOUS
  <2>1. ASSUME NEW b \in Byte, NEW usr \in SUBSET {"FE", "DOR"}, ReceiveISR(b, usr)
        PROVE [RxFifo!Next]_RxFifo!vars
    <3>1. CASE Overflow
      BY <2>1, <3>1 DEF ReceiveISR, Overflow, rxring, RxContents, InHand, RxFifo!vars
    <3>2. CASE RxStore(b, usr)
      BY <2>1, <3>2, RxStorePuts DEF ReceiveISR, RxInv, RxFifo!Next
    <3> QED BY <2>1, <3>1, <3>2 DEF ReceiveISR
  <2>2. CASE GetcCheck
    BY <2>2 DEF GetcCheck, rxring, RxContents, InHand, RxFifo!vars
  <2>3. CASE GetcAdvance
    BY <2>3, AdvanceTakes DEF RxInv, RxFifo!Next
  <2>4. CASE GetcRead
    BY <2>4 DEF GetcRead, rxring, RxContents, InHand, RxFifo!vars
  <2>5. CASE GetcReadError
    BY <2>5 DEF GetcReadError, rxring, RxContents, InHand, RxFifo!vars
  <2>6. CASE GetcReturn
    <3>1. RxContents' = RxContents
      BY <2>6 DEF GetcReturn, rxring, RxContents
    <3>2. InHand = rxdata /\ rxdata # NoByte /\ InHand' = NoByte
      BY <2>6 DEF GetcReturn, InHand, RxInv
    <3> QED BY <3>1, <3>2 DEF RxFifo!Finish, RxFifo!Next
  <2>7. CASE UNCHANGED rxvars
    BY <2>7 DEF rxvars, RxContents, InHand, RxFifo!vars
  <2> QED BY <2>1, <2>2, <2>3, <2>4, <2>5, <2>6, <2>7 DEF RxNext, Getc
<1> QED BY <1>1, <1>2, RxInductive, PTL DEF RxSpec, RxFifoSpec, RxFifo!Spec

(***************************************************************************)
(* An overflow in the error register stands for a byte that was dropped    *)
(* and not yet reported: only the interrupt sets it, as it drops a byte,   *)
(* and getc clears it in the step in which it reports (uart.c:433).        *)
(***************************************************************************)
THEOREM DropsAreReal == RxSpec => []NoSpuriousOverflow
<1>1. RxInit => NoSpuriousOverflow
  BY DEF RxInit, NoSpuriousOverflow
<1>2. NoSpuriousOverflow /\ [RxNext]_rxvars => NoSpuriousOverflow'
  <2> SUFFICES ASSUME NoSpuriousOverflow, [RxNext]_rxvars PROVE NoSpuriousOverflow'
    OBVIOUS
  <2>1. CASE \E b \in Byte, usr \in SUBSET {"FE", "DOR"} : ReceiveISR(b, usr)
    BY <2>1 DEF ReceiveISR, Overflow, RxStore, NoSpuriousOverflow
  <2>2. CASE GetcReturn
    BY <2>2 DEF GetcReturn, NoSpuriousOverflow
  <2>3. CASE GetcCheck \/ GetcAdvance \/ GetcRead \/ GetcReadError
    BY <2>3 DEF GetcCheck, GetcAdvance, GetcRead, GetcReadError, NoSpuriousOverflow
  <2>4. CASE UNCHANGED rxvars
    BY <2>4 DEF rxvars, NoSpuriousOverflow
  <2> QED BY <2>1, <2>2, <2>3, <2>4 DEF RxNext, Getc
<1> QED BY <1>1, <1>2, PTL DEF RxSpec

-----------------------------------------------------------------------------
(***************************************************************************)
(* The transmit side.  Between the moment putc finds a free slot and the   *)
(* moment it publishes the head, the interrupt may move the tail but not   *)
(* onto that slot, and the slot keeps the byte putc wrote to it: what the  *)
(* queue needs.                                                            *)
(***************************************************************************)
TxInv == /\ TxTypeOK
         /\ txpc \in {"wait", "store", "publish"} => txdata \in Byte
         /\ txpc \in {"store", "publish"} => NextSlot(TxHead) # TxTail
         /\ txpc = "publish" => TxBuf[NextSlot(TxHead)] = txdata

LEMMA NextSlotOneToOne ==
  ASSUME NEW i \in Slot, NEW j \in Slot, i # j
  PROVE  NextSlot(i) # NextSlot(j)
  BY NextSlotValue, SizeAssumption DEF Slot

LEMMA TxInitInv == TxInit => TxInv
<1> SUFFICES ASSUME TxInit PROVE TxInv
  OBVIOUS
<1>1. TxBuf \in [Slot -> Byte]
  BY DEF TxInit
<1>2. 0 \in Slot /\ 0 \in 0 .. FrameBits /\ 0 \in 0 .. FlushBits
  BY SizeAssumption, BitsAssumption DEF Slot
<1> QED BY <1>1, <1>2 DEF TxInit, TxTypeOK, TxInv

LEMMA TxTypeStep == TxInv /\ [TxNext]_txvars => TxTypeOK'
<1> SUFFICES ASSUME TxInv, [TxNext]_txvars PROVE TxTypeOK'
  OBVIOUS
<1>0. TxTypeOK
  BY DEF TxInv
<1>1. /\ NextSlot(TxHead) \in Slot /\ NextSlot(TxTail) \in Slot
      /\ TxBuf[NextSlot(TxTail)] \in Byte
  BY <1>0, NextSlotValue DEF TxTypeOK
<1>2. CASE TransmitISR
  <2>1. CASE SendByte
    BY <1>0, <1>1, <1>2, <2>1 DEF TransmitISR, SendByte, TxTypeOK
  <2>2. CASE BufferEmpty
    BY <1>0, <1>2, <2>2 DEF TransmitISR, BufferEmpty, TxTypeOK, txring
  <2> QED BY <1>2, <2>1, <2>2 DEF TransmitISR
<1>3. CASE LoadShifter
  BY <1>0, <1>3, BitsAssumption DEF LoadShifter, TxTypeOK, txring
<1>4. CASE TxBitTime
  BY <1>0, <1>4, BitsAssumption DEF TxBitTime, TxTypeOK, txring
<1>5. ASSUME NEW b \in Byte, PutcCall(b) PROVE TxTypeOK'
  BY <1>0, <1>5 DEF PutcCall, TxTypeOK, txring
<1>6. CASE PutcWait
  BY <1>0, <1>6 DEF PutcWait, TxTypeOK, txring
<1>7. CASE PutcStore
  BY <1>0, <1>1, <1>7 DEF PutcStore, TxTypeOK, TxInv
<1>8. CASE PutcPublish
  BY <1>0, <1>1, <1>8 DEF PutcPublish, TxTypeOK
<1>9. CASE PutcEnable
  BY <1>0, <1>9 DEF PutcEnable, TxTypeOK, txring
<1>10. CASE FlushCall
  BY <1>0, <1>10 DEF FlushCall, TxTypeOK, txring
<1>11. CASE FlushWait
  BY <1>0, <1>11, BitsAssumption DEF FlushWait, TxTypeOK, txring
<1>12. CASE FlushDelay
  BY <1>0, <1>12 DEF FlushDelay, TxTypeOK, txring
<1>13. CASE FlushReturn
  BY <1>0, <1>13 DEF FlushReturn, TxTypeOK, txring
<1>14. CASE UNCHANGED txvars
  BY <1>0, <1>14 DEF txvars, TxTypeOK
<1> QED BY <1>2, <1>3, <1>4, <1>5, <1>6, <1>7, <1>8, <1>9, <1>10, <1>11, <1>12, <1>13, <1>14
        DEF TxNext, Program

LEMMA TxStep == TxInv /\ TxTypeOK' /\ [TxNext]_txvars => TxInv'
<1> SUFFICES ASSUME TxInv, TxTypeOK', [TxNext]_txvars PROVE TxInv'
  OBVIOUS
<1>0. TxTypeOK
  BY DEF TxInv
<1>1. CASE TransmitISR
  <2>1. CASE SendByte
    <3>1. NextSlot(TxHead) # NextSlot(TxTail)
      BY <1>0, <2>1, NextSlotOneToOne DEF TxTypeOK, SendByte
    <3> QED BY <1>1, <2>1, <3>1 DEF TransmitISR, SendByte, TxInv
  <2>2. CASE BufferEmpty
    BY <1>1, <2>2 DEF TransmitISR, BufferEmpty, TxInv, txring
  <2> QED BY <1>1, <2>1, <2>2 DEF TransmitISR
<1>2. CASE LoadShifter \/ TxBitTime
  BY <1>2 DEF LoadShifter, TxBitTime, TxInv, txring
<1>3. ASSUME NEW b \in Byte, PutcCall(b) PROVE TxInv'
  BY <1>3 DEF PutcCall, TxInv, txring
<1>4. CASE PutcWait
  BY <1>4 DEF PutcWait, TxInv, txring
<1>5. CASE PutcStore
  <2>1. NextSlot(TxHead) \in Slot /\ TxBuf \in [Slot -> Byte]
    BY <1>0, NextSlotValue DEF TxTypeOK
  <2> QED BY <1>5, <2>1 DEF PutcStore, TxInv
<1>6. CASE PutcPublish \/ PutcEnable
  BY <1>6 DEF PutcPublish, PutcEnable, TxInv, txring
<1>7. CASE FlushCall \/ FlushWait \/ FlushDelay \/ FlushReturn
  BY <1>7 DEF FlushCall, FlushWait, FlushDelay, FlushReturn, TxInv, txring
<1>8. CASE UNCHANGED txvars
  BY <1>8 DEF txvars, TxInv
<1> QED BY <1>1, <1>2, <1>3, <1>4, <1>5, <1>6, <1>7, <1>8 DEF TxNext, Program

LEMMA TxInductive == TxSpec => []TxInv
<1>1. TxInv /\ [TxNext]_txvars => TxInv'
  BY TxTypeStep, TxStep
<1> QED BY <1>1, TxInitInv, PTL DEF TxSpec

(* The indices stay in the buffer and every variable keeps its type: no    *)
(* interrupt or call writes outside UART_TxBuf.                            *)
THEOREM TxTyping == TxSpec => []TxTypeOK
<1>1. TxInv => TxTypeOK
  BY DEF TxInv
<1> QED BY <1>1, TxInductive, PTL

(* The interrupt takes the oldest byte into the data register. *)
LEMMA SendTakes ==
  ASSUME TxTypeOK, Pending, SendByte
  PROVE  TxFifo!Take
<1>1. TxHead \in Slot /\ TxTail \in Slot /\ TxBuf \in [Slot -> Byte] /\ TxHead # TxTail
  BY DEF TxTypeOK, SendByte
<1>2. /\ TxContents # << >>
      /\ Head(TxContents) = TxBuf[NextSlot(TxTail)]
      /\ Held(TxBuf, TxHead, NextSlot(TxTail)) = Tail(TxContents)
  BY <1>1, RingTake DEF TxContents
<1>3. TxContents' = Tail(TxContents)
  BY <1>2 DEF TxContents, SendByte
<1> QED BY <1>2, <1>3 DEF TxFifo!Take, SendByte, Pending

(* Writing the slot changes nothing yet, publishing the head appends. *)
LEMMA PutcStoreHides ==
  ASSUME TxInv, PutcStore
  PROVE  TxContents' = TxContents
<1>1. /\ TxHead \in Slot /\ TxTail \in Slot /\ TxBuf \in [Slot -> Byte]
      /\ NextSlot(TxHead) # TxTail
  BY DEF TxInv, TxTypeOK, PutcStore
<1>2. \A s \in Slot : s # NextSlot(TxHead) => TxBuf'[s] = TxBuf[s]
  BY <1>1 DEF PutcStore
<1>3. Held(TxBuf', TxHead, TxTail) = Held(TxBuf, TxHead, TxTail)
  BY <1>1, <1>2, RingWrite
<1> QED BY <1>3 DEF TxContents, PutcStore

LEMMA PublishPuts ==
  ASSUME TxInv, PutcPublish
  PROVE  \E b \in Byte : TxFifo!Put(b)
<1>1. /\ TxHead \in Slot /\ TxTail \in Slot /\ TxBuf \in [Slot -> Byte]
      /\ NextSlot(TxHead) # TxTail
  BY DEF TxInv, TxTypeOK, PutcPublish
<1>2. TxBuf[NextSlot(TxHead)] = txdata /\ txdata \in Byte
  BY DEF TxInv, PutcPublish
<1>3. /\ Held(TxBuf, NextSlot(TxHead), TxTail) = Append(TxContents, txdata)
      /\ Len(TxContents) < Size - 1
  BY <1>1, <1>2, RingPublish DEF TxContents
<1>4. TxContents' = Append(TxContents, txdata) /\ DataReg' = DataReg
  BY <1>3 DEF TxContents, PutcPublish
<1>5. TxFifo!Put(txdata)
  BY <1>3, <1>4 DEF TxFifo!Put
<1> QED BY <1>2, <1>5

(* The bytes given to putc reach the UART's data register in their order,  *)
(* none lost, repeated or overwritten, wherever the interrupt falls into   *)
(* putc, whatever the size of the buffer.                                  *)
THEOREM TxRingIsAFifo == TxSpec => TxFifoSpec
<1>1. TxInit => TxFifo!Init
  <2> SUFFICES ASSUME TxInit PROVE TxFifo!Init
    OBVIOUS
  <2>1. Distance(TxHead, TxTail) = 0
    BY DEF TxInit, Distance
  <2>2. TxContents = << >>
    BY <2>1 DEF TxContents, Held
  <2> QED BY <2>2 DEF TxInit, TxFifo!Init
<1>2. TxInv /\ TxInv' /\ [TxNext]_txvars => [TxFifo!Next]_TxFifo!vars
  <2> SUFFICES ASSUME TxInv, TxInv', [TxNext]_txvars PROVE [TxFifo!Next]_TxFifo!vars
    OBVIOUS
  <2>1. CASE TransmitISR
    <3>1. CASE SendByte
      BY <2>1, <3>1, SendTakes DEF TransmitISR, TxInv, TxFifo!Next
    <3>2. CASE BufferEmpty
      BY <3>2 DEF BufferEmpty, txring, TxContents, TxFifo!vars
    <3> QED BY <2>1, <3>1, <3>2 DEF TransmitISR
  <2>2. CASE LoadShifter
    <3>1. TxContents' = TxContents
      BY <2>2 DEF LoadShifter, txring, TxContents
    <3> QED BY <2>2, <3>1 DEF LoadShifter, TxFifo!Finish, TxFifo!Next
  <2>3. CASE TxBitTime
    BY <2>3 DEF TxBitTime, txring, TxContents, TxFifo!vars
  <2>4. ASSUME NEW b \in Byte, PutcCall(b) PROVE [TxFifo!Next]_TxFifo!vars
    BY <2>4 DEF PutcCall, txring, TxContents, TxFifo!vars
  <2>5. CASE PutcWait \/ PutcEnable
    BY <2>5 DEF PutcWait, PutcEnable, txring, TxContents, TxFifo!vars
  <2>6. CASE PutcStore
    BY <2>6, PutcStoreHides DEF PutcStore, TxFifo!vars
  <2>7. CASE PutcPublish
    BY <2>7, PublishPuts DEF TxFifo!Next
  <2>8. CASE FlushCall \/ FlushWait \/ FlushDelay \/ FlushReturn
    BY <2>8 DEF FlushCall, FlushWait, FlushDelay, FlushReturn, txring, TxContents, TxFifo!vars
  <2>9. CASE UNCHANGED txvars
    BY <2>9 DEF txvars, TxContents, TxFifo!vars
  <2> QED BY <2>1, <2>2, <2>3, <2>4, <2>5, <2>6, <2>7, <2>8, <2>9 DEF TxNext, Program
<1> QED BY <1>1, <1>2, TxInductive, PTL DEF TxSpec, TxFifoSpec, TxFifo!Spec

(***************************************************************************)
(* Why flush works when its delay covers a frame.  UART_NeedFlush is set   *)
(* while the data register is full, and the interrupt is disabled only     *)
(* when the ring is empty, but for putc on its way to enable it.  So when  *)
(* the flag is clear and no interrupt is pending nothing is left but the   *)
(* byte being shifted, which the delay outlasts.                           *)
(***************************************************************************)
DrainInv == /\ ~NeedFlush => DataReg = NoByte
            /\ ~UDRIE => (TxHead = TxTail \/ txpc = "enable")
            /\ txpc \in {"delay", "flushed"} =>
                  ~UDRIE /\ TxHead = TxTail /\ DataReg = NoByte /\ bitsLeft <= delay
            /\ txpc = "flushed" => delay = 0

LEMMA DrainStep ==
  ASSUME FlushBits >= FrameBits
  PROVE  TxTypeOK /\ DrainInv /\ [TxNext]_txvars => DrainInv'
<1> SUFFICES ASSUME TxTypeOK, DrainInv, [TxNext]_txvars PROVE DrainInv'
  OBVIOUS
<1>0. /\ UDRIE \in BOOLEAN /\ NeedFlush \in BOOLEAN
      /\ bitsLeft \in Nat /\ bitsLeft <= FrameBits /\ delay \in Nat
      /\ FrameBits \in Nat /\ FlushBits \in Nat
  BY BitsAssumption DEF TxTypeOK
<1>1. CASE TransmitISR
  <2>1. CASE SendByte
    BY <1>1, <2>1 DEF TransmitISR, SendByte, Pending, DrainInv
  <2>2. CASE BufferEmpty
    BY <1>1, <2>2 DEF TransmitISR, BufferEmpty, Pending, DrainInv, txring
  <2> QED BY <1>1, <2>1, <2>2 DEF TransmitISR
<1>2. CASE LoadShifter
  BY <1>2 DEF LoadShifter, DrainInv, txring
<1>3. CASE TxBitTime
  BY <1>0, <1>3 DEF TxBitTime, DrainInv, txring
<1>4. ASSUME NEW b \in Byte, PutcCall(b) PROVE DrainInv'
  BY <1>4 DEF PutcCall, DrainInv, txring
<1>5. CASE PutcWait \/ PutcStore
  BY <1>5 DEF PutcWait, PutcStore, DrainInv, txring
<1>6. CASE PutcPublish \/ PutcEnable
  BY <1>6 DEF PutcPublish, PutcEnable, DrainInv, txring
<1>7. CASE FlushCall \/ FlushReturn
  BY <1>7 DEF FlushCall, FlushReturn, DrainInv, txring
<1>8. CASE ~Pending /\ FlushWait
  <2>1. DataReg = NoByte /\ ~UDRIE /\ TxHead = TxTail
    BY <1>8 DEF FlushWait, DrainInv, Pending
  <2> QED BY <1>0, <1>8, <2>1 DEF FlushWait, DrainInv, txring
<1>9. CASE FlushDelay
  BY <1>9 DEF FlushDelay, DrainInv, txring
<1>10. CASE UNCHANGED txvars
  BY <1>10 DEF txvars, DrainInv
<1> QED BY <1>1, <1>2, <1>3, <1>4, <1>5, <1>6, <1>7, <1>8, <1>9, <1>10 DEF TxNext, Program

(* When flush returns the UART has nothing left to send, neither queued    *)
(* nor in its registers, if the delay at its end (uart.c:466) covers the   *)
(* bits of a frame: that of UART0 at 115200 baud does.                     *)
THEOREM FlushLeavesNothing ==
  ASSUME FlushBits >= FrameBits
  PROVE  TxSpec => []FlushDrains
<1>1. TxInit => DrainInv
  BY DEF TxInit, DrainInv
<1>2. DrainInv /\ TxTypeOK => FlushDrains
  BY DEF DrainInv, FlushDrains, TxTypeOK
<1> QED BY <1>1, <1>2, DrainStep, TxTyping, PTL DEF TxSpec

-----------------------------------------------------------------------------
(***************************************************************************)
(* The serial port in software.  First the arithmetic: an index that wraps *)
(* round the buffer, a position on the line as a byte and a bit of it.     *)
(***************************************************************************)
LEMMA ConstantTypes ==
  /\ Bits \in Nat /\ Bits >= 1 /\ FrameLen \in Nat /\ FrameLen = Bits + 2
  /\ BufSize \in Nat /\ BufSize >= 1 /\ Need < BufSize
  /\ MaxAsks \in Nat /\ MaxNoise \in Nat
  /\ READCMD \in Seq(SoftByte) /\ Header \in Seq(SoftByte) /\ CRC \in Seq(SoftByte)
  /\ Len(READCMD) \in Nat /\ Len(READCMD) >= 1 /\ Len(READCMD) <= BufSize
  /\ Len(Header) \in Nat /\ Len(CRC) \in Nat /\ Need = Len(Header) + 2 + Len(CRC)
  BY SoftSerialAssumption DEF FrameLen, Need

LEMMA Quotient ==
  ASSUME NEW m \in Nat, m >= 1, NEW q \in Int, NEW r \in 0 .. m - 1
  PROVE  (q * m + r) \div m = q /\ (q * m + r) % m = r
<1> DEFINE x == q * m + r
           d == x \div m
           e == x % m
<1>1. x \in Int
  OBVIOUS
<1>2. d \in Int /\ e \in 0 .. m - 1 /\ x = m * d + e
  BY <1>1
<1>3. (q - d) * m = e - r
  BY <1>2
<1> HIDE DEF x, d, e
<1>4. q - d \in Int /\ e - r < m /\ e - r > -m
  BY <1>2
<1>5. ASSUME q - d >= 1 PROVE FALSE
  <2>1. (q - d) * m >= m
    BY <1>4, <1>5
  <2> QED BY <1>3, <1>4, <2>1
<1>6. ASSUME q - d <= -1 PROVE FALSE
  <2>1. (q - d) * m <= -m
    BY <1>4, <1>6
  <2> QED BY <1>3, <1>4, <2>1
<1>7. q - d = 0
  BY <1>4, <1>5, <1>6
<1>8. d = q
  BY <1>2, <1>7
<1>9. e = r
  BY <1>2, <1>3, <1>7
<1> QED BY <1>8, <1>9 DEF x, d, e

LEMMA Wrap ==
  ASSUME NEW i \in 0 .. BufSize - 1
  PROVE  /\ (i + 1) % BufSize = (IF i = BufSize - 1 THEN 0 ELSE i + 1)
         /\ (i + 1) % BufSize \in 0 .. BufSize - 1
<1>1. BufSize \in Nat /\ BufSize >= 1
  BY ConstantTypes
<1> QED BY <1>1

LEMMA ByteAndBit ==
  ASSUME NEW q \in Nat, NEW r \in 0 .. FrameLen - 1
  PROVE  (q * FrameLen + r) \div FrameLen = q /\ (q * FrameLen + r) % FrameLen = r
<1>1. FrameLen \in Nat /\ FrameLen >= 1
  BY ConstantTypes
<1> QED BY <1>1, Quotient

LEMMA Multiples ==
  ASSUME NEW a \in Int, a % BufSize = 0, NEW b \in {a, a + BufSize, a - BufSize}
  PROVE  b % BufSize = 0
<1>1. BufSize \in Nat /\ BufSize >= 1
  BY ConstantTypes
<1> DEFINE q == a \div BufSize
<1>2. q \in Int /\ a = q * BufSize
  BY <1>1
<1> HIDE DEF q
<1>3. PICK p \in Int : b = p * BufSize + 0
  <2>1. a + BufSize = (q + 1) * BufSize + 0 /\ a - BufSize = (q - 1) * BufSize + 0
    BY <1>1, <1>2
  <2>2. q + 1 \in Int /\ q - 1 \in Int /\ a = q * BufSize + 0
    BY <1>1, <1>2
  <2> QED BY <1>2, <2>1, <2>2
<1>4. 0 \in 0 .. BufSize - 1
  BY <1>1
<1> QED BY <1>1, <1>3, <1>4, Quotient

(* The bits of bytes on the line. *)
LEMMA FrameType ==
  ASSUME NEW b \in SoftByte
  PROVE  Frame(b) \in [1 .. FrameLen -> {0, 1}] /\ Frame(b) \in Seq({0, 1})
<1>1. FrameLen \in Nat /\ FrameLen = Bits + 2 /\ Bits \in Nat
  BY ConstantTypes
<1>2. ASSUME NEW i \in 1 .. FrameLen
      PROVE  (IF i = 1 THEN 0 ELSE IF i = FrameLen THEN 1 ELSE b[i - 2]) \in {0, 1}
  <2>1. CASE i # 1 /\ i # FrameLen
    <3>1. i - 2 \in 0 .. Bits - 1
      BY <1>1, <2>1
    <3>2. b[i - 2] \in {0, 1}
      BY <3>1 DEF SoftByte
    <3> QED BY <2>1, <3>2
  <2> QED BY <2>1
<1> HIDE DEF FrameLen
<1>3. Frame(b) \in [1 .. FrameLen -> {0, 1}]
  BY <1>2 DEF Frame
<1> QED BY <1>1, <1>3

LEMMA FramesAt ==
  ASSUME NEW s \in Seq(SoftByte), NEW q \in 0 .. Len(s) - 1, NEW r \in 0 .. FrameLen - 1
  PROVE  /\ q * FrameLen + r + 1 \in 1 .. Len(s) * FrameLen
         /\ Frames(s)[q * FrameLen + r + 1] = Frame(s[q + 1])[r + 1]
<1>1. FrameLen \in Nat /\ FrameLen >= 1 /\ Len(s) \in Nat /\ q \in Nat /\ r \in Nat /\ r < FrameLen
  BY ConstantTypes
<1>2. (q + 1) * FrameLen <= Len(s) * FrameLen
  BY <1>1
<1>3. q * FrameLen \in Nat /\ (q + 1) * FrameLen = q * FrameLen + FrameLen
  BY <1>1
<1>4. Len(s) * FrameLen \in Nat
  BY <1>1
<1>5. q * FrameLen + r + 1 \in 1 .. Len(s) * FrameLen
  BY <1>1, <1>2, <1>3, <1>4
<1>6. (q * FrameLen + r + 1) - 1 = q * FrameLen + r
  BY <1>1, <1>3
<1>7. (q * FrameLen + r) \div FrameLen = q /\ (q * FrameLen + r) % FrameLen = r
  BY <1>1, ByteAndBit
<1> DEFINE i == q * FrameLen + r + 1
<1>8. Frames(s)[i] = Frame(s[((i - 1) \div FrameLen) + 1])[((i - 1) % FrameLen) + 1]
  BY <1>5, Zenon DEF Frames
<1> QED BY <1>5, <1>6, <1>7, <1>8

LEMMA FramesType ==
  ASSUME NEW s \in Seq(SoftByte)
  PROVE  Frames(s) \in Seq({0, 1}) /\ Len(Frames(s)) = Len(s) * FrameLen
<1>1. FrameLen \in Nat /\ FrameLen >= 1 /\ Len(s) \in Nat
  BY ConstantTypes
<1>2. ASSUME NEW i \in 1 .. Len(s) * FrameLen
      PROVE  Frame(s[((i - 1) \div FrameLen) + 1])[((i - 1) % FrameLen) + 1] \in {0, 1}
  <2> DEFINE d == (i - 1) \div FrameLen
             e == (i - 1) % FrameLen
  <2>1. Len(s) * FrameLen \in Nat
    BY <1>1
  <2>2. i - 1 \in Nat /\ i - 1 < Len(s) * FrameLen
    BY <2>1
  <2>3. d \in Nat /\ e \in 0 .. FrameLen - 1 /\ i - 1 = FrameLen * d + e
    BY <1>1, <2>2
  <2> HIDE DEF d, e
  <2>4. FrameLen * d \in Nat /\ FrameLen * d < Len(s) * FrameLen
    BY <1>1, <2>1, <2>2, <2>3
  <2>5. d < Len(s)
    <3>1. ASSUME d >= Len(s) PROVE FrameLen * d >= Len(s) * FrameLen
      BY <1>1, <2>3, <3>1
    <3> QED BY <1>1, <2>1, <2>3, <2>4, <3>1
  <2>6. s[d + 1] \in SoftByte
    BY <1>1, <2>3, <2>5
  <2>7. Frame(s[d + 1]) \in [1 .. FrameLen -> {0, 1}] /\ e + 1 \in 1 .. FrameLen
    BY <1>1, <2>3, <2>6, FrameType
  <2>8. Frame(s[d + 1])[e + 1] \in {0, 1}
    BY <2>7
  <2> QED BY <2>8 DEF d, e
<1>3. Len(s) * FrameLen \in Nat
  BY <1>1
<1> DEFINE n == Len(s) * FrameLen
           f(i) == Frame(s[((i - 1) \div FrameLen) + 1])[((i - 1) % FrameLen) + 1]
<1>4. Frames(s) = [i \in 1 .. n |-> f(i)]
  BY DEF Frames
<1>5. \A i \in 1 .. n : f(i) \in {0, 1}
  BY <1>2
<1> HIDE DEF n, f
<1>6. n \in Nat
  BY <1>3 DEF n
<1>7. Frames(s) \in Seq({0, 1}) /\ Len(Frames(s)) = n
  BY <1>4, <1>5, <1>6
<1> QED BY <1>7 DEF n

-----------------------------------------------------------------------------
(***************************************************************************)
(* The invariant of the serial port, in three parts: the registers of the  *)
(* driver, the program that reads an answer, and the line.  bufend leaves  *)
(* the buffer only while a command that fills it goes out.  The program    *)
(* reads only while no command goes out, and when it does there are, of    *)
(* the bytes it wants, as many left as the count says: the count does not  *)
(* fall below zero.                                                        *)
(***************************************************************************)
PortInv ==
  /\ buffer \in [0 .. BufSize - 1 -> SoftByte]
  /\ bufstart \in 0 .. BufSize - 1 /\ bufend \in 0 .. BufSize
  /\ transmitting \in BOOLEAN /\ receiving \in BOOLEAN /\ timer \in BOOLEAN
  /\ ~(transmitting /\ receiving) /\ timer = (transmitting \/ receiving)
  /\ bit_no \in 0 .. Bits + 1 /\ available \in Nat
  /\ out \in Seq({0, 1})
  /\ ~transmitting => bufend < BufSize
  /\ transmitting => bufstart < bufend /\ bufend = Len(READCMD)

ReaderInv ==
  /\ at \in {"idle", "idle clear", "wait", "poll", "clear", "read", "store"}
  /\ loaded \in Nat
  /\ got \in Seq(SoftByte) /\ Len(got) <= Len(Header) + 2
  /\ at \in {"read", "store"} => ~transmitting /\ Len(got) <= Len(Header) + 1
  /\ at \in {"wait", "poll", "clear"} => got = << >>
  /\ at = "read" => available >= Need - Len(got)
  /\ at = "store" => loaded >= Need - Len(got)

LineInv ==
  /\ line \in Seq({0, 1}) /\ edge \in BOOLEAN
  /\ commands \in Nat /\ asks \in 0 .. MaxAsks
  /\ commands + (IF transmitting THEN 1 ELSE 0) <= asks
  /\ answered \subseteq Values /\ noises \in 0 .. MaxNoise
  /\ clean \in BOOLEAN /\ raced \in BOOLEAN

SoftInv == PortInv /\ ReaderInv /\ LineInv

LEMMA SoftInvTypes == SoftInv => SoftTypeOK
<1> SUFFICES ASSUME SoftInv PROVE SoftTypeOK
  OBVIOUS
<1>1. commands \in 0 .. MaxAsks
  BY ConstantTypes DEF SoftInv, LineInv, PortInv
<1> QED BY <1>1 DEF SoftInv, PortInv, ReaderInv, LineInv, SoftTypeOK

LEMMA ByteTypes == Zeros \in SoftByte /\ Ones \in SoftByte
  BY DEF Zeros, Ones, SoftByte

LEMMA SoftInitInv == SoftInit => SoftInv
<1> SUFFICES ASSUME SoftInit PROVE SoftInv
  OBVIOUS
<1>0. /\ BufSize \in Nat /\ BufSize >= 1 /\ Bits \in Nat /\ MaxAsks \in Nat /\ MaxNoise \in Nat
      /\ Len(Header) \in Nat
  BY ConstantTypes
<1>1. PortInv
  <2>1. buffer \in [0 .. BufSize - 1 -> SoftByte]
    BY ByteTypes DEF SoftInit
  <2>2. timer = (transmitting \/ receiving)
    BY Zenon DEF SoftInit
  <2> QED BY <1>0, <2>1, <2>2 DEF SoftInit, PortInv
<1>2. ReaderInv
  BY <1>0 DEF SoftInit, ReaderInv
<1>3. LineInv
  <2>1. transmitting = FALSE /\ commands = 0 /\ asks = 0 /\ noises = 0 /\ line = << >>
        /\ edge = FALSE /\ clean = FALSE /\ raced = FALSE /\ answered = {}
    BY DEF SoftInit
  <2>2. commands + (IF transmitting THEN 1 ELSE 0) <= asks
    BY <2>1
  <2>3. line \in Seq({0, 1}) /\ commands \in Nat /\ asks \in 0 .. MaxAsks /\ noises \in 0 .. MaxNoise
    BY <1>0, <2>1
  <2>4. /\ edge \in BOOLEAN /\ clean \in BOOLEAN /\ raced \in BOOLEAN /\ answered \subseteq Values
    BY <2>1
  <2> QED BY <2>2, <2>3, <2>4, Zenon DEF LineInv
<1> QED BY <1>1, <1>2, <1>3 DEF SoftInv

(* What the timer's interrupt does to the driver's registers. *)
LEMMA SendBitPort ==
  ASSUME SoftInv, transmitting, SendBit, UNCHANGED <<buffer, receiving>>
  PROVE  PortInv'
<1>1. PortInv /\ timer /\ ~receiving
  BY DEF SoftInv, PortInv
<1>2. Bits \in Nat /\ BufSize \in Nat /\ BufSize >= 1
  BY ConstantTypes
<1>3. bufstart \in Nat /\ bufend \in Nat /\ bit_no \in Nat /\ bufend <= BufSize
  BY <1>1, <1>2 DEF PortInv
<1>4. CASE bit_no = Bits /\ out' = Append(out, 1) /\ bit_no' = bit_no + 1
              /\ UNCHANGED <<bufstart, bufend, transmitting, available, timer>>
  <2>1. out' \in Seq({0, 1})
    BY <1>1, <1>4 DEF PortInv
  <2>2. bit_no' \in 0 .. Bits + 1
    BY <1>2, <1>4
  <2> QED BY <1>1, <1>4, <2>1, <2>2 DEF PortInv
<1>5. CASE bit_no = Bits + 1 /\ LastByte /\ bit_no' = 0 /\ transmitting' = FALSE
              /\ bufstart' = 0 /\ bufend' = 0 /\ available' = 0 /\ timer' = FALSE
              /\ UNCHANGED out
  <2>1. timer' = (transmitting \/ receiving)'
    BY <1>1, <1>5, Zenon
  <2>2. receiving' = receiving /\ buffer' = buffer
    OBVIOUS
  <2>3. 0 \in 0 .. BufSize - 1 /\ 0 \in 0 .. BufSize /\ 0 \in 0 .. Bits + 1 /\ 0 < BufSize
    BY <1>2
  <2> QED BY <1>1, <1>5, <2>1, <2>2, <2>3 DEF PortInv
<1>6. CASE bit_no = Bits + 1 /\ ~LastByte /\ bit_no' = 0
              /\ out' = Append(out, 0) /\ bufstart' = bufstart + 1
              /\ UNCHANGED <<bufend, transmitting, available, timer>>
  <2>1. out' \in Seq({0, 1})
    BY <1>1, <1>6 DEF PortInv
  <2>2. bufstart < bufend
    BY <1>1 DEF PortInv
  <2>3. bufstart' < bufend /\ bufstart' \in 0 .. BufSize - 1
    BY <1>2, <1>3, <1>6, <2>2 DEF LastByte
  <2> QED BY <1>1, <1>2, <1>6, <2>1, <2>3 DEF PortInv
<1>7. CASE bit_no < Bits /\ out' = Append(out, buffer[bufstart][bit_no]) /\ bit_no' = bit_no + 1
              /\ UNCHANGED <<bufstart, bufend, transmitting, available, timer>>
  <2>1. buffer[bufstart] \in SoftByte /\ bit_no \in 0 .. Bits - 1
    BY <1>1, <1>2, <1>3, <1>7 DEF PortInv
  <2>2. buffer[bufstart][bit_no] \in {0, 1}
    BY <2>1 DEF SoftByte
  <2>3. out' \in Seq({0, 1})
    BY <1>1, <1>7, <2>2 DEF PortInv
  <2>4. bit_no' \in 0 .. Bits + 1
    BY <1>2, <1>3, <1>7
  <2> QED BY <1>1, <1>7, <2>3, <2>4 DEF PortInv
<1> QED BY <1>4, <1>5, <1>6, <1>7 DEF SendBit

LEMMA SampleBitPort ==
  ASSUME SoftInv, ~transmitting, NEW pin, SampleBit(pin), UNCHANGED <<bufstart, transmitting, out>>
  PROVE  /\ PortInv'
         /\ \/ available' = available /\ bufend' = bufend
            \/ available' = available + 1 /\ bufend' = (bufend + 1) % BufSize
<1>1. PortInv
  BY DEF SoftInv
<1>2. Bits \in Nat /\ BufSize \in Nat /\ BufSize >= 1
  BY ConstantTypes
<1>3. bufend \in 0 .. BufSize - 1 /\ bit_no \in Nat /\ available \in Nat
  BY <1>1, <1>2 DEF PortInv
<1>4. CASE bit_no = Bits /\ timer' = FALSE /\ receiving' = FALSE
           /\ UNCHANGED <<buffer, bufend, bit_no, available>>
  BY <1>1, <1>4 DEF PortInv
<1>5. CASE /\ bit_no < Bits
           /\ buffer' = [buffer EXCEPT ![bufend][bit_no] = IF pin = 1 THEN 1 ELSE @]
           /\ bit_no' = bit_no + 1
           /\ \/ bit_no' = Bits /\ ByteDone
              \/ bit_no' < Bits /\ UNCHANGED <<bufend, available>>
           /\ UNCHANGED <<timer, receiving>>
  <2>1. buffer' \in [0 .. BufSize - 1 -> SoftByte]
    <3>1. buffer \in [0 .. BufSize - 1 -> [0 .. Bits - 1 -> {0, 1}]]
      BY <1>1 DEF PortInv, SoftByte
    <3>2. buffer' \in [0 .. BufSize - 1 -> [0 .. Bits - 1 -> {0, 1}]]
      BY <1>5, <3>1
    <3> QED BY <3>2 DEF SoftByte
  <2>2. bit_no' \in 0 .. Bits + 1
    BY <1>2, <1>3, <1>5
  <2>3. (bufend + 1) % BufSize \in 0 .. BufSize - 1
    BY <1>3, Wrap
  <2>4. CASE ByteDone
    <3>1. bufend' = (bufend + 1) % BufSize /\ available' = available + 1
      BY <2>4 DEF ByteDone
    <3>2. bufend' \in 0 .. BufSize /\ bufend' < BufSize /\ available' \in Nat
      BY <1>2, <1>3, <2>3, <3>1
    <3> QED BY <1>1, <1>5, <2>1, <2>2, <3>1, <3>2 DEF PortInv
  <2>5. CASE UNCHANGED <<bufend, available>>
    BY <1>1, <1>5, <2>1, <2>2, <2>5 DEF PortInv
  <2> QED BY <1>5, <2>4, <2>5
<1> QED BY <1>4, <1>5 DEF SampleBit

(* The timer's interrupt as a whole: a command is counted as it ends, and  *)
(* while none goes out bytes are only added.                               *)
LEMMA TimerPort ==
  ASSUME SoftInv, NEW pin, Timer(pin)
  PROVE  /\ PortInv'
         /\ transmitting' => transmitting
         /\ ~transmitting => available' >= available
         /\ commands' \in Nat
         /\ commands' + (IF transmitting' THEN 1 ELSE 0) = commands + (IF transmitting THEN 1 ELSE 0)
<1>1. PortInv /\ commands \in Nat /\ available \in Nat /\ transmitting \in BOOLEAN
  BY DEF SoftInv, PortInv, LineInv
<1>2. CASE /\ timer /\ transmitting /\ SendBit
           /\ commands' = IF transmitting' THEN commands ELSE commands + 1
           /\ UNCHANGED <<buffer, receiving>>
  <2>1. PortInv'
    BY <1>2, SendBitPort
  <2> QED BY <1>1, <1>2, <2>1
<1>3. CASE /\ timer /\ ~transmitting /\ receiving /\ SampleBit(pin)
           /\ UNCHANGED <<bufstart, transmitting, out, commands>>
  <2>1. /\ PortInv'
        /\ \/ available' = available /\ bufend' = bufend
           \/ available' = available + 1 /\ bufend' = (bufend + 1) % BufSize
    BY <1>3, SampleBitPort
  <2> QED BY <1>1, <1>3, <2>1
<1>4. CASE ~timer /\ UNCHANGED <<port, commands>>
  BY <1>1, <1>4 DEF PortInv, port
<1> QED BY <1>2, <1>3, <1>4 DEF Timer

LEMMA AdvanceLine ==
  ASSUME LineInv, Advance
  PROVE  line' \in Seq({0, 1}) /\ edge' \in BOOLEAN
<1>1. line \in Seq({0, 1}) /\ edge \in BOOLEAN
  BY DEF LineInv
<1>2. line' \in Seq({0, 1})
  <2>1. CASE line = << >>
    BY <1>1, <2>1 DEF Advance
  <2>2. CASE line # << >>
    <3>1. Tail(line) \in Seq({0, 1})
      BY <1>1, <2>2, HeadTailProperties
    <3> QED BY <2>2, <3>1 DEF Advance
  <2> QED BY <2>1, <2>2
<1>3. edge' \in BOOLEAN
  BY Zenon DEF Advance
<1> QED BY <1>2, <1>3

LEMMA BitTimeStep ==
  ASSUME SoftInv, BitTime
  PROVE  SoftInv'
<1>1. PortInv /\ ReaderInv /\ LineInv /\ Advance /\ Timer(Pin(line'))
  BY DEF SoftInv, BitTime
<1>2. /\ PortInv'
      /\ transmitting' => transmitting
      /\ ~transmitting => available' >= available
      /\ commands' \in Nat
      /\ commands' + (IF transmitting' THEN 1 ELSE 0) = commands + (IF transmitting THEN 1 ELSE 0)
  BY <1>1, TimerPort
<1>3. at' = at /\ loaded' = loaded /\ got' = got
  BY <1>1 DEF Advance, reader
<1>4. available \in Nat /\ available' \in Nat /\ Len(got) \in Nat /\ Need \in Nat
  <2>1. available \in Nat /\ available' \in Nat
    BY <1>1, <1>2 DEF PortInv
  <2>2. Len(got) \in Nat
    BY <1>1, LenProperties DEF ReaderInv
  <2>3. Need \in Nat
    <3>1. Len(Header) \in Nat /\ Len(CRC) \in Nat /\ Need = Len(Header) + 2 + Len(CRC)
      BY ConstantTypes
    <3> QED BY <3>1
  <2> QED BY <2>1, <2>2, <2>3
<1>5. ReaderInv'
  <2>1. ASSUME at = "read" PROVE available' >= Need - Len(got)
    <3>1. available >= Need - Len(got) /\ available' >= available
      BY <1>1, <1>2, <2>1 DEF ReaderInv
    <3> QED BY <1>4, <3>1
  <2>2. at \in {"read", "store"} => ~transmitting'
    BY <1>1, <1>2 DEF ReaderInv
  <2> QED BY <1>1, <1>3, <2>1, <2>2 DEF ReaderInv
<1>6. LineInv'
  <2>1. clean' \in BOOLEAN /\ raced' \in BOOLEAN
    BY Zenon DEF BitTime
  <2>2. UNCHANGED <<answered, noises, asks>>
    BY <1>1 DEF Advance
  <2>3. line' \in Seq({0, 1}) /\ edge' \in BOOLEAN
    BY <1>1, AdvanceLine
  <2>4. commands' + (IF transmitting' THEN 1 ELSE 0) <= asks'
    <3>1. commands + (IF transmitting THEN 1 ELSE 0) <= asks
      BY <1>1 DEF LineInv
    <3>2. asks' = asks
      BY <2>2
    <3> QED BY <1>2, <3>1, <3>2
  <2> QED BY <1>1, <1>2, <2>1, <2>2, <2>3, <2>4 DEF LineInv
<1> QED BY <1>2, <1>5, <1>6 DEF SoftInv

LEMMA AsleepStep ==
  ASSUME SoftInv, BitTimeAsleep
  PROVE  SoftInv'
<1>1. PortInv /\ ReaderInv /\ LineInv /\ Advance
  BY DEF SoftInv, BitTimeAsleep
<1>2. PortInv'
  BY <1>1 DEF BitTimeAsleep, PortInv, port
<1>3. ReaderInv'
  BY <1>1 DEF BitTimeAsleep, Advance, ReaderInv, reader, port
<1>4. LineInv'
  <2>1. clean' \in BOOLEAN
    BY Zenon DEF BitTimeAsleep
  <2>2. line' \in Seq({0, 1}) /\ edge' \in BOOLEAN
    BY <1>1, AdvanceLine
  <2>3. UNCHANGED <<answered, noises, asks, commands, raced, transmitting>>
    BY <1>1 DEF Advance, BitTimeAsleep, port
  <2> QED BY <1>1, <2>1, <2>2, <2>3 DEF LineInv
<1> QED BY <1>2, <1>3, <1>4 DEF SoftInv

(* The program's calls. *)
LEMMA ConfigureStep ==
  ASSUME SoftInv, Configure
  PROVE  SoftInv'
<1>1. PortInv /\ ReaderInv /\ LineInv /\ Reset
  BY DEF SoftInv, Configure
<1>2. PortInv'
  <2>0. BufSize \in Nat /\ BufSize >= 1
    BY ConstantTypes
  <2>1. timer' = (transmitting \/ receiving)'
    BY <1>1, Zenon DEF Reset
  <2>2. 0 \in 0 .. BufSize - 1 /\ 0 \in 0 .. BufSize /\ 0 < BufSize /\ << >> \in Seq({0, 1})
    BY <2>0
  <2> QED BY <1>1, <2>1, <2>2 DEF Reset, PortInv
<1>3. ReaderInv'
  BY <1>1 DEF Configure, ReaderInv, reader
<1>4. LineInv'
  <2>1. UNCHANGED <<line, edge, answered, noises, asks, commands, raced>> /\ clean' = FALSE
    BY DEF Configure, sensor
  <2>2. commands' + (IF transmitting' THEN 1 ELSE 0) <= asks'
    <3>1. transmitting' = FALSE
      BY <1>1 DEF Reset
    <3>2. commands <= asks
      BY <1>1, ConstantTypes DEF LineInv, PortInv
    <3>3. commands \in Nat
      BY <1>1 DEF LineInv
    <3> QED BY <2>1, <3>1, <3>2, <3>3
  <2> QED BY <1>1, <2>1, <2>2 DEF LineInv
<1> QED BY <1>2, <1>3, <1>4 DEF SoftInv

LEMMA WriteStep ==
  ASSUME SoftInv, Write
  PROVE  SoftInv'
<1>1. PortInv /\ ReaderInv /\ LineInv /\ asks' = asks + 1 /\ asks < MaxAsks
  BY DEF SoftInv, Write
<1>2. UNCHANGED <<edge, line, commands, noises, loaded>> /\ at' = "wait" /\ got' = << >>
  BY DEF Write
<1>3. commands \in Nat /\ asks \in Nat /\ asks' \in 0 .. MaxAsks /\ commands <= asks
  <2>1. commands \in Nat /\ asks \in 0 .. MaxAsks /\ commands + (IF transmitting THEN 1 ELSE 0) <= asks
    BY <1>1 DEF LineInv
  <2> QED BY <1>1, <2>1, ConstantTypes
<1>4. ReaderInv'
  <2>1. Len(Header) \in Nat /\ << >> \in Seq(SoftByte) /\ Len(<< >>) = 0
    BY ConstantTypes
  <2>2. loaded' \in Nat
    BY <1>1, <1>2 DEF ReaderInv
  <2>3. Len(got') <= Len(Header) + 2 /\ got' \in Seq(SoftByte)
    BY <1>2, <2>1
  <2> QED BY <1>2, <2>2, <2>3 DEF ReaderInv
<1>5. CASE Refuses /\ UNCHANGED <<port, answered, clean, raced>>
  <2>1. PortInv'
    BY <1>1, <1>5 DEF PortInv, port
  <2>2. commands' + (IF transmitting' THEN 1 ELSE 0) <= asks'
    BY <1>1, <1>2, <1>3, <1>5 DEF port
  <2>3. LineInv'
    BY <1>1, <1>2, <1>3, <1>5, <2>2 DEF LineInv
  <2> QED BY <1>4, <2>1, <2>3 DEF SoftInv
<1>6. CASE /\ ~Refuses
           /\ transmitting' = TRUE
           /\ buffer' = [i \in 0 .. BufSize - 1 |->
                           IF i < Len(READCMD) THEN READCMD[i + 1] ELSE buffer[i]]
           /\ bufstart' = 0 /\ available' = 0 /\ bufend' = Len(READCMD)
           /\ bit_no' = 0 /\ timer' = TRUE /\ out' = <<0>>
           /\ answered' = {} /\ clean' = TRUE /\ raced' = FALSE
           /\ UNCHANGED receiving
  <2>1. PortInv'
    <3>0. /\ BufSize \in Nat /\ BufSize >= 1 /\ READCMD \in Seq(SoftByte) /\ Bits \in Nat
          /\ Len(READCMD) \in Nat /\ Len(READCMD) >= 1 /\ Len(READCMD) <= BufSize
      BY ConstantTypes
    <3>1. ASSUME NEW i \in 0 .. BufSize - 1
          PROVE  (IF i < Len(READCMD) THEN READCMD[i + 1] ELSE buffer[i]) \in SoftByte
      <4>1. buffer[i] \in SoftByte
        BY <1>1 DEF PortInv
      <4>2. ASSUME i < Len(READCMD) PROVE READCMD[i + 1] \in SoftByte
        BY <3>0, <4>2
      <4> QED BY <4>1, <4>2
    <3>2. buffer' \in [0 .. BufSize - 1 -> SoftByte]
      BY <1>6, <3>1
    <3>3. ~receiving'
      BY <1>1, <1>6 DEF PortInv, Refuses
    <3>4. receiving' \in BOOLEAN /\ timer' = (transmitting \/ receiving)'
      BY <1>1, <1>6, Zenon DEF PortInv
    <3>5. out' \in Seq({0, 1})
      BY <1>6
    <3> QED BY <1>6, <3>0, <3>2, <3>3, <3>4, <3>5 DEF PortInv
  <2>2. commands' + (IF transmitting' THEN 1 ELSE 0) <= asks'
    BY <1>1, <1>2, <1>3, <1>6
  <2>3. LineInv'
    BY <1>1, <1>2, <1>3, <1>6, <2>2 DEF LineInv
  <2> QED BY <1>4, <2>1, <2>3 DEF SoftInv
<1> QED BY <1>5, <1>6 DEF Write

(* A byte that is taken is one more of the answer, or ends the attempt. *)
LEMMA TakeByte ==
  ASSUME ReaderInv, at \in {"read", "store"}, NEW b \in SoftByte, Take(b)
  PROVE  /\ got' \in Seq(SoftByte) /\ Len(got') <= Len(Header) + 2
         /\ \/ at' = "idle"
            \/ at' = "poll" /\ got' = << >>
            \/ at' = "read" /\ Len(got') = Len(got) + 1 /\ Len(got') <= Len(Header) + 1
<1>1. got \in Seq(SoftByte) /\ Len(got) <= Len(Header) + 1
  BY DEF ReaderInv
<1>2. Len(Header) \in Nat /\ Len(got) \in Nat
  BY <1>1, ConstantTypes, LenProperties
<1>3. CASE at' = "poll" /\ got' = << >>
  <2>1. got' \in Seq(SoftByte) /\ Len(got') = 0
    BY <1>3
  <2> QED BY <1>2, <1>3, <2>1
<1>4. CASE /\ at' = IF Len(got) + 1 = Len(Header) + 2 THEN "idle" ELSE "read"
           /\ got' = Append(got, b)
  <2>1. got' \in Seq(SoftByte) /\ Len(got') = Len(got) + 1
    BY <1>1, <1>4, AppendProperties
  <2> QED BY <1>1, <1>2, <1>4, <2>1
<1> QED BY <1>3, <1>4 DEF Take

LEMMA LoadStep ==
  ASSUME SoftInv, Load
  PROVE  SoftInv'
<1>1. PortInv /\ ReaderInv /\ LineInv /\ at = "read"
  BY DEF SoftInv, Load
<1>2. UNCHANGED <<port, edge, sensor, clean, raced, asks>>
  BY DEF Load
<1>3. PortInv' /\ LineInv'
  BY <1>1, <1>2 DEF PortInv, LineInv, port, sensor
<1>4. /\ ~transmitting /\ Len(got) <= Len(Header) + 1 /\ available >= Need - Len(got)
      /\ available \in Nat /\ available' = available /\ transmitting' = transmitting
  BY <1>1, <1>2 DEF ReaderInv, PortInv, port
<1>5. Len(got) \in Nat /\ Need \in Nat
  <2>1. Len(got) \in Nat
    BY <1>1, LenProperties DEF ReaderInv
  <2>2. Len(Header) \in Nat /\ Len(CRC) \in Nat /\ Need = Len(Header) + 2 + Len(CRC)
    BY ConstantTypes
  <2> QED BY <2>1, <2>2
<1>6. CASE bufstart = bufend /\ Take(Ones) /\ UNCHANGED loaded
  <2>1. /\ got' \in Seq(SoftByte) /\ Len(got') <= Len(Header) + 2
        /\ \/ at' = "idle"
           \/ at' = "poll" /\ got' = << >>
           \/ at' = "read" /\ Len(got') = Len(got) + 1 /\ Len(got') <= Len(Header) + 1
    BY <1>1, <1>6, ByteTypes, TakeByte
  <2>2. loaded' \in Nat
    BY <1>1, <1>6 DEF ReaderInv
  <2>3. at' = "read" => available' >= Need - Len(got')
    BY <1>4, <1>5, <2>1
  <2>4. ReaderInv'
    BY <1>4, <2>1, <2>2, <2>3 DEF ReaderInv
  <2> QED BY <1>3, <2>4 DEF SoftInv
<1>7. CASE bufstart # bufend /\ at' = "store" /\ loaded' = available /\ UNCHANGED got
  <2>1. ReaderInv'
    BY <1>1, <1>4, <1>7 DEF ReaderInv
  <2> QED BY <1>3, <2>1 DEF SoftInv
<1> QED BY <1>6, <1>7 DEF Load

LEMMA StoreStep ==
  ASSUME SoftInv, Store
  PROVE  SoftInv'
<1>1. PortInv /\ ReaderInv /\ LineInv /\ at = "store"
  BY DEF SoftInv, Store
<1>2. /\ available' = loaded - 1 /\ bufstart' = (bufstart + 1) % BufSize
      /\ Take(buffer[bufstart]) /\ loaded' = 0
      /\ UNCHANGED <<buffer, bufend, transmitting, receiving, bit_no, timer, out,
                     edge, sensor, clean, raced, asks>>
  BY DEF Store
<1>3. /\ ~transmitting /\ Len(got) <= Len(Header) + 1 /\ loaded >= Need - Len(got)
      /\ loaded \in Nat /\ bufstart \in 0 .. BufSize - 1 /\ buffer[bufstart] \in SoftByte
  BY <1>1 DEF ReaderInv, PortInv
<1>4. Len(got) \in Nat /\ Len(Header) \in Nat /\ Need \in Nat /\ Need >= Len(Header) + 2
  <2>1. Len(got) \in Nat
    BY <1>1, LenProperties DEF ReaderInv
  <2>2. Len(Header) \in Nat /\ Len(CRC) \in Nat /\ Need = Len(Header) + 2 + Len(CRC)
    BY ConstantTypes
  <2> QED BY <2>1, <2>2
<1>5. available' \in Nat
  BY <1>2, <1>3, <1>4
<1>6. bufstart' \in 0 .. BufSize - 1
  BY <1>2, <1>3, Wrap
<1>7. PortInv'
  BY <1>1, <1>2, <1>3, <1>5, <1>6 DEF PortInv
<1>8. LineInv'
  BY <1>1, <1>2 DEF LineInv, sensor
<1>9. /\ got' \in Seq(SoftByte) /\ Len(got') <= Len(Header) + 2
      /\ \/ at' = "idle"
         \/ at' = "poll" /\ got' = << >>
         \/ at' = "read" /\ Len(got') = Len(got) + 1 /\ Len(got') <= Len(Header) + 1
  BY <1>1, <1>2, <1>3, TakeByte
<1>10. at' = "read" => available' >= Need - Len(got')
  BY <1>2, <1>3, <1>4, <1>9
<1>11. ReaderInv'
  BY <1>2, <1>3, <1>9, <1>10 DEF ReaderInv
<1> QED BY <1>7, <1>8, <1>11 DEF SoftInv

LEMMA PollStep ==
  ASSUME SoftInv, Poll
  PROVE  SoftInv'
<1>1. PortInv /\ ReaderInv /\ LineInv
  BY DEF SoftInv
<1>2. /\ UNCHANGED <<bufstart, bufend, transmitting, available, out,
                     edge, sensor, loaded, got, clean, raced, asks>>
      /\ \/ at = "idle" /\ at' = "idle clear"
         \/ at = "poll" /\ at' = "clear"
  BY DEF Poll
<1>3. ReaderInv' /\ LineInv'
  BY <1>1, <1>2 DEF ReaderInv, LineInv, sensor
<1>4. CASE /\ ~transmitting /\ ~receiving /\ Pin(line) = 0
           /\ receiving' = TRUE /\ timer' = TRUE /\ bit_no' = 0
           /\ buffer' = [buffer EXCEPT ![bufend] = Zeros]
  <2>1. Bits \in Nat /\ BufSize \in Nat /\ bufend < BufSize
    BY <1>1, <1>4, ConstantTypes DEF PortInv
  <2>2. buffer' \in [0 .. BufSize - 1 -> SoftByte]
    BY <1>1, <1>4, <2>1, ByteTypes DEF PortInv
  <2>3. timer' = (transmitting \/ receiving)'
    BY <1>4, Zenon
  <2>4. /\ 0 \in 0 .. Bits + 1
        /\ UNCHANGED <<bufstart, bufend, transmitting, available, out>>
        /\ receiving' \in BOOLEAN /\ timer' \in BOOLEAN /\ ~transmitting
    <3>1. UNCHANGED <<bufstart, bufend, transmitting, available, out>>
      BY <1>2
    <3>2. receiving' \in BOOLEAN /\ timer' \in BOOLEAN /\ ~transmitting
      BY <1>4, Zenon
    <3>3. 0 \in 0 .. Bits + 1
      BY <2>1
    <3> QED BY <3>1, <3>2, <3>3
  <2>5. PortInv'
    BY <1>1, <1>4, <2>1, <2>2, <2>3, <2>4 DEF PortInv
  <2> QED BY <1>3, <2>5 DEF SoftInv
<1>5. CASE UNCHANGED <<receiving, timer, bit_no, buffer>>
  <2>1. PortInv'
    BY <1>1, <1>2, <1>5 DEF PortInv
  <2> QED BY <1>3, <2>1 DEF SoftInv
<1> QED BY <1>4, <1>5 DEF Poll

LEMMA CheckStep ==
  ASSUME SoftInv, Clear \/ PollNothing \/ Check \/ GiveUp
  PROVE  SoftInv'
<1>1. PortInv /\ ReaderInv /\ LineInv
  BY DEF SoftInv
<1>2. UNCHANGED <<port, sensor, loaded, got, clean, raced, asks>> /\ edge' \in BOOLEAN
  BY <1>1 DEF Clear, PollNothing, Check, GiveUp, LineInv
<1>3. PortInv' /\ LineInv'
  BY <1>1, <1>2 DEF PortInv, LineInv, port, sensor
<1>4. \/ at' = "idle"
      \/ at' \in {"wait", "poll"} /\ at \in {"wait", "poll", "clear"}
      \/ at = "wait" /\ at' = "read" /\ ~transmitting /\ available >= Need
  BY DEF Clear, PollNothing, Check, GiveUp
<1>5. CASE at' # "read"
  BY <1>1, <1>2, <1>3, <1>4, <1>5 DEF ReaderInv, SoftInv
<1>6. CASE at' = "read"
  <2>1. at = "wait" /\ ~transmitting /\ available >= Need /\ got = << >>
    BY <1>1, <1>4, <1>6 DEF ReaderInv
  <2>2. Len(Header) \in Nat /\ Len(CRC) \in Nat /\ Need = Len(Header) + 2 + Len(CRC)
    BY ConstantTypes
  <2>3. got' = << >> /\ Len(got') = 0 /\ available' = available /\ transmitting' = transmitting
    BY <1>2, <2>1 DEF port
  <2>4. Len(got') <= Len(Header) + 1 /\ available' >= Need - Len(got')
    BY <2>1, <2>2, <2>3
  <2>5. ReaderInv'
    BY <1>1, <1>2, <1>6, <2>1, <2>3, <2>4 DEF ReaderInv
  <2> QED BY <1>3, <2>5 DEF SoftInv
<1> QED BY <1>5, <1>6

(* The other end of the line. *)
LEMMA SensorStep ==
  ASSUME SoftInv, (\E v \in Values : Answers(v)) \/ (\E b \in Stray : Noise(b))
  PROVE  SoftInv'
<1>1. PortInv /\ ReaderInv /\ LineInv
  BY DEF SoftInv
<1>2. ASSUME NEW v \in Values, Answers(v) PROVE SoftInv'
  <2>1. v \in SoftByte \X SoftByte
    BY SoftSerialAssumption
  <2>2. v \in Seq(SoftByte)
    <3>1. v = <<v[1], v[2]>> /\ v[1] \in SoftByte /\ v[2] \in SoftByte
      BY <2>1
    <3>2. <<v[1], v[2]>> \in Seq(SoftByte)
      BY <3>1
    <3> QED BY <3>1, <3>2
  <2>3. Answer(v) \in Seq(SoftByte)
    <3>1. Header \in Seq(SoftByte) /\ CRC \in Seq(SoftByte)
      BY ConstantTypes
    <3> QED BY <2>2, <3>1, ConcatProperties DEF Answer
  <2>4. line' \in Seq({0, 1})
    BY <1>2, <2>3, FramesType DEF Answers
  <2>5. PortInv' /\ ReaderInv'
    BY <1>1, <1>2 DEF Answers, PortInv, ReaderInv, port, reader
  <2>6. commands' \in Nat /\ commands' = commands - 1 /\ transmitting' = transmitting /\ asks' = asks
    BY <1>1, <1>2 DEF Answers, LineInv, port
  <2>7. commands' + (IF transmitting' THEN 1 ELSE 0) <= asks'
    <3>1. commands + (IF transmitting THEN 1 ELSE 0) <= asks /\ commands \in Nat /\ asks \in Nat
      BY <1>1, ConstantTypes DEF LineInv
    <3> QED BY <2>6, <3>1
  <2>8. answered' \subseteq Values
    BY <1>1, <1>2 DEF Answers, LineInv
  <2>9. LineInv'
    BY <1>1, <1>2, <2>4, <2>6, <2>7, <2>8 DEF Answers, LineInv
  <2> QED BY <2>5, <2>9 DEF SoftInv
<1>3. ASSUME NEW b \in Stray, Noise(b) PROVE SoftInv'
  <2>1. line' \in Seq({0, 1})
    <3>1. b \in SoftByte
      BY SoftSerialAssumption
    <3> QED BY <1>3, <3>1, FrameType DEF Noise
  <2>2. PortInv' /\ ReaderInv'
    BY <1>1, <1>3 DEF Noise, PortInv, ReaderInv, port, reader
  <2>3. noises' \in 0 .. MaxNoise
    BY <1>1, <1>3, ConstantTypes DEF Noise, LineInv
  <2>4. LineInv'
    BY <1>1, <1>3, <2>1, <2>3 DEF Noise, LineInv, port
  <2> QED BY <2>2, <2>4 DEF SoftInv
<1> QED BY <1>2, <1>3

LEMMA SoftStep == SoftInv /\ [SoftNext]_softvars => SoftInv'
<1> SUFFICES ASSUME SoftInv, [SoftNext]_softvars PROVE SoftInv'
  OBVIOUS
<1>1. CASE UNCHANGED softvars
  BY <1>1 DEF SoftInv, PortInv, ReaderInv, LineInv, softvars, port, sensor, reader
<1> QED BY <1>1, BitTimeStep, AsleepStep, ConfigureStep, WriteStep, LoadStep, StoreStep, PollStep,
        CheckStep, SensorStep DEF SoftNext

(* Every index stays in the buffer and the two directions exclude each     *)
(* other: the driver never transmits and receives at once, its timer runs  *)
(* exactly while it does either, and taking bytes out of the buffer never  *)
(* brings the count of those available below zero.                         *)
THEOREM SoftTyping == SoftSpec => []SoftTypeOK
<1> QED BY SoftInitInv, SoftStep, SoftInvTypes, PTL DEF SoftSpec

(***************************************************************************)
(* What is on the wire while a command goes out: its bits, as far as the   *)
(* driver's byte and bit counters say.  The buffer holds the command, for  *)
(* nothing is received and nothing is read meanwhile.                      *)
(***************************************************************************)
SendInv ==
  /\ transmitting =>
       /\ \A i \in 1 .. Len(READCMD) : buffer[i - 1] = READCMD[i]
       /\ Len(out) = bufstart * FrameLen + bit_no + 1
       /\ \A i \in 1 .. Len(out) : out[i] = Frames(READCMD)[i]
  /\ CommandWhole

LEMMA NextBit ==
  ASSUME NEW o \in Seq({0, 1}), NEW q \in 0 .. Len(READCMD) - 1, NEW r \in 0 .. FrameLen - 1,
         Len(o) = q * FrameLen + r, \A i \in 1 .. Len(o) : o[i] = Frames(READCMD)[i],
         NEW x, x = Frame(READCMD[q + 1])[r + 1]
  PROVE  /\ Len(Append(o, x)) = Len(o) + 1
         /\ \A i \in 1 .. Len(o) + 1 : Append(o, x)[i] = Frames(READCMD)[i]
<1>1. READCMD \in Seq(SoftByte)
  BY ConstantTypes
<1>2. Frames(READCMD)[q * FrameLen + r + 1] = Frame(READCMD[q + 1])[r + 1]
  BY <1>1, FramesAt
<1>3. Frames(READCMD)[Len(o) + 1] = x
  BY <1>2
<1>4. Len(o) \in Nat
  BY LenProperties
<1> HIDE DEF Frames, Frame, FrameLen
<1>5. Len(Append(o, x)) = Len(o) + 1 /\ Append(o, x)[Len(o) + 1] = x
  OBVIOUS
<1>6. ASSUME NEW i \in 1 .. Len(o) + 1 PROVE Append(o, x)[i] = Frames(READCMD)[i]
  <2>1. CASE i = Len(o) + 1
    BY <1>3, <1>5, <2>1
  <2>2. CASE i # Len(o) + 1
    <3>1. i \in 1 .. Len(o)
      BY <1>4, <2>2
    <3>2. Append(o, x)[i] = o[i]
      BY <3>1
    <3> QED BY <3>1, <3>2
  <2> QED BY <2>1, <2>2
<1> QED BY <1>5, <1>6

LEMMA SendBitSends ==
  ASSUME SoftInv, SendInv, transmitting, SendBit, UNCHANGED buffer
  PROVE  SendInv'
<1>1. /\ PortInv /\ out \in Seq({0, 1})
      /\ bufstart \in Nat /\ bufend \in Nat /\ bufstart < bufend /\ bufend = Len(READCMD)
      /\ bit_no \in Nat /\ bit_no <= Bits + 1
  BY ConstantTypes DEF SoftInv, PortInv
<1>2. /\ Bits \in Nat /\ Bits >= 1 /\ FrameLen = Bits + 2 /\ FrameLen \in Nat
      /\ READCMD \in Seq(SoftByte) /\ Len(READCMD) \in Nat
  BY ConstantTypes
<1>3. /\ \A i \in 1 .. Len(READCMD) : buffer[i - 1] = READCMD[i]
      /\ Len(out) = bufstart * FrameLen + bit_no + 1
      /\ \A i \in 1 .. Len(out) : out[i] = Frames(READCMD)[i]
  BY DEF SendInv
<1>4. bufstart \in 0 .. Len(READCMD) - 1 /\ buffer[bufstart] = READCMD[bufstart + 1]
  <2>1. bufstart \in 0 .. Len(READCMD) - 1 /\ bufstart + 1 \in 1 .. Len(READCMD)
        /\ (bufstart + 1) - 1 = bufstart
    BY <1>1, <1>2
  <2>2. buffer[(bufstart + 1) - 1] = READCMD[bufstart + 1]
    BY <1>3, <2>1
  <2> QED BY <2>1, <2>2
<1>5. bufstart * FrameLen \in Nat
  BY <1>1, <1>2
<1>6. ASSUME bit_no <= Bits, NEW x, x = Frame(READCMD[bufstart + 1])[bit_no + 2],
             out' = Append(out, x), bit_no' = bit_no + 1, UNCHANGED <<bufstart, transmitting>>
      PROVE  SendInv'
  <2>1. bit_no + 1 \in 0 .. FrameLen - 1 /\ (bit_no + 1) + 1 = bit_no + 2
    BY <1>1, <1>2, <1>6
  <2>2. Len(out) = bufstart * FrameLen + (bit_no + 1)
    BY <1>1, <1>3, <1>5
  <2>3. x = Frame(READCMD[bufstart + 1])[(bit_no + 1) + 1]
    BY <1>6, <2>1
  <2>4. /\ Len(out') = Len(out) + 1
        /\ \A i \in 1 .. Len(out) + 1 : out'[i] = Frames(READCMD)[i]
    <3>1. /\ Len(Append(out, x)) = Len(out) + 1
          /\ \A i \in 1 .. Len(out) + 1 : Append(out, x)[i] = Frames(READCMD)[i]
      <4> DEFINE r == bit_no + 1
      <4>1. r \in 0 .. FrameLen - 1 /\ Len(out) = bufstart * FrameLen + r
            /\ x = Frame(READCMD[bufstart + 1])[r + 1]
        BY <2>1, <2>2, <2>3
      <4> HIDE DEF r
      <4> QED BY <1>1, <1>3, <1>4, <4>1, NextBit
    <3> QED BY <1>6, <3>1
  <2>5. Len(out') = bufstart' * FrameLen + bit_no' + 1
    BY <1>1, <1>3, <1>5, <1>6, <2>4
  <2> QED BY <1>3, <1>6, <2>4, <2>5 DEF SendInv, CommandWhole
<1>7. CASE bit_no = Bits /\ out' = Append(out, 1) /\ bit_no' = bit_no + 1
              /\ UNCHANGED <<bufstart, bufend, transmitting, available, timer>>
  <2>1. Frame(READCMD[bufstart + 1])[bit_no + 2] = 1
    BY <1>2, <1>7 DEF Frame
  <2> QED BY <1>2, <1>6, <1>7, <2>1
<1>8. CASE bit_no < Bits /\ out' = Append(out, buffer[bufstart][bit_no]) /\ bit_no' = bit_no + 1
              /\ UNCHANGED <<bufstart, bufend, transmitting, available, timer>>
  <2>1. bit_no + 2 \in 1 .. FrameLen /\ bit_no + 2 # 1 /\ bit_no + 2 # FrameLen
        /\ (bit_no + 2) - 2 = bit_no
    BY <1>1, <1>2, <1>8
  <2>2. Frame(READCMD[bufstart + 1])[bit_no + 2] = READCMD[bufstart + 1][bit_no]
    BY <2>1 DEF Frame
  <2> QED BY <1>1, <1>2, <1>4, <1>6, <1>8, <2>2
<1>9. CASE bit_no = Bits + 1 /\ ~LastByte /\ bit_no' = 0
              /\ out' = Append(out, 0) /\ bufstart' = bufstart + 1
              /\ UNCHANGED <<bufend, transmitting, available, timer>>
  <2>1. bufstart + 1 \in 0 .. Len(READCMD) - 1
    BY <1>1, <1>2, <1>9 DEF LastByte
  <2>2. (bufstart + 1) * FrameLen = bufstart * FrameLen + FrameLen
    BY <1>1, <1>2
  <2>3. Len(out) = (bufstart + 1) * FrameLen + 0
    BY <1>1, <1>2, <1>3, <1>5, <1>9, <2>2
  <2>4. 0 \in 0 .. FrameLen - 1 /\ 1 \in 1 .. FrameLen
    BY <1>2
  <2>5. Frame(READCMD[(bufstart + 1) + 1])[0 + 1] = 0
    BY <2>4 DEF Frame
  <2>6. /\ Len(out') = Len(out) + 1
        /\ \A i \in 1 .. Len(out) + 1 : out'[i] = Frames(READCMD)[i]
    BY <1>1, <1>3, <1>9, <2>1, <2>3, <2>4, <2>5, NextBit
  <2>7. Len(out') = bufstart' * FrameLen + bit_no' + 1
    BY <1>9, <2>3, <2>6
  <2> QED BY <1>3, <1>9, <2>6, <2>7 DEF SendInv, CommandWhole
<1>10. CASE bit_no = Bits + 1 /\ LastByte /\ bit_no' = 0 /\ transmitting' = FALSE
              /\ bufstart' = 0 /\ bufend' = 0 /\ available' = 0 /\ timer' = FALSE
              /\ UNCHANGED out
  <2>1. bufstart + 1 = Len(READCMD)
    BY <1>1, <1>2, <1>10 DEF LastByte
  <2>2. (bufstart + 1) * FrameLen = bufstart * FrameLen + FrameLen
    BY <1>1, <1>2
  <2>3. Len(out) = Len(READCMD) * FrameLen
    <3>1. Len(out) = bufstart * FrameLen + FrameLen
      BY <1>2, <1>3, <1>5, <1>10
    <3>2. Len(out) = (bufstart + 1) * FrameLen
      BY <2>2, <3>1
    <3> QED BY <2>1, <3>2
  <2>4. Frames(READCMD) \in Seq({0, 1}) /\ Len(Frames(READCMD)) = Len(out)
    BY <1>2, <2>3, FramesType
  <2>5. out = Frames(READCMD)
    <3> HIDE DEF Frames
    <3> QED BY <1>1, <1>3, <2>4, SeqEqual
  <2> QED BY <1>10, <2>5 DEF SendInv, CommandWhole
<1> QED BY <1>7, <1>8, <1>9, <1>10 DEF SendBit

LEMMA WriteSends ==
  ASSUME SoftInv, SendInv, Write
  PROVE  SendInv'
<1>1. CASE UNCHANGED port
  BY <1>1 DEF SendInv, CommandWhole, port
<1>2. CASE /\ buffer' = [i \in 0 .. BufSize - 1 |->
                           IF i < Len(READCMD) THEN READCMD[i + 1] ELSE buffer[i]]
           /\ transmitting' = TRUE /\ bufstart' = 0 /\ bit_no' = 0 /\ out' = <<0>>
  <2>1. /\ FrameLen \in Nat /\ FrameLen >= 1 /\ READCMD \in Seq(SoftByte)
        /\ Len(READCMD) \in Nat /\ Len(READCMD) >= 1 /\ Len(READCMD) <= BufSize /\ BufSize \in Nat
    BY ConstantTypes
  <2>2. ASSUME NEW i \in 1 .. Len(READCMD) PROVE buffer'[i - 1] = READCMD[i]
    <3>1. i - 1 \in 0 .. BufSize - 1 /\ i - 1 < Len(READCMD) /\ (i - 1) + 1 = i
      BY <2>1
    <3> QED BY <1>2, <3>1
  <2>3. Frames(READCMD)[1] = 0
    <3>1. 0 \in 0 .. Len(READCMD) - 1 /\ 0 \in 0 .. FrameLen - 1 /\ 0 * FrameLen + 0 + 1 = 1
          /\ 1 \in 1 .. FrameLen
      BY <2>1
    <3>2. Frames(READCMD)[0 * FrameLen + 0 + 1] = Frame(READCMD[0 + 1])[0 + 1]
      BY <2>1, <3>1, FramesAt
    <3>3. Frame(READCMD[1])[1] = 0
      BY <3>1 DEF Frame
    <3> QED BY <3>1, <3>2, <3>3
  <2>4. Len(out') = 1 /\ out'[1] = 0
    BY <1>2
  <2>5. Len(out') = bufstart' * FrameLen + bit_no' + 1
    BY <1>2, <2>1, <2>4
  <2>6. \A i \in 1 .. Len(out') : out'[i] = Frames(READCMD)[i]
    BY <2>3, <2>4
  <2> QED BY <1>2, <2>2, <2>5, <2>6 DEF SendInv, CommandWhole
<1> QED BY <1>1, <1>2 DEF Write

LEMMA SendStep == SoftInv /\ SendInv /\ [SoftNext]_softvars => SendInv'
<1> SUFFICES ASSUME SoftInv, SendInv, [SoftNext]_softvars PROVE SendInv'
  OBVIOUS
<1>1. CASE BitTime
  <2>1. CASE /\ timer /\ transmitting /\ SendBit
             /\ UNCHANGED <<buffer, receiving>>
    BY <2>1, SendBitSends
  <2>2. CASE ~transmitting /\ UNCHANGED <<bufstart, transmitting, out>>
    BY <2>2 DEF SendInv, CommandWhole
  <2>3. CASE UNCHANGED port
    BY <2>3 DEF SendInv, CommandWhole, port
  <2> QED BY <1>1, <2>1, <2>2, <2>3 DEF BitTime, Timer
<1>2. CASE Configure
  BY <1>2 DEF Configure, Reset, SendInv, CommandWhole
<1>3. CASE Write
  BY <1>3, WriteSends
<1>4. CASE Poll
  <2>1. CASE ~transmitting
    BY <1>4, <2>1 DEF Poll, SendInv, CommandWhole
  <2>2. CASE transmitting
    BY <1>4, <2>2 DEF Poll, SendInv, CommandWhole
  <2> QED BY <2>1, <2>2
<1>5. CASE Store
  <2>1. ~transmitting
    BY <1>5 DEF Store, SoftInv, ReaderInv
  <2> QED BY <1>5, <2>1 DEF Store, SendInv, CommandWhole
<1>6. CASE UNCHANGED port
  BY <1>6 DEF SendInv, CommandWhole, port
<1>7. \/ BitTime \/ Configure \/ Write \/ Poll \/ Store \/ UNCHANGED port
  BY DEF SoftNext, softvars, BitTimeAsleep, Clear, PollNothing, Check, GiveUp, Load, Answers, Noise
<1> QED BY <1>1, <1>2, <1>3, <1>4, <1>5, <1>6, <1>7

(* A command that has gone out has gone out whole and unchanged, start and *)
(* stop bits included, whatever came in meanwhile: the receiver, which     *)
(* shares its buffer and bit counter, keeps off them.                      *)
THEOREM CommandGoesOutWhole == SoftSpec => []CommandWhole
<1>1. SoftInit => SendInv
  BY DEF SoftInit, SendInv, CommandWhole
<1>2. SendInv => CommandWhole
  BY DEF SendInv
<1> QED BY <1>1, <1>2, SoftInitInv, SoftStep, SendStep, PTL DEF SoftSpec

-----------------------------------------------------------------------------
(***************************************************************************)
(* The count of bytes available.  Between the two halves of available--    *)
(* the loaded count is the count, unless a byte was added: raced.          *)
(***************************************************************************)
CountInv == CountRight /\ (at = "store" /\ ~raced => loaded = available)

LEMMA BitTimeCounts ==
  ASSUME SoftInv, CountInv, BitTime
  PROVE  CountInv'
<1>1. /\ PortInv /\ ReaderInv /\ at' = at /\ loaded' = loaded /\ Timer(Pin(line'))
      /\ raced' = (raced \/ (at = "store" /\ available' > available))
  BY DEF SoftInv, BitTime, Advance, reader
<1>2. /\ available \in Nat /\ bufend \in Nat /\ bufstart \in Nat
      /\ BufSize \in Nat /\ BufSize >= 1 /\ 0 % BufSize = 0
  BY <1>1, ConstantTypes DEF PortInv
<1>3. CASE UNCHANGED port
  <2>1. ~raced' => ~raced
    BY <1>1
  <2> QED BY <1>1, <1>3, <2>1 DEF CountInv, CountRight, port
<1>4. CASE timer /\ transmitting /\ SendBit
  <2>1. at # "store"
    BY <1>1, <1>4 DEF ReaderInv
  <2>2. transmitting' \/ (available' = 0 /\ bufend' = 0 /\ bufstart' = 0)
    BY <1>4 DEF SendBit
  <2>3. ASSUME ~transmitting' PROVE (available' - (bufend' - bufstart')) % BufSize = 0
    BY <1>2, <2>2, <2>3
  <2> QED BY <1>1, <2>1, <2>3 DEF CountInv, CountRight
<1>5. CASE /\ timer /\ ~transmitting /\ SampleBit(Pin(line'))
           /\ UNCHANGED <<bufstart, transmitting, out, commands>>
  <2>1. \/ available' = available /\ bufend' = bufend
        \/ available' = available + 1 /\ bufend' = (bufend + 1) % BufSize
    BY <1>5, SampleBitPort
  <2>2. bufend \in 0 .. BufSize - 1
    BY <1>1, <1>2, <1>5 DEF PortInv
  <2>3. (bufend + 1) % BufSize = IF bufend = BufSize - 1 THEN 0 ELSE bufend + 1
    BY <2>2, Wrap
  <2> DEFINE a == available - (bufend - bufstart)
             b == available' - (bufend' - bufstart')
  <2>4. a \in Int /\ b \in {a, a + BufSize, a - BufSize}
    BY <1>2, <1>5, <2>1, <2>3
  <2>5. ~raced' => ~raced /\ ~(at = "store" /\ available' > available)
    BY <1>1, Zenon
  <2>6. CountRight'
    <3>1. ASSUME ~raced' PROVE a % BufSize = 0
      BY <1>5, <2>5, <3>1 DEF CountInv, CountRight
    <3> HIDE DEF a, b
    <3>2. ASSUME ~raced' PROVE b % BufSize = 0
      BY <2>4, <3>1, <3>2, Multiples
    <3> QED BY <3>2 DEF CountRight, b
  <2>7. at' = "store" /\ ~raced' => loaded' = available'
    BY <1>1, <1>2, <2>1, <2>5 DEF CountInv
  <2> QED BY <2>6, <2>7 DEF CountInv
<1> QED BY <1>1, <1>3, <1>4, <1>5 DEF Timer, port

LEMMA StoreCounts ==
  ASSUME SoftInv, CountInv, Store
  PROVE  CountInv'
<1>1. /\ PortInv /\ ReaderInv /\ at = "store" /\ ~transmitting
      /\ available' = loaded - 1 /\ bufstart' = (bufstart + 1) % BufSize
      /\ UNCHANGED <<bufend, transmitting, raced>> /\ Take(buffer[bufstart])
  BY DEF SoftInv, ReaderInv, Store
<1>2. /\ available \in Nat /\ bufend \in Nat /\ bufstart \in 0 .. BufSize - 1
      /\ BufSize \in Nat /\ BufSize >= 1 /\ buffer[bufstart] \in SoftByte
  BY <1>1, ConstantTypes DEF PortInv
<1>3. (bufstart + 1) % BufSize = IF bufstart = BufSize - 1 THEN 0 ELSE bufstart + 1
  BY <1>2, Wrap
<1> DEFINE a == available - (bufend - bufstart)
           b == available' - (bufend' - bufstart')
<1>4. ASSUME ~raced PROVE b % BufSize = 0
  <2>1. loaded = available /\ a % BufSize = 0
    BY <1>1, <1>4 DEF CountInv, CountRight
  <2>2. a \in Int /\ b \in {a, a + BufSize, a - BufSize}
    BY <1>1, <1>2, <1>3, <2>1
  <2> HIDE DEF a, b
  <2> QED BY <2>1, <2>2, Multiples
<1>5. at' # "store"
  BY <1>1, <1>2, TakeByte
<1> QED BY <1>1, <1>4, <1>5 DEF CountInv, CountRight

LEMMA CountStep == SoftInv /\ CountInv /\ [SoftNext]_softvars => CountInv'
<1> SUFFICES ASSUME SoftInv, CountInv, [SoftNext]_softvars PROVE CountInv'
  OBVIOUS
<1>0. BufSize \in Nat /\ BufSize >= 1 /\ 0 % BufSize = 0
  BY ConstantTypes
<1>1. CASE Configure
  <2>1. /\ available' = 0 /\ bufend' = 0 /\ bufstart' = 0 /\ at' # "store"
    BY <1>1 DEF Configure, Reset, reader
  <2> QED BY <1>0, <2>1 DEF CountInv, CountRight
<1>2. CASE Write
  <2>1. at' = "wait"
    BY <1>2 DEF Write
  <2>2. transmitting' \/ UNCHANGED <<port, raced>>
    BY <1>2 DEF Write
  <2> QED BY <2>1, <2>2 DEF CountInv, CountRight, port
<1>3. CASE Load
  <2>1. UNCHANGED <<port, raced>> /\ (at' = "store" => loaded' = available)
    BY <1>3 DEF Load, Take
  <2> QED BY <2>1 DEF CountInv, CountRight, port
<1>4. CASE UNCHANGED <<available, bufend, bufstart, transmitting, raced, loaded>>
           /\ (at' = at \/ at' # "store")
  BY <1>4 DEF CountInv, CountRight
<1>5. \/ BitTime \/ Store \/ Configure \/ Write \/ Load
      \/ /\ UNCHANGED <<available, bufend, bufstart, transmitting, raced, loaded>>
         /\ at' = at \/ at' # "store"
  BY DEF SoftNext, softvars, BitTimeAsleep, Clear, PollNothing, Check, GiveUp, Poll, Answers, Noise,
         Advance, reader, port, sensor
<1> QED BY <1>1, <1>2, <1>3, <1>4, <1>5, BitTimeCounts, StoreCounts

(* The count of bytes available and the ends of the buffer do not drift    *)
(* apart, for every size of the buffer: a byte can be miscounted only when *)
(* the interrupt adds it between the load and the store of available--     *)
(* (softserial.c:128).                                                     *)
THEOREM CountFollowsBuffer == SoftSpec => []CountRight
<1>1. SoftInit => CountInv
  <2> SUFFICES ASSUME SoftInit PROVE CountInv
    OBVIOUS
  <2>1. 0 % BufSize = 0
    BY ConstantTypes
  <2>2. (available - (bufend - bufstart)) % BufSize = 0
    BY <2>1 DEF SoftInit
  <2> QED BY <2>2 DEF SoftInit, CountInv, CountRight
<1>2. CountInv => CountRight
  BY DEF CountInv
<1> QED BY <1>1, <1>2, SoftInitInv, SoftStep, CountStep, PTL DEF SoftSpec

-----------------------------------------------------------------------------
(***************************************************************************)
(* The value that is reported.  The line holds what is left of whole bytes *)
(* w, of the first of which j bits have passed; every byte the program has *)
(* read of this answer, every byte in the buffer and every byte on the     *)
(* line has a label, and the labels follow each other as the sensor's      *)
(* answers and stray bytes do.                                             *)
(***************************************************************************)
LineOf(ln, w, j) ==
  /\ w \in Seq(SoftByte) /\ j \in 0 .. Bits + 1
  /\ Len(ln) = Len(w) * FrameLen - j
  /\ \A q \in 0 .. Len(w) - 1, r \in 0 .. FrameLen - 1 :
        q * FrameLen + r >= j => ln[q * FrameLen + r - j + 1] = Frame(w[q + 1])[r + 1]

Chain(l, vs) ==
  /\ l \in Seq(Labels(vs))
  /\ \A i \in 1 .. Len(l) - 1 : Follows(l[i], l[i + 1])
  /\ l # << >> => Ends(l[Len(l)])

Place(s, i) == IF s + i < BufSize THEN s + i ELSE s + i - BufSize

(* labels n + 1 to n + c are those of the bytes from s on in the buffer b  *)
Stored(b, s, l, n, c) == \A i \in 0 .. c - 1 : ByteOf(l[n + 1 + i]) = b[Place(s, i)]

(* labels n + 1 to n + Len(w) - d are those of w, of which d have been sampled *)
Coming(l, n, w, d) ==
  /\ Len(l) = n + Len(w) - d
  /\ \A i \in 1 + d .. Len(w) : ByteOf(l[n + i - d]) = w[i]

Sampled(j) == IF j < Bits THEN 0 ELSE 1

LEMMA Times ==
  ASSUME NEW a \in Nat, NEW b \in Nat, NEW m \in Nat, a <= b
  PROVE  a * m <= b * m
<1>1. PICK k \in Nat : b = a + k
  <2>1. b - a \in Nat /\ b = a + (b - a)
    OBVIOUS
  <2> QED BY <2>1
<1>2. (a + k) * m = a * m + k * m /\ a * m \in Nat /\ k * m \in Nat
  OBVIOUS
<1> QED BY <1>1, <1>2

LEMMA LineBit ==
  ASSUME NEW ln \in Seq({0, 1}), NEW w, NEW j, LineOf(ln, w, j), w # << >>
  PROVE  /\ Len(w) \in Nat /\ Len(w) >= 1 /\ w[1] \in SoftByte
         /\ Len(ln) >= FrameLen - j /\ ln # << >>
         /\ \A r \in j .. FrameLen - 1 : ln[r - j + 1] = Frame(w[1])[r + 1]
<1>1. /\ Bits \in Nat /\ Bits >= 1 /\ FrameLen = Bits + 2 /\ FrameLen \in Nat
      /\ w \in Seq(SoftByte) /\ j \in 0 .. Bits + 1
  BY ConstantTypes DEF LineOf
<1>2. Len(w) \in Nat /\ Len(w) >= 1 /\ w[1] \in SoftByte
  BY <1>1
<1> HIDE DEF FrameLen
<1>3. Len(w) * FrameLen >= FrameLen /\ Len(w) * FrameLen \in Nat
  BY <1>1, <1>2
<1>4. Len(ln) >= FrameLen - j /\ Len(ln) >= 1
  BY <1>1, <1>3 DEF LineOf
<1>5. ln # << >>
  BY <1>4
<1>6. ASSUME NEW r \in j .. FrameLen - 1 PROVE ln[r - j + 1] = Frame(w[1])[r + 1]
  <2>1. 0 \in 0 .. Len(w) - 1 /\ r \in 0 .. FrameLen - 1 /\ 0 * FrameLen + r >= j
    BY <1>1, <1>2
  <2>2. ln[0 * FrameLen + r - j + 1] = Frame(w[0 + 1])[r + 1]
    BY <2>1 DEF LineOf
  <2>3. 0 * FrameLen + r - j + 1 = r - j + 1 /\ 0 + 1 = 1
    BY <1>1
  <2> QED BY <2>2, <2>3
<1> QED BY <1>2, <1>4, <1>5, <1>6

LEMMA LineEmpty ==
  ASSUME NEW ln \in Seq({0, 1}), NEW w, NEW j, LineOf(ln, w, j)
  PROVE  /\ w = << >> => ln = << >> /\ j = 0
         /\ ln = << >> => w = << >>
<1>1. FrameLen \in Nat /\ w \in Seq(SoftByte) /\ j \in Nat
  BY ConstantTypes DEF LineOf
<1>2. ASSUME w = << >> PROVE ln = << >> /\ j = 0
  <2>1. Len(w) = 0
    BY <1>2
  <2>2. Len(ln) = 0 * FrameLen - j /\ Len(ln) \in Nat
    BY <2>1 DEF LineOf
  <2>3. 0 * FrameLen = 0
    BY <1>1
  <2>4. Len(ln) = 0 /\ j = 0
    BY <1>1, <2>2, <2>3
  <2> QED BY <2>4, EmptySeq
<1> QED BY <1>2, LineBit

LEMMA LineStarts ==
  ASSUME NEW ln \in Seq({0, 1}), NEW w, NEW j, LineOf(ln, w, j), w # << >>
  PROVE  /\ (ln # << >> /\ Len(ln) % FrameLen = 0) <=> j = 0
         /\ j = 0 => Pin(ln) = 0
         /\ j = Bits + 1 => Pin(ln) = 1
<1>1. /\ Bits \in Nat /\ Bits >= 1 /\ FrameLen = Bits + 2 /\ FrameLen \in Nat /\ FrameLen >= 1
      /\ j \in 0 .. Bits + 1 /\ Len(w) \in Nat /\ Len(w) >= 1 /\ Len(ln) = Len(w) * FrameLen - j
      /\ ln # << >>
  <2>1. j \in 0 .. Bits + 1 /\ Len(ln) = Len(w) * FrameLen - j
    BY DEF LineOf
  <2>2. Len(w) \in Nat /\ Len(w) >= 1 /\ ln # << >>
    BY LineBit
  <2> QED BY <2>1, <2>2, ConstantTypes
<1>2. Pin(ln) = ln[1]
  BY <1>1 DEF Pin
<1> HIDE DEF FrameLen
<1>3. CASE j = 0
  <2>1. 0 \in 0 .. FrameLen - 1 /\ Len(w) \in Int
    BY <1>1, <1>3
  <2>2. Len(ln) % FrameLen = 0
    <3>1. (Len(w) * FrameLen + 0) % FrameLen = 0
      BY <1>1, <2>1, Quotient
    <3>2. Len(w) * FrameLen \in Int
      BY <1>1
    <3>3. Len(ln) = Len(w) * FrameLen + 0
      BY <1>1, <1>3, <3>2
    <3> QED BY <3>1, <3>3
  <2>3. 0 \in j .. FrameLen - 1 /\ 0 - j + 1 = 1 /\ 0 + 1 = 1 /\ 1 \in 1 .. FrameLen
    BY <1>1, <1>3
  <2>4. ln[1] = Frame(w[1])[1]
    BY <2>3, LineBit
  <2>5. Frame(w[1])[1] = 0
    BY <2>3 DEF Frame
  <2> QED BY <1>1, <1>2, <1>3, <2>2, <2>4, <2>5
<1>4. CASE j # 0
  <2> DEFINE p == Len(w) - 1
             r == FrameLen - j
  <2>1. p \in Int /\ r \in 0 .. FrameLen - 1 /\ r # 0
    BY <1>1, <1>4
  <2>2. Len(w) * FrameLen = p * FrameLen + FrameLen
    BY <1>1
  <2>3. p * FrameLen \in Int
    BY <1>1
  <2>4. Len(ln) = p * FrameLen + r
    BY <1>1, <2>2, <2>3
  <2> HIDE DEF p, r
  <2>5. Len(ln) % FrameLen = r
    BY <1>1, <2>1, <2>4, Quotient
  <2>6. ASSUME j = Bits + 1 PROVE ln[1] = 1
    <3> DEFINE e == Bits + 1
    <3>1. /\ e \in j .. FrameLen - 1 /\ e - j + 1 = 1 /\ e + 1 = FrameLen
          /\ FrameLen \in 1 .. FrameLen /\ FrameLen # 1
      BY <1>1, <2>6
    <3> HIDE DEF e
    <3>2. ln[e - j + 1] = Frame(w[1])[e + 1]
      BY <3>1, LineBit
    <3>3. Frame(w[1])[FrameLen] = 1
      BY <3>1 DEF Frame
    <3> QED BY <3>1, <3>2, <3>3
  <2> QED BY <1>2, <1>4, <2>1, <2>5, <2>6
<1> QED BY <1>3, <1>4

(* A bit passes: the next one is on the pin, ... *)
LEMMA LineGoesOn ==
  ASSUME NEW ln \in Seq({0, 1}), NEW w, NEW j, LineOf(ln, w, j), w # << >>, j <= Bits
  PROVE  LineOf(Tail(ln), w, j + 1) /\ (j < Bits => Pin(Tail(ln)) = w[1][j])
<1>1. /\ Bits \in Nat /\ Bits >= 1 /\ FrameLen = Bits + 2 /\ FrameLen \in Nat /\ FrameLen >= 1
      /\ j \in 0 .. Bits + 1 /\ Len(w) \in Nat /\ Len(w) >= 1 /\ Len(ln) = Len(w) * FrameLen - j
      /\ ln # << >> /\ w \in Seq(SoftByte) /\ Len(ln) >= FrameLen - j
  <2>1. j \in 0 .. Bits + 1 /\ Len(ln) = Len(w) * FrameLen - j /\ w \in Seq(SoftByte)
    BY DEF LineOf
  <2>2. Len(w) \in Nat /\ Len(w) >= 1 /\ ln # << >> /\ Len(ln) >= FrameLen - j
    BY LineBit
  <2> QED BY <2>1, <2>2, ConstantTypes
<1>2. /\ Tail(ln) \in Seq({0, 1}) /\ Len(Tail(ln)) = Len(ln) - 1
      /\ \A i \in 1 .. Len(Tail(ln)) : Tail(ln)[i] = ln[i + 1]
  BY <1>1, HeadTailProperties
<1> DEFINE t == Tail(ln)
<1> HIDE DEF t, FrameLen
<1>3. Len(t) = Len(w) * FrameLen - (j + 1) /\ j + 1 \in 0 .. Bits + 1
  <2>1. Len(w) * FrameLen \in Nat
    BY <1>1
  <2> QED BY <1>1, <1>2, <2>1 DEF t
<1>4. ASSUME NEW q \in 0 .. Len(w) - 1, NEW r \in 0 .. FrameLen - 1, q * FrameLen + r >= j + 1
      PROVE  t[q * FrameLen + r - (j + 1) + 1] = Frame(w[q + 1])[r + 1]
  <2>1. q \in Nat /\ r \in Nat /\ q + 1 <= Len(w)
    BY <1>1
  <2>2. (q + 1) * FrameLen <= Len(w) * FrameLen /\ (q + 1) * FrameLen = q * FrameLen + FrameLen
    <3>1. q + 1 \in Nat /\ (q + 1) * FrameLen = q * FrameLen + FrameLen
      BY <1>1, <2>1
    <3> QED BY <1>1, <2>1, <3>1, Times
  <2> DEFINE m == q * FrameLen
             n == Len(w) * FrameLen
  <2>3. m \in Nat /\ n \in Nat
    BY <1>1, <2>1
  <2>4. m + FrameLen <= n /\ m + r >= j + 1 /\ Len(t) = n - (j + 1) /\ ln[m + r - j + 1] = Frame(w[q + 1])[r + 1]
    <3>1. q * FrameLen + r >= j
      BY <1>1, <1>4, <2>3
    <3>2. ln[q * FrameLen + r - j + 1] = Frame(w[q + 1])[r + 1]
      BY <3>1 DEF LineOf
    <3> QED BY <1>3, <1>4, <2>2, <3>2
  <2> HIDE DEF m, n
  <2>5. /\ m + r - (j + 1) + 1 \in 1 .. Len(t)
        /\ (m + r - (j + 1) + 1) + 1 = m + r - j + 1
    BY <1>1, <2>1, <2>3, <2>4
  <2>6. t[m + r - (j + 1) + 1] = ln[m + r - j + 1]
    BY <1>2, <2>5 DEF t
  <2> QED BY <2>4, <2>6 DEF m
<1>5. LineOf(t, w, j + 1)
  BY <1>1, <1>3, <1>4 DEF LineOf
<1>6. ASSUME j < Bits PROVE Pin(t) = w[1][j]
  <2> DEFINE k == j + 1
  <2>1. /\ k \in k .. FrameLen - 1 /\ k - k + 1 = 1 /\ k + 1 = j + 2
        /\ j + 2 \in 1 .. FrameLen /\ j + 2 # 1 /\ j + 2 # FrameLen /\ (j + 2) - 2 = j
    BY <1>1, <1>6
  <2>2. LineOf(t, w, k) /\ t \in Seq({0, 1})
    BY <1>2, <1>5 DEF t
  <2> HIDE DEF k
  <2>3. t[k - k + 1] = Frame(w[1])[k + 1] /\ t # << >>
    BY <1>1, <2>1, <2>2, LineBit
  <2>4. Frame(w[1])[j + 2] = w[1][j]
    BY <2>1 DEF Frame
  <2>5. Pin(t) = t[1]
    BY <2>3 DEF Pin
  <2> QED BY <2>1, <2>3, <2>4, <2>5
<1> QED BY <1>5, <1>6 DEF t

(* ... and with its stop bit a byte has passed. *)
LEMMA LineByteEnds ==
  ASSUME NEW ln \in Seq({0, 1}), NEW w, LineOf(ln, w, Bits + 1), w # << >>
  PROVE  LineOf(Tail(ln), Tail(w), 0)
<1>1. /\ Bits \in Nat /\ Bits >= 1 /\ FrameLen = Bits + 2 /\ FrameLen \in Nat /\ FrameLen >= 1
      /\ Len(w) \in Nat /\ Len(w) >= 1 /\ Len(ln) = Len(w) * FrameLen - (Bits + 1)
      /\ ln # << >> /\ w \in Seq(SoftByte)
  <2>1. Len(ln) = Len(w) * FrameLen - (Bits + 1) /\ w \in Seq(SoftByte)
    BY DEF LineOf
  <2>2. Len(w) \in Nat /\ Len(w) >= 1 /\ ln # << >>
    BY LineBit
  <2> QED BY <2>1, <2>2, ConstantTypes
<1>2. /\ Tail(ln) \in Seq({0, 1}) /\ Len(Tail(ln)) = Len(ln) - 1
      /\ \A i \in 1 .. Len(Tail(ln)) : Tail(ln)[i] = ln[i + 1]
  BY <1>1, HeadTailProperties
<1>3. /\ Tail(w) \in Seq(SoftByte) /\ Len(Tail(w)) = Len(w) - 1
      /\ \A i \in 1 .. Len(Tail(w)) : Tail(w)[i] = w[i + 1]
  BY <1>1, HeadTailProperties
<1> DEFINE t == Tail(ln)
           v == Tail(w)
<1> HIDE DEF t, v, FrameLen
<1>4. Len(w) * FrameLen = Len(v) * FrameLen + FrameLen /\ Len(v) * FrameLen \in Nat /\ Len(v) \in Nat
  <2>1. Len(v) \in Nat /\ Len(w) = Len(v) + 1
    BY <1>1, <1>3 DEF v
  <2>2. (Len(v) + 1) * FrameLen = Len(v) * FrameLen + FrameLen
    BY <1>1, <2>1
  <2> QED BY <1>1, <2>1, <2>2
<1>5. Len(t) = Len(v) * FrameLen - 0 /\ 0 \in 0 .. Bits + 1
  BY <1>1, <1>2, <1>4 DEF t
<1>6. ASSUME NEW q \in 0 .. Len(v) - 1, NEW r \in 0 .. FrameLen - 1
      PROVE  t[q * FrameLen + r - 0 + 1] = Frame(v[q + 1])[r + 1]
  <2>1. /\ q \in Nat /\ r \in Nat /\ q + 1 <= Len(v) /\ q + 1 \in 0 .. Len(w) - 1
        /\ v[q + 1] = w[(q + 1) + 1]
    BY <1>1, <1>3, <1>4 DEF v
  <2>2. (q + 1) * FrameLen <= Len(v) * FrameLen /\ (q + 1) * FrameLen = q * FrameLen + FrameLen
    <3> DEFINE k == Len(v)
    <3>1. k \in Nat /\ q + 1 <= k
      BY <1>4, <2>1
    <3> HIDE DEF k
    <3>2. (q + 1) * FrameLen <= k * FrameLen
      <4>1. q + 1 \in Nat /\ FrameLen \in Nat
        BY <1>1, <2>1
      <4> QED BY <3>1, <4>1, Times
    <3>3. (q + 1) * FrameLen = q * FrameLen + FrameLen
      BY <1>1, <2>1
    <3> QED BY <3>2, <3>3 DEF k
  <2> DEFINE m == q * FrameLen
             n == Len(v) * FrameLen
  <2>3. m \in Nat /\ n \in Nat /\ m + FrameLen <= n /\ Len(t) = n /\ (q + 1) * FrameLen = m + FrameLen
    BY <1>1, <1>4, <1>5, <2>1, <2>2
  <2>4. (q + 1) * FrameLen + r >= Bits + 1
    <3> HIDE DEF m
    <3> QED BY <1>1, <2>1, <2>3
  <2>5. ln[(q + 1) * FrameLen + r - (Bits + 1) + 1] = Frame(w[(q + 1) + 1])[r + 1]
    BY <2>1, <2>4 DEF LineOf
  <2> HIDE DEF m, n
  <2>6. /\ m + r - 0 + 1 \in 1 .. Len(t)
        /\ (m + r - 0 + 1) + 1 = (q + 1) * FrameLen + r - (Bits + 1) + 1
    BY <1>1, <2>1, <2>3
  <2>7. t[m + r - 0 + 1] = ln[(q + 1) * FrameLen + r - (Bits + 1) + 1]
    BY <1>2, <2>6 DEF t
  <2> QED BY <2>1, <2>5, <2>7 DEF m
<1>7. LineOf(t, v, 0)
  BY <1>3, <1>5, <1>6 DEF LineOf, v
<1> QED BY <1>7 DEF t, v

(* What begins on a free line. *)
LEMMA LineOfFrames ==
  ASSUME NEW w \in Seq(SoftByte)
  PROVE  LineOf(Frames(w), w, 0)
<1>1. Bits \in Nat /\ FrameLen \in Nat /\ FrameLen >= 1 /\ Len(w) \in Nat
  BY ConstantTypes
<1>2. Len(Frames(w)) = Len(w) * FrameLen - 0 /\ 0 \in 0 .. Bits + 1
  <2>1. Len(w) * FrameLen \in Nat
    BY <1>1
  <2>2. Len(Frames(w)) = Len(w) * FrameLen
    BY FramesType
  <2> HIDE DEF Frames, FrameLen
  <2> QED BY <1>1, <2>1, <2>2
<1>3. ASSUME NEW q \in 0 .. Len(w) - 1, NEW r \in 0 .. FrameLen - 1
      PROVE  Frames(w)[q * FrameLen + r - 0 + 1] = Frame(w[q + 1])[r + 1]
  <2>1. Frames(w)[q * FrameLen + r + 1] = Frame(w[q + 1])[r + 1]
    BY FramesAt
  <2>2. q * FrameLen + r - 0 + 1 = q * FrameLen + r + 1
    BY <1>1
  <2> QED BY <2>1, <2>2
<1> QED BY <1>2, <1>3 DEF LineOf

LEMMA LineOfFrame ==
  ASSUME NEW b \in SoftByte
  PROVE  LineOf(Frame(b), <<b>>, 0)
<1>1. Bits \in Nat /\ FrameLen \in Nat /\ FrameLen >= 1
  BY ConstantTypes
<1>2. <<b>> \in Seq(SoftByte) /\ Len(<<b>>) = 1 /\ <<b>>[1] = b
  OBVIOUS
<1>3. Len(Frame(b)) = FrameLen
  <2>1. Frame(b) = [i \in 1 .. FrameLen |-> IF i = 1 THEN 0 ELSE IF i = FrameLen THEN 1 ELSE b[i - 2]]
    BY DEF Frame
  <2>2. Frame(b) \in Seq({0, 1}) /\ DOMAIN Frame(b) = 1 .. FrameLen
    BY <2>1, FrameType
  <2> QED BY <1>1, <2>2, LenProperties
<1>4. ASSUME NEW q \in 0 .. 1 - 1, NEW r \in 0 .. FrameLen - 1
      PROVE  Frame(b)[q * FrameLen + r - 0 + 1] = Frame(<<b>>[q + 1])[r + 1]
  <2>1. q = 0 /\ 0 * FrameLen + r - 0 + 1 = r + 1 /\ 0 + 1 = 1
    BY <1>1
  <2> QED BY <1>2, <2>1
<1>5. Len(Frame(b)) = Len(<<b>>) * FrameLen - 0 /\ 0 \in 0 .. Bits + 1
  BY <1>1, <1>2, <1>3
<1> QED BY <1>2, <1>4, <1>5 DEF LineOf

(* The places of a ring of BufSize. *)
LEMMA Places ==
  ASSUME NEW s \in 0 .. BufSize - 1, NEW c \in 0 .. BufSize - 1
  PROVE  /\ Place(s, c) \in 0 .. BufSize - 1
         /\ \A i \in 0 .. c - 1 : Place(s, i) \in 0 .. BufSize - 1 /\ Place(s, i) # Place(s, c)
         /\ Place(s, 0) = s /\ (Place(s, c) = s => c = 0)
         /\ c < BufSize - 1 => (Place(s, c) + 1) % BufSize = Place(s, c + 1)
         /\ c = BufSize - 1 => (Place(s, c) + 1) % BufSize = s
         /\ \A i \in 0 .. c - 1 : Place((s + 1) % BufSize, i) = Place(s, i + 1)
         /\ c >= 1 => Place((s + 1) % BufSize, c - 1) = Place(s, c)
<1>1. BufSize \in Nat /\ BufSize >= 1 /\ s \in Nat /\ c \in Nat
  BY ConstantTypes
<1>2. Place(s, c) \in 0 .. BufSize - 1
  BY <1>1 DEF Place
<1>3. (Place(s, c) + 1) % BufSize = IF Place(s, c) = BufSize - 1 THEN 0 ELSE Place(s, c) + 1
  BY <1>2, Wrap
<1>4. (s + 1) % BufSize = IF s = BufSize - 1 THEN 0 ELSE s + 1
  BY Wrap
<1>5. \A i \in 0 .. c - 1 : Place(s, i) \in 0 .. BufSize - 1 /\ Place(s, i) # Place(s, c)
  BY <1>1 DEF Place
<1>6. Place(s, 0) = s /\ (Place(s, c) = s => c = 0)
  BY <1>1 DEF Place
<1>7. /\ c < BufSize - 1 => (Place(s, c) + 1) % BufSize = Place(s, c + 1)
      /\ c = BufSize - 1 => (Place(s, c) + 1) % BufSize = s
  <2> DEFINE p == (Place(s, c) + 1) % BufSize
  <2>1. p = IF Place(s, c) = BufSize - 1 THEN 0 ELSE Place(s, c) + 1
    BY <1>3
  <2> HIDE DEF p
  <2>2. /\ c < BufSize - 1 => p = Place(s, c + 1)
        /\ c = BufSize - 1 => p = s
    BY <1>1, <2>1 DEF Place
  <2> QED BY <2>2 DEF p
<1> DEFINE t == (s + 1) % BufSize
<1>8. t = IF s = BufSize - 1 THEN 0 ELSE s + 1
  BY <1>4
<1> HIDE DEF t
<1>9. /\ \A i \in 0 .. c - 1 : Place(t, i) = Place(s, i + 1)
      /\ c >= 1 => Place(t, c - 1) = Place(s, c)
  BY <1>1, <1>8 DEF Place
<1> QED BY <1>2, <1>5, <1>6, <1>7, <1>9 DEF t

LEMMA PlaceApart ==
  ASSUME NEW s \in 0 .. BufSize - 1, NEW c \in 0 .. BufSize - 1, NEW i \in 0 .. c - 1
  PROVE  Place(s, i) \in 0 .. BufSize - 1 /\ Place(s, i) # Place(s, c)
<1>1. BufSize \in Nat /\ BufSize >= 1
  BY ConstantTypes
<1> QED BY <1>1 DEF Place

(* The labels of what was read can be forgotten, ... *)
LEMMA ChainDrop ==
  ASSUME NEW vs, NEW l, Chain(l, vs), NEW n \in 0 .. Len(l)
  PROVE  \E m : /\ Chain(m, vs) /\ Len(m) = Len(l) - n
                /\ \A i \in 1 .. Len(l) - n : m[i] = l[n + i]
<1> DEFINE m == SubSeq(l, n + 1, Len(l))
<1>1. l \in Seq(Labels(vs)) /\ Len(l) \in Nat /\ n \in Nat
  BY DEF Chain
<1> HIDE DEF Labels
<1>2. /\ m \in Seq(Labels(vs)) /\ Len(m) = Len(l) - n
      /\ \A i \in 1 .. Len(l) - n : m[i] = l[n + i]
  <2>1. \A i \in n + 1 .. Len(l) : l[i] \in Labels(vs)
    BY <1>1
  <2>2. n + 1 \in Int /\ Len(l) \in Int
    BY <1>1
  <2>3. /\ m \in Seq(Labels(vs))
        /\ Len(m) = IF n + 1 <= Len(l) THEN Len(l) - (n + 1) + 1 ELSE 0
        /\ \A i \in 1 .. Len(l) - (n + 1) + 1 : m[i] = l[(n + 1) + i - 1]
    BY <2>1, <2>2, SubSeqProperties
  <2> HIDE DEF m
  <2> QED BY <1>1, <2>3
<1> HIDE DEF m
<1>3. \A i \in 1 .. Len(m) - 1 : Follows(m[i], m[i + 1])
  <2> SUFFICES ASSUME NEW i \in 1 .. Len(m) - 1 PROVE Follows(m[i], m[i + 1])
    OBVIOUS
  <2>1. m[i] = l[n + i] /\ m[i + 1] = l[(n + i) + 1] /\ n + i \in 1 .. Len(l) - 1
    BY <1>1, <1>2
  <2> QED BY <2>1 DEF Chain
<1>4. m # << >> => Ends(m[Len(m)])
  <2> SUFFICES ASSUME m # << >> PROVE Ends(m[Len(m)])
    OBVIOUS
  <2>1. Len(m) \in Nat /\ Len(m) >= 1
    BY <1>2
  <2>2. m[Len(m)] = l[Len(l)] /\ l # << >>
    BY <1>1, <1>2, <2>1
  <2> QED BY <2>2 DEF Chain
<1>5. Chain(m, vs)
  BY <1>2, <1>3, <1>4 DEF Chain
<1> QED BY <1>2, <1>5

(* ... and what begins on the line gets labels of its own. *)
LEMMA ChainMore ==
  ASSUME NEW vs, NEW vt, vs \subseteq vt, NEW l, Chain(l, vs)
  PROVE  Chain(l, vt)
<1>1. Labels(vs) \subseteq Labels(vt)
  BY DEF Labels
<1> HIDE DEF Labels
<1>2. l \in Seq(Labels(vt))
  BY <1>1 DEF Chain
<1> QED BY <1>2 DEF Chain

LEMMA ChainAnswer ==
  ASSUME NEW vs, NEW l, Chain(l, vs), NEW v \in vs
  PROVE  \E m : /\ Chain(m, vs) /\ Len(m) = Len(l) + Need
                /\ \A i \in 1 .. Len(l) : m[i] = l[i]
                /\ \A k \in 1 .. Need : ByteOf(m[Len(l) + k]) = Answer(v)[k]
<1> DEFINE n == Len(l)
           L == Labels(vs)
           m == [i \in 1 .. n + Need |-> IF i <= n THEN l[i] ELSE <<v, i - n>>]
<1>1. n \in Nat /\ Need \in Nat /\ Need >= 2
  <2>1. Len(Header) \in Nat /\ Len(CRC) \in Nat /\ Need = Len(Header) + 2 + Len(CRC)
    BY ConstantTypes
  <2>2. l \in Seq(Labels(vs))
    BY DEF Chain
  <2>3. n \in Nat
    BY <2>2, LenProperties
  <2>4. Need \in Nat /\ Need >= 2
    BY <2>1
  <2> QED BY <2>3, <2>4
<1>2. ASSUME NEW i \in 1 .. n PROVE l[i] \in L
  BY DEF Chain
<1>3. ASSUME NEW k \in 1 .. Need PROVE <<v, k>> \in L
  BY DEF Labels
<1>4. \A i \in 1 .. n + Need : (IF i <= n THEN l[i] ELSE <<v, i - n>>) \in L
  <2> SUFFICES ASSUME NEW i \in 1 .. n + Need PROVE (IF i <= n THEN l[i] ELSE <<v, i - n>>) \in L
    OBVIOUS
  <2>1. CASE i <= n
    <3>1. i \in 1 .. n
      BY <1>1, <2>1
    <3> QED BY <1>2, <2>1, <3>1
  <2>2. CASE ~(i <= n)
    <3>1. i - n \in 1 .. Need
      BY <1>1, <2>2
    <3> QED BY <1>3, <2>2, <3>1
  <2> QED BY <2>1, <2>2
<1> HIDE DEF n, L
<1>5. m \in Seq(L) /\ Len(m) = n + Need
  BY <1>1, <1>4
<1>6. /\ \A i \in 1 .. n : m[i] = l[i]
      /\ \A k \in 1 .. Need : m[n + k] = <<v, k>>
  BY <1>1
<1> HIDE DEF m
<1>7. ASSUME NEW i \in 1 .. n + Need - 1 PROVE Follows(m[i], m[i + 1])
  <2>1. CASE i < n
    <3>1. m[i] = l[i] /\ m[i + 1] = l[i + 1] /\ i \in 1 .. Len(l) - 1
      BY <1>1, <1>6, <2>1 DEF n
    <3> QED BY <3>1 DEF Chain
  <2>2. CASE i = n
    <3>1. m[n] = l[n] /\ m[n + 1] = <<v, 1>> /\ l # << >>
      BY <1>1, <1>6, <2>2 DEF n
    <3>2. Ends(l[n])
      BY <3>1 DEF Chain, n
    <3> QED BY <2>2, <3>1, <3>2 DEF Follows
  <2>3. CASE i > n
    <3> DEFINE k == i - n
    <3>1. k \in 1 .. Need /\ k + 1 \in 1 .. Need /\ n + k = i /\ n + (k + 1) = i + 1 /\ k < Need
      BY <1>1, <2>3
    <3> HIDE DEF k
    <3>2. m[i] = <<v, k>> /\ m[i + 1] = <<v, k + 1>>
      BY <1>6, <3>1
    <3>3. ~Ends(<<v, k>>)
      BY <1>1, <3>1 DEF Ends
    <3> QED BY <3>2, <3>3 DEF Follows
  <2> QED BY <1>1, <1>7, <2>1, <2>2, <2>3
<1>8. Ends(m[Len(m)])
  <2>1. Need \in 1 .. Need
    BY <1>1
  <2>2. m[n + Need] = <<v, Need>>
    BY <1>6, <2>1
  <2> QED BY <1>5, <2>2 DEF Ends
<1>9. Chain(m, vs)
  <2>1. \A i \in 1 .. Len(m) - 1 : Follows(m[i], m[i + 1])
    <3>1. Len(m) - 1 = n + Need - 1
      BY <1>1, <1>5
    <3>2. \A i \in 1 .. n + Need - 1 : Follows(m[i], m[i + 1])
      BY <1>7
    <3> QED BY <3>1, <3>2
  <2> QED BY <1>5, <1>8, <2>1 DEF Chain, L
<1>10. ASSUME NEW k \in 1 .. Need PROVE ByteOf(m[n + k]) = Answer(v)[k]
  <2>1. m[n + k] = <<v, k>> /\ k # 0
    BY <1>1, <1>6
  <2> QED BY <2>1 DEF ByteOf
<1> QED BY <1>5, <1>6, <1>9, <1>10 DEF n

LEMMA ChainStray ==
  ASSUME NEW vs, NEW l, Chain(l, vs), NEW b \in Stray
  PROVE  \E m : /\ Chain(m, vs) /\ Len(m) = Len(l) + 1
                /\ \A i \in 1 .. Len(l) : m[i] = l[i]
                /\ ByteOf(m[Len(l) + 1]) = b
<1> DEFINE L == Labels(vs)
           x == <<b, 0>>
           m == Append(l, x)
<1>1. l \in Seq(L) /\ Len(l) \in Nat /\ x \in L
  <2>1. l \in Seq(L)
    BY DEF Chain
  <2>2. x \in L
    BY DEF Labels
  <2> QED BY <2>1, <2>2, LenProperties
<1>2. ByteOf(x) = b /\ Ends(x)
  BY DEF ByteOf, Ends
<1>3. ASSUME NEW t, Ends(t) PROVE Follows(t, x)
  BY <1>3 DEF Follows
<1> HIDE DEF L, x
<1>4. m \in Seq(L) /\ Len(m) = Len(l) + 1 /\ (\A i \in 1 .. Len(l) : m[i] = l[i]) /\ m[Len(l) + 1] = x
  BY <1>1, AppendProperties
<1> HIDE DEF m
<1>5. \A i \in 1 .. Len(m) - 1 : Follows(m[i], m[i + 1])
  <2> SUFFICES ASSUME NEW i \in 1 .. Len(l) PROVE Follows(m[i], m[i + 1])
    BY <1>1, <1>4
  <2>1. CASE i < Len(l)
    <3>1. m[i] = l[i] /\ m[i + 1] = l[i + 1] /\ i \in 1 .. Len(l) - 1
      BY <1>1, <1>4, <2>1
    <3> QED BY <3>1 DEF Chain
  <2>2. CASE i = Len(l)
    <3>1. m[i] = l[Len(l)] /\ m[i + 1] = x /\ l # << >>
      BY <1>1, <1>4, <2>2
    <3>2. Ends(l[Len(l)])
      BY <3>1 DEF Chain
    <3> QED BY <1>3, <3>1, <3>2
  <2> QED BY <1>1, <2>1, <2>2
<1>6. Chain(m, vs)
  BY <1>2, <1>4, <1>5 DEF Chain, L
<1> QED BY <1>2, <1>4, <1>6

(***************************************************************************)
(* What is known while every byte was sampled.  The receiver is j bits into*)
(* the first byte of w; the count of bytes available is never above that of*)
(* bytes in the buffer, as a byte added in the middle of available-- is one*)
(* too few and not one too many: the program never reads an empty buffer.  *)
(* While a command goes out, the byte that was coming in passes unseen, and*)
(* the line is free before the command is out, or a byte has been missed.  *)
(***************************************************************************)
Queued(c) ==
  /\ c \in 0 .. BufSize - 1 /\ bufend = Place(bufstart, c)
  /\ available <= c /\ (at = "store" => loaded <= c)

InStep(w, j) ==
  /\ receiving => w # << >> /\ j <= Bits /\ bit_no = j
  /\ ~receiving => w = << >> \/ j = 0 \/ j = Bits + 1
  /\ receiving /\ j < Bits =>
       \A i \in 0 .. Bits - 1 : buffer[bufend][i] = IF i < j THEN w[1][i] ELSE 0

Known(l, w, j, c) ==
  /\ Chain(l, answered) /\ LineOf(line, w, j) /\ Queued(c) /\ InStep(w, j)
  /\ \A i \in 1 .. Len(got) : ByteOf(l[i]) = got[i]
  /\ Stored(buffer, bufstart, l, Len(got), c)
  /\ Coming(l, Len(got) + c, w, Sampled(j))

StreamInv ==
  /\ transmitting => at \in {"wait", "poll", "clear"}
  /\ \A i \in 1 .. Len(got) : i <= Len(Header) => got[i] = Header[i]
  /\ clean /\ transmitting =>
       Len(line) % FrameLen = 0 \/ (Len(line) % FrameLen) + Len(out) <= FrameLen
  /\ clean /\ ~transmitting => \E l, w, j, c : Known(l, w, j, c)

(* Nothing is received, and the line goes on. *)
LEMMA NothingReceived ==
  ASSUME SoftInv, NEW l, NEW w, NEW j, NEW c, Known(l, w, j, c),
         Advance, UNCHANGED port, ~receiving, ~Missed
  PROVE  \E l2, w2, j2, c2 : Known(l2, w2, j2, c2)'
<1>1. /\ line \in Seq({0, 1}) /\ LineOf(line, w, j) /\ got \in Seq(SoftByte)
      /\ UNCHANGED <<answered, at, loaded, got>>
      /\ line' = IF line = << >> THEN << >> ELSE Tail(line)
  BY DEF SoftInv, LineInv, ReaderInv, Known, Advance, reader
<1>2. /\ UNCHANGED <<buffer, bufstart, bufend, receiving, available, bit_no>>
  BY DEF port
<1>3. Len(got) \in Nat /\ c \in Nat
  BY <1>1, LenProperties, ConstantTypes DEF Known, Queued
<1>4. ASSUME NEW w2, NEW j2, LineOf(line', w2, j2), w2 = << >> \/ j2 = 0,
             Coming(l, Len(got) + c, w2, Sampled(j2))
      PROVE  Known(l, w2, j2, c)'
  <2>1. Chain(l, answered)' /\ LineOf(line', w2, j2) /\ Queued(c)'
    BY <1>1, <1>2, <1>4 DEF Known, Queued
  <2>2. InStep(w2, j2)'
    BY <1>2, <1>4 DEF InStep
  <2>3. (\A i \in 1 .. Len(got) : ByteOf(l[i]) = got[i])' /\ Stored(buffer, bufstart, l, Len(got), c)'
    BY <1>1, <1>2 DEF Known
  <2>4. Coming(l, Len(got) + c, w2, Sampled(j2))'
    BY <1>1, <1>4
  <2> QED BY <2>1, <2>2, <2>3, <2>4 DEF Known
<1>5. CASE w = << >>
  <2>1. line = << >> /\ j = 0
    BY <1>1, <1>5, LineEmpty
  <2>2. line' = line
    BY <1>1, <2>1
  <2>3. Known(l, w, j, c)'
    BY <1>1, <1>4, <1>5, <2>2 DEF Known
  <2> QED BY <2>3
<1>6. CASE w # << >>
  <2>1. line # << >>
    BY <1>1, <1>6, LineEmpty
  <2>2. j # 0
    <3>1. ASSUME j = 0 PROVE FALSE
      <4>1. InStartBit
        BY <1>1, <1>6, <2>1, <3>1, LineStarts DEF InStartBit
      <4> QED BY <4>1 DEF Missed
    <3> QED BY <3>1
  <2>3. j = Bits + 1
    BY <1>6, <2>2 DEF Known, InStep
  <2>4. LineOf(line', Tail(w), 0)
    BY <1>1, <1>6, <2>1, <2>3, LineByteEnds
  <2>5. Coming(l, Len(got) + c, Tail(w), Sampled(0))
    <3>1. Coming(l, Len(got) + c, w, 1) /\ Sampled(0) = 0
      BY <2>3, ConstantTypes DEF Known, Sampled
    <3>2. /\ Len(Tail(w)) = Len(w) - 1 /\ Len(w) \in Nat
          /\ \A i \in 1 .. Len(Tail(w)) : Tail(w)[i] = w[i + 1]
      <4>1. w \in Seq(SoftByte)
        BY <1>1 DEF LineOf
      <4> QED BY <1>6, <4>1, HeadTailProperties, LenProperties
    <3> DEFINE n == Len(got) + c
               t == Tail(w)
    <3>3. n \in Nat /\ Len(l) = n + Len(w) - 1 /\ Len(t) = Len(w) - 1
      BY <1>3, <3>1, <3>2 DEF Coming
    <3> HIDE DEF n, t
    <3>4. Len(l) = n + Len(t) - 0
      BY <3>2, <3>3
    <3>5. ASSUME NEW i \in 1 + 0 .. Len(t) PROVE ByteOf(l[n + i - 0]) = t[i]
      <4>1. i + 1 \in 1 + 1 .. Len(w) /\ n + (i + 1) - 1 = n + i - 0
        BY <3>2, <3>3 DEF t
      <4>2. ByteOf(l[n + (i + 1) - 1]) = w[i + 1]
        BY <3>1, <4>1 DEF Coming, n
      <4>3. t[i] = w[i + 1]
        BY <3>2 DEF t
      <4> QED BY <4>1, <4>2, <4>3
    <3>6. Coming(l, n, t, 0)
      BY <3>4, <3>5 DEF Coming
    <3> QED BY <3>1, <3>6 DEF n, t
  <2>6. Known(l, Tail(w), 0, c)'
    BY <1>4, <2>4, <2>5
  <2> QED BY <2>6
<1> QED BY <1>5, <1>6

LEMMA SameFunction ==
  ASSUME NEW S, NEW T, NEW f \in [S -> T], NEW g \in [S -> T], \A x \in S : f[x] = g[x]
  PROVE  f = g
  OBVIOUS

(* A bit of a byte is sampled. *)
LEMMA BitReceived ==
  ASSUME SoftInv, NEW l, NEW w, NEW j, NEW c, Known(l, w, j, c),
         Advance, receiving, SampleBit(Pin(line')), ~Fills,
         UNCHANGED <<bufstart, transmitting, out>>
  PROVE  \E l2, w2, j2, c2 : Known(l2, w2, j2, c2)'
<1>1. /\ line \in Seq({0, 1}) /\ LineOf(line, w, j) /\ got \in Seq(SoftByte)
      /\ UNCHANGED <<answered, at, loaded, got>>
      /\ line' = IF line = << >> THEN << >> ELSE Tail(line)
  BY DEF SoftInv, LineInv, ReaderInv, Known, Advance, reader
<1>2. /\ Bits \in Nat /\ Bits >= 1 /\ BufSize \in Nat /\ BufSize >= 2
  <2>1. Len(Header) \in Nat /\ Len(CRC) \in Nat /\ Need = Len(Header) + 2 + Len(CRC)
        /\ Need < BufSize /\ BufSize \in Nat /\ Bits \in Nat /\ Bits >= 1
    BY ConstantTypes
  <2> QED BY <2>1
<1>3. w # << >> /\ j \in 0 .. Bits /\ bit_no = j
  BY <1>2 DEF Known, InStep, LineOf
<1>4. line # << >> /\ line' = Tail(line)
  BY <1>1, <1>3, LineEmpty
<1>5. LineOf(line', w, j + 1) /\ (j < Bits => Pin(line') = w[1][j])
  BY <1>1, <1>2, <1>3, <1>4, LineGoesOn
<1>6. /\ PortInv /\ ~transmitting /\ buffer \in [0 .. BufSize - 1 -> [0 .. Bits - 1 -> {0, 1}]]
      /\ bufstart \in 0 .. BufSize - 1 /\ available \in Nat
  BY DEF SoftInv, PortInv, SoftByte
<1>7. /\ c \in 0 .. BufSize - 1 /\ bufend = Place(bufstart, c) /\ available <= c
      /\ (at = "store" => loaded <= c) /\ loaded \in Nat /\ Len(got) \in Nat
  BY <1>1, LenProperties DEF Known, Queued, SoftInv, ReaderInv
<1>8. bufend \in 0 .. BufSize - 1
  BY <1>6, <1>7, Places
<1>9. Len(w) \in Nat /\ Len(w) >= 1 /\ w[1] \in [0 .. Bits - 1 -> {0, 1}]
  BY <1>1, <1>3, LineBit DEF SoftByte
<1>10. CASE bit_no = Bits /\ timer' = FALSE /\ receiving' = FALSE
             /\ UNCHANGED <<buffer, bufend, bit_no, available>>
  <2>1. Sampled(j) = 1 /\ Sampled(j + 1) = 1
    BY <1>2, <1>3, <1>10 DEF Sampled
  <2>2. Queued(c)'
    BY <1>1, <1>10 DEF Known, Queued
  <2>3. InStep(w, j + 1)'
    BY <1>3, <1>10 DEF InStep
  <2>4. Known(l, w, j + 1, c)'
    BY <1>1, <1>5, <1>10, <2>1, <2>2, <2>3 DEF Known
  <2> QED BY <2>4
<1>11. CASE /\ bit_no < Bits
            /\ buffer' = [buffer EXCEPT ![bufend][bit_no] = IF Pin(line') = 1 THEN 1 ELSE @]
            /\ bit_no' = bit_no + 1
            /\ \/ bit_no' = Bits /\ ByteDone
               \/ bit_no' < Bits /\ UNCHANGED <<bufend, available>>
            /\ UNCHANGED <<timer, receiving>>
  <2>1. j \in 0 .. Bits - 1 /\ Sampled(j) = 0 /\ w[1][j] \in {0, 1}
    BY <1>2, <1>3, <1>9, <1>11 DEF Sampled
  <2>2. \A i \in 0 .. Bits - 1 : buffer[bufend][i] = IF i < j THEN w[1][i] ELSE 0
    BY <1>3, <1>11 DEF Known, InStep
  <2>3. \A i \in 0 .. Bits - 1 : buffer'[bufend][i] = IF i < j + 1 THEN w[1][i] ELSE 0
    <3> SUFFICES ASSUME NEW i \in 0 .. Bits - 1
                 PROVE  buffer'[bufend][i] = IF i < j + 1 THEN w[1][i] ELSE 0
      OBVIOUS
    <3>1. buffer'[bufend] = [buffer[bufend] EXCEPT ![j] = IF Pin(line') = 1 THEN 1 ELSE @]
      BY <1>3, <1>6, <1>8, <1>11
    <3>2. buffer[bufend] \in [0 .. Bits - 1 -> {0, 1}]
      BY <1>6, <1>8
    <3>3. CASE i = j
      <4>1. buffer'[bufend][j] = IF Pin(line') = 1 THEN 1 ELSE buffer[bufend][j]
        BY <2>1, <3>1, <3>2
      <4>2. buffer[bufend][j] = 0
        BY <2>1, <2>2
      <4> QED BY <1>3, <1>5, <1>11, <2>1, <3>3, <4>1, <4>2
    <3>4. CASE i # j
      <4>1. buffer'[bufend][i] = buffer[bufend][i]
        BY <3>1, <3>2, <3>4
      <4>2. (i < j) <=> (i < j + 1)
        BY <2>1, <3>4
      <4> QED BY <2>2, <4>1, <4>2
    <3> QED BY <3>3, <3>4
  <2>4. \A i \in 0 .. c - 1 : ByteOf(l[Len(got) + 1 + i]) = buffer'[Place(bufstart, i)]
    <3> SUFFICES ASSUME NEW i \in 0 .. c - 1
                 PROVE  ByteOf(l[Len(got) + 1 + i]) = buffer'[Place(bufstart, i)]
      OBVIOUS
    <3>1. Place(bufstart, i) \in 0 .. BufSize - 1 /\ Place(bufstart, i) # bufend
      BY <1>6, <1>7, PlaceApart
    <3>2. buffer'[Place(bufstart, i)] = buffer[Place(bufstart, i)]
      BY <1>6, <1>8, <1>11, <3>1
    <3> QED BY <3>2 DEF Known, Stored
  <2>5. CASE bit_no' < Bits /\ UNCHANGED <<bufend, available>>
    <3>1. Sampled(j + 1) = 0 /\ j + 1 < Bits
      BY <1>3, <1>11, <2>5 DEF Sampled
    <3>2. Queued(c)'
      BY <1>1, <1>7, <2>5 DEF Queued
    <3>3. InStep(w, j + 1)'
      <4>1. receiving' /\ w # << >> /\ bit_no' = j + 1 /\ bufend' = bufend /\ j + 1 <= Bits
        BY <1>2, <1>3, <1>11, <2>5, <3>1
      <4>2. \A i \in 0 .. Bits - 1 : buffer'[bufend'][i] = IF i < j + 1 THEN w[1][i] ELSE 0
        BY <2>3, <4>1
      <4> QED BY <4>1, <4>2 DEF InStep
    <3>4. Stored(buffer, bufstart, l, Len(got), c)'
      BY <1>1, <2>4 DEF Stored
    <3>5. Coming(l, Len(got) + c, w, Sampled(j + 1))'
      BY <1>1, <2>1, <3>1 DEF Known
    <3>6. Known(l, w, j + 1, c)'
      BY <1>1, <1>5, <3>2, <3>3, <3>4, <3>5 DEF Known
    <3> QED BY <3>6
  <2>6. CASE bit_no' = Bits /\ ByteDone
    <3>1. j + 1 = Bits /\ Sampled(j + 1) = 1
      BY <1>2, <1>3, <1>11, <2>6 DEF Sampled
    <3>2. bufend' = (bufend + 1) % BufSize /\ available' = available + 1
      BY <2>6 DEF ByteDone
    <3>3. bufend' # bufend
      BY <1>2, <1>8, <3>2, Wrap
    <3>4. bufend' # bufstart
      BY <3>3 DEF Fills
    <3>5. c + 1 \in 0 .. BufSize - 1 /\ bufend' = Place(bufstart, c + 1)
      <4>1. c # BufSize - 1
        BY <1>6, <1>7, <3>2, <3>4, Places
      <4>2. c < BufSize - 1 /\ c + 1 \in 0 .. BufSize - 1
        BY <1>2, <1>7, <4>1
      <4> QED BY <1>6, <1>7, <3>2, <4>2, Places
    <3>6. Queued(c + 1)'
      <4>1. available' <= c + 1 /\ (at' = "store" => loaded' <= c + 1)
        BY <1>1, <1>6, <1>7, <3>2
      <4> QED BY <3>5, <4>1 DEF Queued
    <3>7. InStep(w, j + 1)'
      BY <1>2, <1>3, <1>11, <3>1 DEF InStep
    <3>8. buffer'[bufend] = w[1]
      <4> DEFINE f == buffer'[bufend]
      <4>1. f \in [0 .. Bits - 1 -> {0, 1}]
        BY <1>6, <1>8, <1>11
      <4>2. ASSUME NEW i \in 0 .. Bits - 1 PROVE f[i] = w[1][i]
        <5>1. i < j + 1
          BY <1>2, <3>1
        <5> QED BY <2>3, <5>1
      <4> DEFINE g == w[1]
                 S == 0 .. Bits - 1
                 T == {0, 1}
      <4>3. f \in [S -> T] /\ g \in [S -> T] /\ \A i \in S : f[i] = g[i]
        BY <1>9, <4>1, <4>2
      <4> HIDE DEF f, g, S, T
      <4>4. f = g
        BY <4>3, SameFunction
      <4> QED BY <4>4 DEF f, g
    <3> DEFINE n == Len(got) + c
    <3>9. n \in Nat /\ Coming(l, n, w, 0)
      BY <1>7, <2>1 DEF Known
    <3>10. Stored(buffer, bufstart, l, Len(got), c + 1)'
      <4>1. ByteOf(l[n + 1 - 0]) = w[1]
        <5>1. 1 \in 1 + 0 .. Len(w)
          BY <1>9
        <5> QED BY <3>9, <5>1 DEF Coming
      <4>2. ByteOf(l[Len(got) + 1 + c]) = buffer'[Place(bufstart, c)]
        <5>1. n + 1 - 0 = Len(got) + 1 + c
          BY <1>7
        <5> QED BY <1>7, <3>8, <4>1, <5>1
      <4>3. \A i \in 0 .. (c + 1) - 1 : ByteOf(l[Len(got) + 1 + i]) = buffer'[Place(bufstart, i)]
        BY <1>7, <2>4, <4>2
      <4> QED BY <1>1, <4>3 DEF Stored
    <3>11. Coming(l, n + 1, w, 1)
      <4> HIDE DEF n
      <4>1. Len(l) = n + Len(w) - 0
        BY <3>9 DEF Coming
      <4>2. Len(l) = (n + 1) + Len(w) - 1
        BY <1>9, <3>9, <4>1
      <4>3. ASSUME NEW i \in 1 + 1 .. Len(w) PROVE ByteOf(l[(n + 1) + i - 1]) = w[i]
        <5>1. i \in 1 + 0 .. Len(w) /\ (n + 1) + i - 1 = n + i - 0
          BY <1>9, <3>9
        <5> QED BY <3>9, <5>1 DEF Coming
      <4> QED BY <4>2, <4>3 DEF Coming
    <3>12. Coming(l, Len(got) + (c + 1), w, Sampled(j + 1))'
      <4>1. n + 1 = Len(got) + (c + 1)
        BY <1>7
      <4> QED BY <1>1, <3>1, <3>11, <4>1
    <3>13. Known(l, w, j + 1, c + 1)'
      BY <1>1, <1>5, <3>6, <3>7, <3>10, <3>12 DEF Known
    <3> QED BY <3>13
  <2> QED BY <1>11, <2>5, <2>6
<1> QED BY <1>10, <1>11 DEF SampleBit

(* What is coming in when a command begins has passed before it is out. *)
LEMMA LineFreed ==
  ASSUME SoftInv, SendInv, transmitting, SendBit, UNCHANGED <<buffer, receiving>>, Advance,
         ~Missed, Len(line) % FrameLen = 0 \/ (Len(line) % FrameLen) + Len(out) <= FrameLen
  PROVE  /\ transmitting' => \/ Len(line') % FrameLen = 0
                             \/ (Len(line') % FrameLen) + Len(out') <= FrameLen
         /\ ~transmitting' => line' = << >>
<1>1. /\ line \in Seq({0, 1}) /\ out \in Seq({0, 1}) /\ ~receiving /\ bit_no \in Nat
      /\ bufstart \in Nat /\ bufend = Len(READCMD) /\ bufstart < bufend
      /\ line' = IF line = << >> THEN << >> ELSE Tail(line)
  BY ConstantTypes DEF SoftInv, PortInv, LineInv, Advance
<1>2. /\ FrameLen \in Nat /\ FrameLen >= 1 /\ FrameLen = Bits + 2 /\ Bits \in Nat
      /\ Len(READCMD) \in Nat /\ Len(READCMD) >= 1
  BY ConstantTypes
<1>3. Len(out) = bufstart * FrameLen + bit_no + 1
  BY DEF SendInv
<1>4. ~InStartBit
  BY <1>1 DEF Missed
<1>5. transmitting' => Len(out') = Len(out) + 1
  <2>1. ASSUME NEW x, out' = Append(out, x) PROVE Len(out') = Len(out) + 1
    <3> HIDE DEF FrameLen
    <3> QED BY <1>1, <2>1
  <2>2. \/ out' = Append(out, 1) \/ out' = Append(out, 0) \/ out' = Append(out, buffer[bufstart][bit_no])
        \/ transmitting' = FALSE
    BY DEF SendBit
  <2> QED BY <2>1, <2>2
<1>6. ~transmitting' => Len(out) >= FrameLen
  <2> SUFFICES ASSUME ~transmitting' PROVE Len(out) >= FrameLen
    OBVIOUS
  <2>1. bit_no = Bits + 1
    BY DEF SendBit
  <2>2. bufstart * FrameLen \in Nat
    BY <1>1, <1>2
  <2> QED BY <1>2, <1>3, <2>1, <2>2
<1> HIDE DEF FrameLen
<1>7. CASE line = << >>
  <2>1. line' = << >> /\ Len(line') = 0
    BY <1>1, <1>7
  <2>2. 0 % FrameLen = 0
    BY <1>2
  <2> QED BY <2>1, <2>2
<1>8. CASE line # << >>
  <2> DEFINE r == Len(line) % FrameLen
             q == Len(line) \div FrameLen
             n == Len(line)
             k == Len(out)
  <2>1. n \in Nat /\ k \in Nat /\ r \in 0 .. FrameLen - 1 /\ q \in Int /\ n = FrameLen * q + r
    <3>1. n \in Nat /\ k \in Nat
      BY <1>1, LenProperties
    <3> HIDE DEF n, k
    <3>2. n % FrameLen \in 0 .. FrameLen - 1 /\ n \div FrameLen \in Int
          /\ n = FrameLen * (n \div FrameLen) + (n % FrameLen)
      BY <1>2, <3>1
    <3> QED BY <3>1, <3>2 DEF n
  <2>2. r # 0
    BY <1>4, <1>8 DEF InStartBit
  <2>3. r + k <= FrameLen
    BY <2>2
  <2>4. Len(line') = n - 1
    BY <1>1, <1>8, HeadTailProperties
  <2> HIDE DEF r, q, n, k
  <2>5. (n - 1) % FrameLen = r - 1
    <3> DEFINE p == r - 1
    <3>1. p \in 0 .. FrameLen - 1
      BY <1>2, <2>1, <2>2
    <3>2. q * FrameLen \in Int /\ FrameLen * q = q * FrameLen
      BY <1>2, <2>1
    <3>3. n - 1 = q * FrameLen + p
      BY <1>2, <2>1, <3>2
    <3> HIDE DEF p
    <3>4. (q * FrameLen + p) % FrameLen = p
      BY <1>2, <2>1, <3>1, Quotient
    <3> QED BY <3>3, <3>4 DEF p
  <2>6. ASSUME transmitting' PROVE (Len(line') % FrameLen) + Len(out') <= FrameLen
    <3>1. Len(line') % FrameLen = r - 1 /\ Len(out') = k + 1
      BY <1>5, <2>4, <2>5, <2>6 DEF k
    <3>2. (r - 1) + (k + 1) <= FrameLen
      BY <1>2, <2>1, <2>3
    <3> QED BY <3>1, <3>2
  <2>7. ASSUME ~transmitting' PROVE FALSE
    <3>1. k >= FrameLen
      BY <1>6, <2>7 DEF k
    <3> QED BY <1>2, <2>1, <2>2, <2>3, <3>1
  <2> QED BY <2>6, <2>7
<1> QED BY <1>7, <1>8

(* Nothing has come in yet: a command has gone out. *)
LEMMA NothingKnown ==
  ASSUME line' = << >>, got' = << >>, ~receiving', bufstart' = 0, bufend' = 0, available' = 0,
         at' # "store"
  PROVE  (\E l, w, j, c : Known(l, w, j, c))'
<1>1. /\ Bits \in Nat /\ Bits >= 1 /\ BufSize \in Nat /\ BufSize >= 1 /\ FrameLen \in Nat
  BY ConstantTypes
<1>2. Chain(<< >>, answered')
  BY DEF Chain
<1>3. LineOf(line', << >>, 0)
  <2>1. Len(line') = Len(<< >>) * FrameLen - 0 /\ Len(<< >>) = 0
    BY <1>1
  <2>2. << >> \in Seq(SoftByte) /\ 0 \in 0 .. Bits + 1
    BY <1>1
  <2> QED BY <2>1, <2>2 DEF LineOf
<1>4. Queued(0)'
  BY <1>1 DEF Queued, Place
<1>5. InStep(<< >>, 0)'
  BY DEF InStep
<1>6. Stored(buffer', bufstart', << >>, Len(got'), 0)
  BY DEF Stored
<1>7. Sampled(0) = 0 /\ Coming(<< >>, 0, << >>, 0) /\ Len(got') = 0 /\ 0 + 0 = 0
  BY <1>1 DEF Sampled, Coming
<1>8. Coming(<< >>, Len(got') + 0, << >>, Sampled(0))
  BY <1>7
<1>9. Known(<< >>, << >>, 0, 0)'
  BY <1>2, <1>3, <1>4, <1>5, <1>6, <1>7, <1>8 DEF Known
<1> QED BY <1>9

LEMMA BitTimeStream ==
  ASSUME SoftInv, SendInv, StreamInv, BitTime
  PROVE  StreamInv'
<1>1. /\ Advance /\ Timer(Pin(line')) /\ (clean' => clean /\ ~Missed /\ ~Fills)
      /\ UNCHANGED <<at, got>> /\ (transmitting' => transmitting)
      /\ timer = (transmitting \/ receiving) /\ (transmitting => ~receiving)
  BY TimerPort DEF BitTime, Advance, reader, SoftInv, PortInv
<1>2. (transmitting => at \in {"wait", "poll", "clear"})'
      /\ (\A i \in 1 .. Len(got) : i <= Len(Header) => got[i] = Header[i])'
  BY <1>1 DEF StreamInv
<1>3. CASE transmitting
  <2>1. SendBit /\ UNCHANGED <<buffer, receiving>>
    BY <1>1, <1>3 DEF Timer
  <2>2. at \in {"wait", "poll", "clear"} /\ got = << >>
    BY <1>3 DEF StreamInv, SoftInv, ReaderInv
  <2>3. ASSUME clean'
        PROVE  /\ transmitting' => \/ Len(line') % FrameLen = 0
                                   \/ (Len(line') % FrameLen) + Len(out') <= FrameLen
               /\ ~transmitting' => line' = << >>
    <3>1. Len(line) % FrameLen = 0 \/ (Len(line) % FrameLen) + Len(out) <= FrameLen
      BY <1>1, <1>3, <2>3 DEF StreamInv
    <3> QED BY <1>1, <1>3, <2>1, <2>3, <3>1, LineFreed
  <2>4. ASSUME clean', ~transmitting' PROVE (\E l, w, j, c : Known(l, w, j, c))'
    <3>1. line' = << >> /\ got' = << >> /\ at' # "store"
      BY <1>1, <2>2, <2>3, <2>4
    <3>2. bufstart' = 0 /\ bufend' = 0 /\ available' = 0 /\ ~receiving'
      BY <1>1, <1>3, <2>1, <2>4 DEF SendBit
    <3> QED BY <3>1, <3>2, NothingKnown
  <2> QED BY <1>2, <2>3, <2>4 DEF StreamInv
<1>4. CASE ~transmitting
  <2>1. ASSUME clean' PROVE (\E l, w, j, c : Known(l, w, j, c))'
    <3>1. PICK l, w, j, c : Known(l, w, j, c)
      BY <1>1, <1>4, <2>1 DEF StreamInv
    <3>2. CASE receiving
      <4>1. SampleBit(Pin(line')) /\ UNCHANGED <<bufstart, transmitting, out>>
        BY <1>1, <1>4, <3>2 DEF Timer
      <4> QED BY <1>1, <2>1, <3>1, <3>2, <4>1, BitReceived
    <3>3. CASE ~receiving
      <4>1. UNCHANGED port
        BY <1>1, <1>4, <3>3 DEF Timer
      <4> QED BY <1>1, <2>1, <3>1, <3>3, <4>1, NothingReceived
    <3> QED BY <3>2, <3>3
  <2> QED BY <1>1, <1>2, <1>4, <2>1 DEF StreamInv
<1> QED BY <1>3, <1>4

LEMMA AsleepStream ==
  ASSUME SoftInv, StreamInv, BitTimeAsleep
  PROVE  StreamInv'
<1>1. /\ Advance /\ (clean' => clean /\ ~Missed /\ ~receiving)
      /\ UNCHANGED port /\ UNCHANGED <<at, got, transmitting>> /\ at = "idle"
  BY DEF BitTimeAsleep, Advance, reader, port
<1>2. ~transmitting
  BY <1>1 DEF StreamInv
<1>3. ASSUME clean' PROVE (\E l, w, j, c : Known(l, w, j, c))'
  <2>1. PICK l, w, j, c : Known(l, w, j, c)
    BY <1>1, <1>2, <1>3 DEF StreamInv
  <2> QED BY <1>1, <1>3, <2>1, NothingReceived
<1> QED BY <1>1, <1>2, <1>3 DEF StreamInv

(* Nothing of what is known changes. *)
LEMMA StillKnown ==
  ASSUME NEW l, NEW w, NEW j, NEW c, Known(l, w, j, c),
         UNCHANGED <<buffer, bufstart, bufend, available, receiving, bit_no, line, answered, got>>,
         at' = "store" => loaded' <= c
  PROVE  Known(l, w, j, c)'
<1>1. Queued(c)'
  BY DEF Known, Queued
<1>2. InStep(w, j)'
  BY DEF Known, InStep
<1> QED BY <1>1, <1>2 DEF Known

(* A byte begins, and is seen to: its bits are cleared, outside of those   *)
(* that hold bytes.                                                        *)
LEMMA PollStream ==
  ASSUME SoftInv, StreamInv, Poll
  PROVE  StreamInv'
<1>1. /\ UNCHANGED <<bufstart, bufend, transmitting, available, out, line, answered, loaded, got, clean>>
      /\ at \in {"idle", "poll"} /\ at' = IF at = "idle" THEN "idle clear" ELSE "clear"
  BY DEF Poll, sensor
<1>2. transmitting => at' = "clear"
  BY <1>1 DEF StreamInv
<1>3. ASSUME clean', ~transmitting' PROVE (\E l, w, j, c : Known(l, w, j, c))'
  <2>1. PICK l, w, j, c : Known(l, w, j, c)
    BY <1>1, <1>3 DEF StreamInv
  <2>2. CASE UNCHANGED <<receiving, timer, bit_no, buffer>>
    <3>1. at' # "store"
      BY <1>1
    <3>2. Known(l, w, j, c)'
      BY <1>1, <2>1, <2>2, <3>1, StillKnown
    <3> QED BY <3>2
  <2>3. CASE /\ ~transmitting /\ ~receiving /\ Pin(line) = 0
             /\ receiving' = TRUE /\ timer' = TRUE /\ bit_no' = 0
             /\ buffer' = [buffer EXCEPT ![bufend] = Zeros]
    <3>1. /\ buffer \in [0 .. BufSize - 1 -> SoftByte] /\ bufstart \in 0 .. BufSize - 1
          /\ c \in 0 .. BufSize - 1 /\ bufend = Place(bufstart, c)
          /\ line \in Seq({0, 1}) /\ LineOf(line, w, j)
      BY <2>1 DEF SoftInv, PortInv, LineInv, Known, Queued
    <3>2. w # << >>
      <4>1. line # << >>
        BY <2>3 DEF Pin
      <4> QED BY <3>1, <4>1, LineEmpty
    <3>3. j = 0
      <4>1. j = 0 \/ j = Bits + 1
        BY <2>1, <2>3, <3>2 DEF Known, InStep
      <4> QED BY <2>3, <3>1, <3>2, <4>1, LineStarts
    <3>4. bufend \in 0 .. BufSize - 1
      BY <3>1, Places
    <3>5. \A i \in 0 .. c - 1 : buffer'[Place(bufstart, i)] = buffer[Place(bufstart, i)]
      <4> SUFFICES ASSUME NEW i \in 0 .. c - 1
                   PROVE  buffer'[Place(bufstart, i)] = buffer[Place(bufstart, i)]
        OBVIOUS
      <4>1. Place(bufstart, i) \in 0 .. BufSize - 1 /\ Place(bufstart, i) # bufend
        BY <3>1, PlaceApart
      <4> QED BY <2>3, <3>1, <3>4, <4>1
    <3>6. InStep(w, j)'
      <4>1. buffer'[bufend] = Zeros /\ bufend' = bufend
        BY <1>1, <2>3, <3>1, <3>4
      <4>2. \A i \in 0 .. Bits - 1 : buffer'[bufend'][i] = IF i < 0 THEN w[1][i] ELSE 0
        <5> SUFFICES ASSUME NEW i \in 0 .. Bits - 1
                     PROVE  buffer'[bufend'][i] = IF i < 0 THEN w[1][i] ELSE 0
          OBVIOUS
        <5>1. Zeros[i] = 0 /\ ~(i < 0)
          BY ConstantTypes DEF Zeros
        <5> QED BY <4>1, <5>1
      <4>3. 0 <= Bits
        BY ConstantTypes
      <4> QED BY <2>3, <3>2, <3>3, <4>2, <4>3 DEF InStep
    <3>7. Queued(c)'
      BY <1>1, <2>1 DEF Known, Queued
    <3>8. Stored(buffer, bufstart, l, Len(got), c)'
      BY <1>1, <2>1, <3>5 DEF Known, Stored
    <3>9. Known(l, w, j, c)'
      BY <1>1, <2>1, <3>6, <3>7, <3>8 DEF Known
    <3> QED BY <3>9
  <2> QED BY <2>2, <2>3 DEF Poll
<1> QED BY <1>1, <1>2, <1>3 DEF StreamInv

(* What has been read so far begins with the header. *)
LEMMA TakeHead ==
  ASSUME SoftInv, StreamInv, at \in {"read", "store"}, NEW b \in SoftByte, Take(b)
  PROVE  /\ \A i \in 1 .. Len(got') : i <= Len(Header) => got'[i] = Header[i]
         /\ got' = << >> \/ got' = Append(got, b)
         /\ at' # "store"
<1>1. got \in Seq(SoftByte) /\ Len(got) \in Nat /\ Len(Header) \in Nat
  BY ConstantTypes, LenProperties DEF SoftInv, ReaderInv
<1>2. CASE at' = "poll" /\ got' = << >>
  BY <1>2
<1>3. CASE /\ Len(got) + 1 <= Len(Header) => b = Header[Len(got) + 1]
           /\ at' = IF Len(got) + 1 = Len(Header) + 2 THEN "idle" ELSE "read"
           /\ got' = Append(got, b)
  <2>1. /\ Len(got') = Len(got) + 1 /\ got'[Len(got) + 1] = b
        /\ \A i \in 1 .. Len(got) : got'[i] = got[i]
    BY <1>1, <1>3, AppendProperties
  <2>2. ASSUME NEW i \in 1 .. Len(got'), i <= Len(Header) PROVE got'[i] = Header[i]
    <3>1. CASE i = Len(got) + 1
      BY <1>3, <2>1, <2>2, <3>1
    <3>2. CASE i # Len(got) + 1
      <4>1. i \in 1 .. Len(got)
        BY <1>1, <2>1, <3>2
      <4> QED BY <2>1, <2>2, <4>1 DEF StreamInv
    <3> QED BY <3>1, <3>2
  <2> QED BY <1>3, <2>2
<1> QED BY <1>2, <1>3 DEF Take

(* While every byte was sampled, the buffer has the bytes the count says. *)
LEMMA LoadStream ==
  ASSUME SoftInv, StreamInv, Load
  PROVE  StreamInv'
<1>1. /\ UNCHANGED <<port, line, answered, clean>> /\ at = "read"
      /\ \/ bufstart = bufend /\ Take(Ones) /\ UNCHANGED loaded
         \/ bufstart # bufend /\ at' = "store" /\ loaded' = available /\ UNCHANGED got
  BY DEF Load, sensor
<1>2. UNCHANGED <<buffer, bufstart, bufend, transmitting, available, receiving, bit_no, out>>
  BY <1>1 DEF port
<1>3. ~transmitting /\ available >= Need - Len(got) /\ Len(got) <= Len(Header) + 1
  BY <1>1 DEF SoftInv, ReaderInv
<1>4. \A i \in 1 .. Len(got') : i <= Len(Header) => got'[i] = Header[i]
  <2>1. CASE Take(Ones)
    BY <1>1, <2>1, ByteTypes, TakeHead
  <2>2. CASE UNCHANGED got
    BY <2>2 DEF StreamInv
  <2> QED BY <1>1, <2>1, <2>2
<1>5. ASSUME clean' PROVE (\E l, w, j, c : Known(l, w, j, c))'
  <2>1. PICK l, w, j, c : Known(l, w, j, c)
    BY <1>1, <1>3, <1>5 DEF StreamInv
  <2>2. c \in 0 .. BufSize - 1 /\ bufend = Place(bufstart, c) /\ available <= c
        /\ bufstart \in 0 .. BufSize - 1 /\ available \in Nat
    BY <2>1 DEF Known, Queued, SoftInv, PortInv
  <2>3. c # 0
    <3>1. Len(got) \in Nat
      BY LenProperties DEF SoftInv, ReaderInv
    <3>2. Len(Header) \in Nat /\ Len(CRC) \in Nat /\ Need = Len(Header) + 2 + Len(CRC)
      BY ConstantTypes
    <3>3. available >= 1
      BY <1>3, <2>2, <3>1, <3>2
    <3> QED BY <2>2, <3>3
  <2>4. bufend # bufstart
    BY <2>2, <2>3, Places
  <2>5. at' = "store" /\ loaded' <= c /\ UNCHANGED got
    BY <1>1, <2>2, <2>4
  <2>6. Known(l, w, j, c)'
    BY <1>1, <1>2, <2>1, <2>5, StillKnown
  <2> QED BY <2>6
<1> QED BY <1>1, <1>2, <1>3, <1>4, <1>5 DEF StreamInv

(* What was read of an attempt is given up: its labels are forgotten. *)
LEMMA KnownAfterDrop ==
  ASSUME NEW l, NEW vs, Chain(l, vs), NEW n \in Nat, NEW c \in Nat, NEW w, NEW d \in {0, 1},
         NEW b, NEW s, Stored(b, s, l, n, c), Coming(l, n + c, w, d), Len(w) \in Nat, Len(w) >= d
  PROVE  \E m : Chain(m, vs) /\ Stored(b, s, m, 0, c) /\ Coming(m, 0 + c, w, d)
<1>1. Len(l) = (n + c) + Len(w) - d
  BY DEF Coming
<1>2. n \in 0 .. Len(l)
  BY <1>1
<1>3. PICK m : /\ Chain(m, vs) /\ Len(m) = Len(l) - n
               /\ \A i \in 1 .. Len(l) - n : m[i] = l[n + i]
  BY <1>2, ChainDrop
<1>4. ASSUME NEW i \in 0 .. c - 1 PROVE ByteOf(m[0 + 1 + i]) = b[Place(s, i)]
  <2>1. 0 + 1 + i \in 1 .. Len(l) - n /\ n + (0 + 1 + i) = n + 1 + i
    BY <1>1
  <2>2. m[0 + 1 + i] = l[n + 1 + i]
    BY <1>3, <2>1
  <2> QED BY <2>2 DEF Stored
<1>5. ASSUME NEW i \in 1 + d .. Len(w) PROVE ByteOf(m[(0 + c) + i - d]) = w[i]
  <2>1. (0 + c) + i - d \in 1 .. Len(l) - n /\ n + ((0 + c) + i - d) = (n + c) + i - d
    BY <1>1
  <2>2. m[(0 + c) + i - d] = l[(n + c) + i - d]
    BY <1>3, <2>1
  <2> QED BY <2>2 DEF Coming
<1>6. Len(m) = (0 + c) + Len(w) - d
  BY <1>1, <1>3
<1> QED BY <1>3, <1>4, <1>5, <1>6 DEF Stored, Coming

LEMMA SampledOfW ==
  ASSUME SoftInv, NEW l, NEW w, NEW j, NEW c, Known(l, w, j, c)
  PROVE  /\ Sampled(j) \in {0, 1} /\ Len(w) \in Nat /\ Len(w) >= Sampled(j)
         /\ c \in Nat /\ Len(got) \in Nat
<1>1. LineOf(line, w, j) /\ line \in Seq({0, 1}) /\ c \in Nat /\ Len(got) \in Nat
  <2>1. LineOf(line, w, j) /\ line \in Seq({0, 1}) /\ c \in 0 .. BufSize - 1 /\ got \in Seq(SoftByte)
    BY DEF Known, Queued, SoftInv, LineInv, ReaderInv
  <2>2. BufSize \in Nat /\ Len(got) \in Nat
    BY <2>1, LenProperties, ConstantTypes
  <2> QED BY <2>1, <2>2
<1>2. Len(w) \in Nat /\ Sampled(j) \in {0, 1}
  BY <1>1 DEF LineOf, Sampled
<1>3. CASE w = << >>
  <2>1. j = 0
    BY <1>1, <1>3, LineEmpty
  <2>2. Sampled(j) = 0
    BY <2>1, ConstantTypes DEF Sampled
  <2> QED BY <1>1, <1>2, <2>2
<1>4. CASE w # << >>
  <2>1. Len(w) >= 1
    BY <1>1, <1>4, LineBit
  <2> QED BY <1>1, <1>2, <2>1
<1> QED BY <1>3, <1>4

(* A byte is taken out of the buffer. *)
LEMMA StoreStream ==
  ASSUME SoftInv, StreamInv, Store
  PROVE  StreamInv'
<1>1. /\ at = "store" /\ available' = loaded - 1 /\ bufstart' = (bufstart + 1) % BufSize
      /\ Take(buffer[bufstart])
      /\ UNCHANGED <<buffer, bufend, transmitting, receiving, bit_no, out, line, answered, clean>>
  BY DEF Store, sensor
<1>2. /\ ~transmitting /\ loaded >= Need - Len(got) /\ Len(got) <= Len(Header) + 1
      /\ loaded \in Nat /\ bufstart \in 0 .. BufSize - 1 /\ buffer[bufstart] \in SoftByte
      /\ got \in Seq(SoftByte)
  BY <1>1 DEF SoftInv, ReaderInv, PortInv
<1>3. /\ \A i \in 1 .. Len(got') : i <= Len(Header) => got'[i] = Header[i]
      /\ got' = << >> \/ got' = Append(got, buffer[bufstart])
      /\ at' # "store"
  BY <1>1, <1>2, TakeHead
<1>4. ASSUME clean' PROVE (\E l, w, j, c : Known(l, w, j, c))'
  <2>1. PICK l, w, j, c : Known(l, w, j, c)
    BY <1>1, <1>2, <1>4 DEF StreamInv
  <2>2. c \in 0 .. BufSize - 1 /\ bufend = Place(bufstart, c) /\ loaded <= c
    BY <1>1, <2>1 DEF Known, Queued
  <2>3. /\ Sampled(j) \in {0, 1} /\ Len(w) \in Nat /\ Len(w) >= Sampled(j)
        /\ c \in Nat /\ Len(got) \in Nat
    BY <2>1, SampledOfW
  <2>4. c >= 1
    <3>1. Len(Header) \in Nat /\ Len(CRC) \in Nat /\ Need = Len(Header) + 2 + Len(CRC)
      BY ConstantTypes
    <3>2. loaded >= 1
      BY <1>2, <2>3, <3>1
    <3> QED BY <1>2, <2>2, <2>3, <3>2
  <2>5. Queued(c - 1)'
    <3>1. bufend = Place(bufstart', c - 1)
      BY <1>1, <1>2, <2>2, <2>4, Places
    <3>2. c - 1 \in 0 .. BufSize - 1
      BY <2>2, <2>3, <2>4, ConstantTypes
    <3>3. available' <= c - 1
      BY <1>1, <1>2, <2>2, <2>3
    <3> QED BY <1>1, <1>3, <3>1, <3>2, <3>3 DEF Queued
  <2>6. LineOf(line', w, j) /\ Chain(l, answered') /\ InStep(w, j)'
    BY <1>1, <2>1 DEF Known, InStep
  <2> DEFINE n == Len(got)
             d == Sampled(j)
  <2>7. ByteOf(l[n + 1]) = buffer[bufstart]
    <3>1. 0 \in 0 .. c - 1 /\ n + 1 + 0 = n + 1
      BY <2>3, <2>4
    <3>2. ByteOf(l[n + 1 + 0]) = buffer[Place(bufstart, 0)]
      BY <2>1, <3>1 DEF Known, Stored
    <3> QED BY <1>2, <2>2, <3>1, <3>2, Places
  <2>8. Stored(buffer', bufstart', l, n + 1, c - 1)
    <3> SUFFICES ASSUME NEW i \in 0 .. (c - 1) - 1
                 PROVE  ByteOf(l[(n + 1) + 1 + i]) = buffer[Place(bufstart', i)]
      BY <1>1 DEF Stored
    <3>1. i + 1 \in 0 .. c - 1 /\ i \in 0 .. c - 1 /\ (n + 1) + 1 + i = n + 1 + (i + 1)
      BY <2>3
    <3>2. ByteOf(l[n + 1 + (i + 1)]) = buffer[Place(bufstart, i + 1)]
      BY <2>1, <3>1 DEF Known, Stored
    <3>3. Place(bufstart', i) = Place(bufstart, i + 1)
      BY <1>1, <1>2, <2>2, <3>1, Places
    <3> QED BY <3>1, <3>2, <3>3
  <2>9. Coming(l, (n + 1) + (c - 1), w, d)
    <3>1. (n + 1) + (c - 1) = n + c
      BY <2>3
    <3> QED BY <2>1, <3>1 DEF Known
  <2>10. CASE got' = Append(got, buffer[bufstart])
    <3>1. /\ Len(got') = n + 1 /\ got'[n + 1] = buffer[bufstart]
          /\ \A i \in 1 .. n : got'[i] = got[i]
      BY <1>2, <2>10, AppendProperties
    <3>2. \A i \in 1 .. Len(got') : ByteOf(l[i]) = got'[i]
      <4> SUFFICES ASSUME NEW i \in 1 .. n + 1 PROVE ByteOf(l[i]) = got'[i]
        BY <3>1
      <4>1. i = n + 1 \/ i \in 1 .. n
        BY <2>3
      <4> QED BY <2>1, <2>7, <3>1, <4>1 DEF Known
    <3>3. Known(l, w, j, c - 1)'
      BY <1>1, <2>5, <2>6, <2>8, <2>9, <3>1, <3>2 DEF Known
    <3> QED BY <3>3
  <2>11. CASE got' = << >>
    <3>1. \E m : /\ Chain(m, answered') /\ Stored(buffer', bufstart', m, 0, c - 1)
                 /\ Coming(m, 0 + (c - 1), w, d)
      <4>1. n + 1 \in Nat /\ c - 1 \in Nat
        BY <2>3, <2>4
      <4> QED BY <2>3, <2>6, <2>8, <2>9, <4>1, KnownAfterDrop
    <3>2. PICK m : /\ Chain(m, answered') /\ Stored(buffer', bufstart', m, 0, c - 1)
                   /\ Coming(m, 0 + (c - 1), w, d)
      BY <3>1
    <3>3. Len(got') = 0
      BY <2>11
    <3>4. Known(m, w, j, c - 1)'
      BY <2>5, <2>6, <3>2, <3>3 DEF Known
    <3> QED BY <3>4
  <2> QED BY <1>3, <2>10, <2>11
<1> QED BY <1>1, <1>2, <1>3, <1>4 DEF StreamInv

(* A command: what comes in from now on counts. *)
LEMMA WriteStream ==
  ASSUME SoftInv, StreamInv, Write
  PROVE  StreamInv'
<1>1. at' = "wait" /\ got' = << >> /\ UNCHANGED line
  BY DEF Write
<1>2. (\A i \in 1 .. Len(got) : i <= Len(Header) => got[i] = Header[i])'
  BY <1>1
<1>3. CASE Refuses /\ UNCHANGED <<port, answered, clean, raced>>
  <2>1. ~transmitting
    BY <1>3 DEF Refuses, SoftInv, PortInv
  <2>2. UNCHANGED <<buffer, bufstart, bufend, transmitting, available, receiving, bit_no>>
    BY <1>3 DEF port
  <2>3. ASSUME clean' PROVE (\E l, w, j, c : Known(l, w, j, c))'
    <3>1. PICK l, w, j, c : Known(l, w, j, c)
      BY <1>3, <2>1, <2>3 DEF StreamInv
    <3>2. /\ Sampled(j) \in {0, 1} /\ Len(w) \in Nat /\ Len(w) >= Sampled(j)
          /\ c \in Nat /\ Len(got) \in Nat
      BY <3>1, SampledOfW
    <3>3. PICK m : /\ Chain(m, answered) /\ Stored(buffer, bufstart, m, 0, c)
                   /\ Coming(m, 0 + c, w, Sampled(j))
      BY <3>1, <3>2, KnownAfterDrop DEF Known
    <3>4. Queued(c)' /\ InStep(w, j)' /\ Len(got') = 0
      BY <1>1, <2>2, <3>1 DEF Known, Queued, InStep
    <3>5. Known(m, w, j, c)'
      BY <1>1, <1>3, <2>2, <3>1, <3>3, <3>4 DEF Known
    <3> QED BY <3>5
  <2> QED BY <1>1, <1>2, <2>1, <2>2, <2>3 DEF StreamInv
<1>4. CASE transmitting' = TRUE /\ out' = <<0>>
  <2>1. Len(out') = 1 /\ FrameLen \in Nat /\ FrameLen >= 1 /\ Len(line') \in Nat
    BY <1>1, <1>4, ConstantTypes, LenProperties DEF SoftInv, LineInv
  <2>2. (Len(line') % FrameLen) + Len(out') <= FrameLen
    <3> DEFINE m == Len(line')
    <3> HIDE DEF m, FrameLen
    <3>1. m \in Nat /\ m % FrameLen \in 0 .. FrameLen - 1
      BY <2>1 DEF m
    <3>2. (m % FrameLen) + 1 <= FrameLen
      BY <2>1, <3>1
    <3> QED BY <2>1, <3>2 DEF m
  <2> QED BY <1>1, <1>2, <1>4, <2>2 DEF StreamInv
<1> QED BY <1>3, <1>4 DEF Write

(* The bytes of an answer. *)
LEMMA AroundTwo ==
  ASSUME NEW s \in Seq(SoftByte), Len(s) = 2
  PROVE  /\ Header \o s \o CRC \in Seq(SoftByte) /\ Len(Header \o s \o CRC) = Need
         /\ (Header \o s \o CRC)[Len(Header) + 1] = s[1]
         /\ (Header \o s \o CRC)[Len(Header) + 2] = s[2]
<1>1. Header \in Seq(SoftByte) /\ CRC \in Seq(SoftByte)
  BY SoftSerialAssumption
<1> DEFINE a == Header \o s
           h == Len(Header)
           n == Len(CRC)
<1>2. h \in Nat /\ n \in Nat
  BY <1>1, LenProperties
<1>3. /\ a \in Seq(SoftByte) /\ Len(a) = h + Len(s)
      /\ \A i \in 1 .. h + Len(s) : a[i] = IF i <= h THEN Header[i] ELSE s[i - h]
  BY <1>1, ConcatProperties
<1>4. Len(a) = h + 2 /\ \A i \in 1 .. h + 2 : a[i] = IF i <= h THEN Header[i] ELSE s[i - h]
  BY <1>3
<1> HIDE DEF a
<1>5. /\ a \o CRC \in Seq(SoftByte) /\ Len(a \o CRC) = Len(a) + n
      /\ \A i \in 1 .. Len(a) + n : (a \o CRC)[i] = IF i <= Len(a) THEN a[i] ELSE CRC[i - Len(a)]
  <2>1. a \in Seq(SoftByte) /\ CRC \in Seq(SoftByte)
    BY <1>1, <1>3
  <2> QED BY <2>1, ConcatProperties
<1> DEFINE z == a \o CRC
           m == Len(a)
<1> HIDE DEF z, m, h, n
<1>6. /\ z \in Seq(SoftByte) /\ Len(z) = m + n /\ m = h + 2
      /\ \A i \in 1 .. m + n : z[i] = IF i <= m THEN a[i] ELSE CRC[i - m]
  BY <1>4, <1>5 DEF z, m
<1>7. Len(z) = Need
  <2>1. Need = h + 2 + n
    BY DEF Need, h, n
  <2> QED BY <1>6, <2>1
<1>8. z[h + 1] = s[1] /\ z[h + 2] = s[2]
  <2>1. /\ h + 1 \in 1 .. m + n /\ h + 1 <= m /\ h + 1 \in 1 .. h + 2 /\ ~(h + 1 <= h)
        /\ (h + 1) - h = 1
    BY <1>2, <1>6
  <2>2. /\ h + 2 \in 1 .. m + n /\ h + 2 <= m /\ h + 2 \in 1 .. h + 2 /\ ~(h + 2 <= h)
        /\ (h + 2) - h = 2
    BY <1>2, <1>6
  <2>3. z[h + 1] = a[h + 1] /\ z[h + 2] = a[h + 2]
    BY <1>6, <2>1, <2>2
  <2>4. a[h + 1] = s[1]
    BY <1>4, <2>1
  <2>5. a[h + 2] = s[2]
    BY <1>4, <2>2
  <2> QED BY <2>3, <2>4, <2>5
<1> QED BY <1>6, <1>7, <1>8 DEF z, a, h

LEMMA AnswerBytes ==
  ASSUME NEW v \in SoftByte \X SoftByte
  PROVE  /\ Answer(v) \in Seq(SoftByte) /\ Len(Answer(v)) = Need
         /\ Answer(v)[Len(Header) + 1] = v[1] /\ Answer(v)[Len(Header) + 2] = v[2]
<1>1. v \in Seq(SoftByte) /\ Len(v) = 2
  <2>1. v = <<v[1], v[2]>> /\ v[1] \in SoftByte /\ v[2] \in SoftByte
    OBVIOUS
  <2>2. <<v[1], v[2]>> \in Seq(SoftByte) /\ Len(<<v[1], v[2]>>) = 2
    BY <2>1
  <2> QED BY <2>1, <2>2
<1> QED BY <1>1, AroundTwo DEF Answer

(* The sensor answers, or a stray byte comes in, on a free line. *)
LEMMA SensorStream ==
  ASSUME SoftInv, StreamInv, (\E v \in Values : Answers(v)) \/ (\E b \in Stray : Noise(b))
  PROVE  StreamInv'
<1>1. /\ UNCHANGED <<port, reader, clean>> /\ line = << >>
      /\ \/ \E v \in Values : line' = Frames(Answer(v)) /\ answered' = answered \cup {v}
         \/ \E b \in Stray : line' = Frame(b) /\ UNCHANGED answered
  BY DEF Answers, Noise
<1>2. UNCHANGED <<buffer, bufstart, bufend, transmitting, available, receiving, bit_no, out, at, loaded, got>>
  BY <1>1 DEF port, reader
<1>3. PICK u \in Seq(SoftByte) :
         /\ LineOf(line', u, 0) /\ line' \in Seq({0, 1})
         /\ \A l : Chain(l, answered) =>
              \E m : /\ Chain(m, answered') /\ Len(m) = Len(l) + Len(u)
                     /\ \A i \in 1 .. Len(l) : m[i] = l[i]
                     /\ \A k \in 1 .. Len(u) : ByteOf(m[Len(l) + k]) = u[k]
  <2>1. ASSUME NEW v \in Values, line' = Frames(Answer(v)), answered' = answered \cup {v}
        PROVE  \E u \in Seq(SoftByte) :
                 /\ LineOf(line', u, 0) /\ line' \in Seq({0, 1})
                 /\ \A l : Chain(l, answered) =>
                      \E m : /\ Chain(m, answered') /\ Len(m) = Len(l) + Len(u)
                             /\ \A i \in 1 .. Len(l) : m[i] = l[i]
                             /\ \A k \in 1 .. Len(u) : ByteOf(m[Len(l) + k]) = u[k]
    <3>1. Answer(v) \in Seq(SoftByte) /\ Len(Answer(v)) = Need
      <4>1. v \in SoftByte \X SoftByte
        BY SoftSerialAssumption
      <4> QED BY <4>1, AnswerBytes
    <3>2. LineOf(line', Answer(v), 0) /\ line' \in Seq({0, 1})
      BY <2>1, <3>1, LineOfFrames, FramesType
    <3>3. ASSUME NEW l, Chain(l, answered)
          PROVE  \E m : /\ Chain(m, answered') /\ Len(m) = Len(l) + Need
                        /\ \A i \in 1 .. Len(l) : m[i] = l[i]
                        /\ \A k \in 1 .. Need : ByteOf(m[Len(l) + k]) = Answer(v)[k]
      <4>1. Chain(l, answered')
        BY <2>1, <3>3, ChainMore
      <4>2. v \in answered'
        BY <2>1
      <4> QED BY <4>1, <4>2, ChainAnswer
    <3> QED BY <3>1, <3>2, <3>3
  <2>2. ASSUME NEW b \in Stray, line' = Frame(b), UNCHANGED answered
        PROVE  \E u \in Seq(SoftByte) :
                 /\ LineOf(line', u, 0) /\ line' \in Seq({0, 1})
                 /\ \A l : Chain(l, answered) =>
                      \E m : /\ Chain(m, answered') /\ Len(m) = Len(l) + Len(u)
                             /\ \A i \in 1 .. Len(l) : m[i] = l[i]
                             /\ \A k \in 1 .. Len(u) : ByteOf(m[Len(l) + k]) = u[k]
    <3>1. b \in SoftByte /\ <<b>> \in Seq(SoftByte) /\ Len(<<b>>) = 1 /\ <<b>>[1] = b
      BY SoftSerialAssumption
    <3>2. LineOf(line', <<b>>, 0) /\ line' \in Seq({0, 1})
      BY <2>2, <3>1, LineOfFrame, FrameType
    <3>3. ASSUME NEW l, Chain(l, answered)
          PROVE  \E m : /\ Chain(m, answered') /\ Len(m) = Len(l) + 1
                        /\ \A i \in 1 .. Len(l) : m[i] = l[i]
                        /\ \A k \in 1 .. 1 : ByteOf(m[Len(l) + k]) = <<b>>[k]
      <4>1. PICK m : /\ Chain(m, answered) /\ Len(m) = Len(l) + 1
                     /\ \A i \in 1 .. Len(l) : m[i] = l[i]
                     /\ ByteOf(m[Len(l) + 1]) = b
        BY <3>3, ChainStray
      <4>2. \A k \in 1 .. 1 : ByteOf(m[Len(l) + k]) = <<b>>[k]
        BY <3>1, <4>1
      <4> QED BY <2>2, <4>1, <4>2
    <3> DEFINE u == <<b>>
    <3> HIDE DEF u
    <3>4. u \in Seq(SoftByte) /\ Len(u) = 1 /\ LineOf(line', u, 0)
      BY <3>1, <3>2 DEF u
    <3>5. ASSUME NEW l, Chain(l, answered)
          PROVE  \E m : /\ Chain(m, answered') /\ Len(m) = Len(l) + Len(u)
                        /\ \A i \in 1 .. Len(l) : m[i] = l[i]
                        /\ \A k \in 1 .. Len(u) : ByteOf(m[Len(l) + k]) = u[k]
      BY <3>3, <3>4, <3>5 DEF u
    <3> QED BY <3>2, <3>4, <3>5
  <2> QED BY <1>1, <2>1, <2>2
<1>4. ASSUME transmitting PROVE Len(line') % FrameLen = 0
  <2>1. FrameLen \in Nat /\ FrameLen >= 1 /\ Len(u) \in Nat /\ Len(line') = Len(u) * FrameLen - 0
    BY <1>3, ConstantTypes DEF LineOf
  <2>2. 0 \in 0 .. FrameLen - 1 /\ Len(u) \in Int
    BY <2>1
  <2>3. (Len(u) * FrameLen + 0) % FrameLen = 0
    BY <2>1, <2>2, Quotient
  <2>4. Len(u) * FrameLen \in Int
    BY <2>1
  <2>5. Len(line') = Len(u) * FrameLen + 0
    BY <2>1, <2>4
  <2> QED BY <2>3, <2>5
<1>5. ASSUME clean', ~transmitting PROVE (\E l, w, j, c : Known(l, w, j, c))'
  <2>1. PICK l, w, j, c : Known(l, w, j, c)
    BY <1>1, <1>5 DEF StreamInv
  <2>2. w = << >> /\ j = 0 /\ ~receiving
    <3>1. line \in Seq({0, 1}) /\ LineOf(line, w, j)
      BY <2>1 DEF SoftInv, LineInv, Known
    <3>2. w = << >> /\ j = 0
      <4>1. line = << >>
        BY <1>1
      <4>2. w # << >> => line # << >>
        BY <3>1, LineEmpty
      <4>3. w = << >> => j = 0
        BY <3>1, LineEmpty
      <4> QED BY <4>1, <4>2, <4>3
    <3> QED BY <2>1, <3>2 DEF Known, InStep
  <2>3. c \in Nat /\ Len(got) \in Nat
    BY <2>1, SampledOfW
  <2> DEFINE n == Len(got) + c
  <2>4. n \in Nat /\ Len(l) = n /\ Sampled(0) = 0
    <3>1. Sampled(0) = 0
      BY ConstantTypes DEF Sampled
    <3>2. Coming(l, n, << >>, 0)
      BY <2>1, <2>2, <3>1 DEF Known
    <3>3. Len(l) = n + Len(<< >>) - 0 /\ Len(<< >>) = 0
      BY <3>2 DEF Coming
    <3> QED BY <2>3, <3>1, <3>3
  <2>5. PICK m : /\ Chain(m, answered') /\ Len(m) = Len(l) + Len(u)
                 /\ \A i \in 1 .. Len(l) : m[i] = l[i]
                 /\ \A k \in 1 .. Len(u) : ByteOf(m[Len(l) + k]) = u[k]
    BY <1>3, <2>1 DEF Known
  <2>6. Queued(c)' /\ InStep(u, 0)'
    BY <1>2, <2>1, <2>2 DEF Known, Queued, InStep
  <2>7. \A i \in 1 .. Len(got) : ByteOf(m[i]) = got[i]
    <3> SUFFICES ASSUME NEW i \in 1 .. Len(got) PROVE ByteOf(m[i]) = got[i]
      OBVIOUS
    <3>1. i \in 1 .. Len(l)
      BY <2>3, <2>4
    <3> QED BY <2>1, <2>5, <3>1 DEF Known
  <2>8. Stored(buffer, bufstart, m, Len(got), c)
    <3> SUFFICES ASSUME NEW i \in 0 .. c - 1
                 PROVE  ByteOf(m[Len(got) + 1 + i]) = buffer[Place(bufstart, i)]
      BY DEF Stored
    <3>1. Len(got) + 1 + i \in 1 .. Len(l)
      BY <2>3, <2>4
    <3> QED BY <2>1, <2>5, <3>1 DEF Known, Stored
  <2>9. Coming(m, n, u, 0)
    <3>1. Len(u) \in Nat
      BY <1>3, LenProperties
    <3> HIDE DEF n
    <3>2. Len(m) = n + Len(u) - 0
      BY <2>4, <2>5, <3>1
    <3>3. ASSUME NEW i \in 1 + 0 .. Len(u) PROVE ByteOf(m[n + i - 0]) = u[i]
      <4>1. i \in 1 .. Len(u) /\ n + i - 0 = Len(l) + i
        BY <2>4, <3>1
      <4> QED BY <2>5, <4>1
    <3> QED BY <3>2, <3>3 DEF Coming
  <2>10. Known(m, u, 0, c)'
    BY <1>2, <1>3, <2>4, <2>5, <2>6, <2>7, <2>8, <2>9 DEF Known
  <2> QED BY <2>10
<1> QED BY <1>1, <1>2, <1>4, <1>5 DEF StreamInv

LEMMA StreamStep == SoftInv /\ SendInv /\ StreamInv /\ [SoftNext]_softvars => StreamInv'
<1> SUFFICES ASSUME SoftInv, SendInv, StreamInv, [SoftNext]_softvars PROVE StreamInv'
  OBVIOUS
<1>1. CASE Configure
  <2>1. transmitting' = FALSE /\ clean' = FALSE /\ UNCHANGED got
    BY <1>1 DEF Configure, Reset, reader
  <2> QED BY <2>1 DEF StreamInv
<1>2. CASE /\ UNCHANGED <<port, line, answered, got, clean>>
           /\ at' # "store" \/ (at' = at /\ loaded' = loaded)
           /\ transmitting => at' \in {"wait", "poll", "clear"}
  <2>1. UNCHANGED <<buffer, bufstart, bufend, transmitting, available, receiving, bit_no, out>>
    BY <1>2 DEF port
  <2>2. ASSUME clean', ~transmitting' PROVE (\E l, w, j, c : Known(l, w, j, c))'
    <3>1. PICK l, w, j, c : Known(l, w, j, c)
      BY <1>2, <2>1, <2>2 DEF StreamInv
    <3>2. at' = "store" => loaded' <= c
      BY <1>2, <3>1 DEF Known, Queued
    <3>3. Known(l, w, j, c)'
      BY <1>2, <2>1, <3>1, <3>2, StillKnown
    <3> QED BY <3>3
  <2> QED BY <1>2, <2>1, <2>2 DEF StreamInv
<1>3. CASE Clear \/ PollNothing \/ Check \/ GiveUp \/ UNCHANGED softvars
  <2>1. UNCHANGED <<port, line, answered, got, clean>>
    BY <1>3 DEF Clear, PollNothing, Check, GiveUp, softvars, sensor, reader
  <2>2. at' # "store" \/ (at' = at /\ loaded' = loaded)
    BY <1>3 DEF Clear, PollNothing, Check, GiveUp, softvars, reader
  <2>3. transmitting => at' \in {"wait", "poll", "clear"}
    BY <1>3 DEF Clear, PollNothing, Check, GiveUp, softvars, reader, StreamInv
  <2> QED BY <1>2, <2>1, <2>2, <2>3
<1> QED BY <1>1, <1>3, BitTimeStream, AsleepStream, WriteStream, PollStream, LoadStream, StoreStream,
        SensorStream DEF SoftNext

(* What was read is a value, and the header before it an answer's. *)
LEMMA ValueKnown == SoftInv /\ StreamInv /\ HeaderUnmistakable => ValueTrue
<1> SUFFICES ASSUME SoftInv, StreamInv, HeaderUnmistakable,
                    at = "idle", Len(got) = Len(Header) + 2, clean
             PROVE  SubSeq(got, Len(Header) + 1, Len(Header) + 2) \in answered
  BY DEF ValueTrue
<1>1. ~transmitting
  BY DEF StreamInv
<1>2. PICK l, w, j, c : Known(l, w, j, c)
  BY <1>1 DEF StreamInv
<1> DEFINE h == Len(Header)
<1>3. /\ h \in Nat /\ h >= 1 /\ Need \in Nat /\ h + 2 <= Need
      /\ Header \in Seq(SoftByte) /\ CRC \in Seq(SoftByte)
  <2>1. Header \in Seq(SoftByte) /\ CRC \in Seq(SoftByte) /\ Need = h + 2 + Len(CRC)
    BY ConstantTypes
  <2>2. h \in Nat /\ Len(CRC) \in Nat
    BY <2>1, LenProperties
  <2>3. h # 0
    BY <2>1, EmptySeq DEF HeaderUnmistakable
  <2> QED BY <2>1, <2>2, <2>3
<1>4. /\ Chain(l, answered) /\ Len(l) \in Nat /\ Len(l) >= h + 2
      /\ \A i \in 1 .. h + 2 : l[i] \in Labels(answered) /\ ByteOf(l[i]) = got[i]
      /\ \A i \in 1 .. h + 1 : Follows(l[i], l[i + 1])
  <2>1. Sampled(j) \in {0, 1} /\ Len(w) \in Nat /\ Len(w) >= Sampled(j) /\ c \in Nat
    BY <1>2, SampledOfW
  <2>2. Len(l) = (Len(got) + c) + Len(w) - Sampled(j)
    BY <1>2 DEF Known, Coming
  <2>3. Len(l) \in Nat /\ Len(l) >= h + 2
    BY <1>3, <2>1, <2>2
  <2>4. Chain(l, answered) /\ \A i \in 1 .. Len(l) : l[i] \in Labels(answered)
    BY <1>2 DEF Known, Chain
  <2>5. \A i \in 1 .. h + 2 : ByteOf(l[i]) = got[i]
    BY <1>2 DEF Known
  <2> QED BY <1>3, <2>3, <2>4, <2>5 DEF Chain
<1>5. l[h][2] = h
  <2> DEFINE f == [i \in 1 .. h |-> l[i]]
  <2>1. f \in [1 .. h -> Labels(Values)]
    <3>1. answered \subseteq Values
      BY DEF SoftInv, LineInv
    <3>2. \A i \in 1 .. h : l[i] \in Labels(Values)
      BY <1>3, <1>4, <3>1 DEF Labels
    <3> QED BY <3>2
  <2>2. \A i \in 1 .. h - 1 : Follows(f[i], f[i + 1])
    BY <1>3, <1>4
  <2>3. \A i \in 1 .. h : ByteOf(f[i]) = Header[i]
    <3> SUFFICES ASSUME NEW i \in 1 .. h PROVE ByteOf(f[i]) = Header[i]
      OBVIOUS
    <3>1. i \in 1 .. h + 2 /\ i \in 1 .. Len(got) /\ i <= h
      BY <1>3
    <3>2. got[i] = Header[i]
      BY <3>1 DEF StreamInv
    <3> QED BY <1>4, <3>1, <3>2
  <2>4. f[h] = l[h]
    BY <1>3
  <2> HIDE DEF f
  <2>5. f[h][2] = h
    BY <2>1, <2>2, <2>3 DEF HeaderUnmistakable
  <2> QED BY <2>4, <2>5
<1> DEFINE v == l[h][1]
<1>6. v \in answered /\ v \in SoftByte \X SoftByte
  <2>1. l[h] \in Labels(answered) /\ l[h][2] # 0
    BY <1>3, <1>4, <1>5
  <2>2. v \in answered
    BY <2>1 DEF Labels
  <2> QED BY <2>2, SoftSerialAssumption DEF SoftInv, LineInv
<1>7. l[h + 1] = <<v, h + 1>>
  <2>1. ~Ends(l[h])
    BY <1>3, <1>5 DEF Ends
  <2>2. Follows(l[h], l[h + 1])
    BY <1>3, <1>4
  <2> QED BY <1>5, <2>1, <2>2 DEF Follows
<1>8. l[h + 2] = <<v, h + 2>>
  <2> DEFINE t == <<v, h + 1>>
  <2>1. t[2] = h + 1 /\ t[1] = v
    OBVIOUS
  <2>2. ~Ends(t)
    BY <1>3, <2>1 DEF Ends
  <2>3. Follows(t, l[h + 2])
    <3>1. h + 1 \in 1 .. h + 1 /\ (h + 1) + 1 = h + 2
      BY <1>3
    <3>2. Follows(l[h + 1], l[(h + 1) + 1])
      BY <1>4, <3>1
    <3> QED BY <1>7, <3>1, <3>2
  <2>4. l[h + 2] = <<t[1], t[2] + 1>>
    BY <2>2, <2>3 DEF Follows
  <2> QED BY <1>3, <2>1, <2>4
<1>9. got[h + 1] = v[1] /\ got[h + 2] = v[2]
  <2>1. Answer(v)[h + 1] = v[1] /\ Answer(v)[h + 2] = v[2]
    BY <1>3, <1>6, AnswerBytes
  <2>2. ByteOf(<<v, h + 1>>) = Answer(v)[h + 1] /\ ByteOf(<<v, h + 2>>) = Answer(v)[h + 2]
    BY <1>3 DEF ByteOf
  <2>3. h + 1 \in 1 .. h + 2 /\ h + 2 \in 1 .. h + 2
    BY <1>3
  <2> QED BY <1>4, <1>7, <1>8, <2>1, <2>2, <2>3
<1>10. SubSeq(got, h + 1, h + 2) = <<got[h + 1], got[h + 2]>>
  <2>1. got \in Seq(SoftByte) /\ h + 1 \in 1 .. Len(got) /\ h + 2 \in 1 .. Len(got)
    BY <1>3 DEF SoftInv, ReaderInv
  <2>2. \A i \in h + 1 .. h + 2 : got[i] \in SoftByte
    BY <1>3, <2>1
  <2> DEFINE p == h + 1
             e == h + 2
  <2>3. /\ p \in Int /\ e \in Int /\ e = p + 1 /\ p <= e /\ e - p + 1 = 2
        /\ p + 1 - 1 = p /\ p + 2 - 1 = e
    BY <1>3
  <2>4. \A i \in p .. e : got[i] \in SoftByte
    BY <2>2
  <2> HIDE DEF p, e
  <2>5. /\ SubSeq(got, p, e) \in Seq(SoftByte) /\ Len(SubSeq(got, p, e)) = 2
        /\ \A i \in 1 .. 2 : SubSeq(got, p, e)[i] = got[p + i - 1]
    BY <2>3, <2>4, SubSeqProperties
  <2> DEFINE y == SubSeq(got, p, e)
  <2> HIDE DEF y
  <2>6. y \in Seq(SoftByte) /\ Len(y) = 2 /\ y[1] = got[p] /\ y[2] = got[e]
    BY <2>3, <2>5 DEF y
  <2>7. y = <<got[p], got[e]>>
    BY <2>6
  <2> QED BY <2>7 DEF y, p, e
<1>11. v = <<v[1], v[2]>>
  BY <1>6
<1> QED BY <1>6, <1>9, <1>10, <1>11

(* A value of CO2 is one the sensor has measured since the last command,   *)
(* whatever late answers, stray bytes, sleep, and bytes read while others  *)
(* come in: if no byte was missed, the buffer was never full, and nothing  *)
(* but an answer's head looks like one.                                    *)
THEOREM ValuesAreMeasured ==
  ASSUME HeaderUnmistakable
  PROVE  SoftSpec => []ValueTrue
<1>1. SoftInit => SendInv /\ StreamInv
  BY DEF SoftInit, SendInv, CommandWhole, StreamInv
<1>2. SoftInv /\ StreamInv => ValueTrue
  BY ValueKnown
<1> QED BY <1>1, <1>2, SoftInitInv, SoftStep, SendStep, StreamStep, PTL DEF SoftSpec
=============================================================================
