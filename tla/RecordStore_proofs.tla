------------------------- MODULE RecordStore_proofs -------------------------
(***************************************************************************)
(* What recordstore_dump hands to the link decodes to the records that     *)
(* were accepted, for every set of records and every size of the block.    *)
(***************************************************************************)
EXTENDS RecordStore, SequenceTheorems, FiniteSetTheorems, TLAPS

AnyItem == [first : BOOLEAN, len : Nat, bytes : UNION {[S -> Byte] : S \in SUBSET Nat}]

(* k is a whole record of length len *)
IsBase(k, len) == k \in DOMAIN items /\ items[k].first /\ items[k].len = len

(***************************************************************************)
(* The inductive invariant: the pointers find all whole records, there is  *)
(* one of each length, every item has one of its length, and an item is    *)
(* the encoding of the accepted record at its place against that one.      *)
(***************************************************************************)
Shape == /\ items \in Seq(AnyItem)
         /\ firsts \in Seq(Nat)
         /\ accepted \in Seq(Record)
         /\ Len(accepted) = Len(items)

PointersFind == {i \in DOMAIN items : items[i].first} = {firsts[c] : c \in DOMAIN firsts}

LengthsDiffer ==
    \A c, d \in DOMAIN firsts : items[firsts[c]].len = items[firsts[d]].len => c = d

HasBase == \A i \in DOMAIN items : \E k \in DOMAIN items : IsBase(k, items[i].len)

Encoded ==
    \A i \in DOMAIN items :
       /\ items[i].len = Len(accepted[i])
       /\ items[i].first => items[i] = Whole(accepted[i])
       /\ ~items[i].first =>
             \A k \in DOMAIN items :
                IsBase(k, items[i].len) => items[i] = Delta(accepted[i], items[k].bytes)

IInv == Shape /\ PointersFind /\ LengthsDiffer /\ HasBase /\ Encoded

-----------------------------------------------------------------------------
LEMMA BaseIsUnique ==
  ASSUME IInv, NEW k, NEW l, NEW len, IsBase(k, len), IsBase(l, len)
  PROVE  k = l
<1>1. PICK c \in DOMAIN firsts : k = firsts[c]
  BY DEF IInv, PointersFind, IsBase
<1>2. PICK d \in DOMAIN firsts : l = firsts[d]
  BY DEF IInv, PointersFind, IsBase
<1> QED BY <1>1, <1>2 DEF IInv, LengthsDiffer, IsBase

(* a record is what its delta and the record it was taken against give *)
LEMMA DeltaDecodes ==
  ASSUME NEW r \in Record, NEW base
  PROVE  r = [b \in 1 .. Len(r) |-> IF b \in DOMAIN Delta(r, base).bytes
                                    THEN Delta(r, base).bytes[b] ELSE base[b]]
<1>1. r \in [1 .. Len(r) -> Byte]
  BY RecordAssumption, LenProperties
<1>2. /\ DOMAIN Delta(r, base).bytes = Changed(r, base)
      /\ \A b \in Changed(r, base) : Delta(r, base).bytes[b] = r[b]
  BY DEF Delta
<1>3. ASSUME NEW b \in 1 .. Len(r)
      PROVE  r[b] = IF b \in Changed(r, base) THEN Delta(r, base).bytes[b] ELSE base[b]
  BY <1>2 DEF Changed
<1> QED BY <1>1, <1>2, <1>3

LEMMA Decodes == IInv => RoundTrip
<1> SUFFICES ASSUME IInv PROVE RoundTrip
  OBVIOUS
<1>1. DOMAIN items = 1 .. Len(accepted) /\ accepted \in [1 .. Len(accepted) -> Record]
  BY LenProperties DEF IInv, Shape
<1>2. ASSUME NEW i \in DOMAIN items PROVE DecodeItem(items, i) = accepted[i]
  <2>1. accepted[i] \in Record
    BY <1>1
  <2>2. CASE items[i].first
    BY <2>2 DEF IInv, Encoded, DecodeItem, Whole
  <2>3. CASE ~items[i].first
    <3>1. PICK k \in DOMAIN items : IsBase(k, items[i].len)
      BY DEF IInv, HasBase
    <3>2. BaseItem(items, items[i].len) = items[k]
      <4>1. \A l \in DOMAIN items : items[l].first /\ items[l].len = items[i].len <=> l = k
        BY <3>1, BaseIsUnique DEF IsBase
      <4> QED BY <4>1 DEF BaseItem
    <3>3. items[i] = Delta(accepted[i], items[k].bytes) /\ items[i].len = Len(accepted[i])
      BY <2>3, <3>1 DEF IInv, Encoded
    <3> QED BY <2>1, <2>3, <3>2, <3>3, DeltaDecodes DEF DecodeItem
  <2> QED BY <2>2, <2>3
<1> QED BY <1>1, <1>2 DEF RoundTrip, Decode

-----------------------------------------------------------------------------
(* Facts about appending an item, used for both ways of inserting. *)
LEMMA Appended ==
  ASSUME IInv, NEW r \in Record, NEW it \in AnyItem,
         items' = Append(items, it), accepted' = Append(accepted, r)
  PROVE  /\ items' \in Seq(AnyItem) /\ accepted' \in Seq(Record)
         /\ Len(items') = Len(items) + 1 /\ Len(accepted') = Len(items) + 1
         /\ DOMAIN items = 1 .. Len(items) /\ Len(items) \in Nat
         /\ DOMAIN items' = 1 .. Len(items) + 1
         /\ \A i \in DOMAIN items : items'[i] = items[i] /\ accepted'[i] = accepted[i]
         /\ items'[Len(items) + 1] = it /\ accepted'[Len(items) + 1] = r
  BY AppendProperties, LenProperties DEF IInv, Shape

LEMMA ItemTypes ==
  ASSUME NEW r \in Record, NEW base
  PROVE  Whole(r) \in AnyItem /\ Delta(r, base) \in AnyItem
<1>1. r \in [1 .. Len(r) -> Byte] /\ Len(r) \in Nat
  BY RecordAssumption, LenProperties
<1>2. 1 .. Len(r) \in SUBSET Nat /\ Changed(r, base) \in SUBSET Nat
  BY <1>1 DEF Changed
<1>3. [b \in Changed(r, base) |-> r[b]] \in [Changed(r, base) -> Byte]
  BY <1>1 DEF Changed
<1> QED BY <1>1, <1>2, <1>3 DEF Whole, Delta, AnyItem

LEMMA FirstKeepsInv ==
  ASSUME IInv, NEW r \in Record, InsertFirst(r)
  PROVE  IInv'
<1> DEFINE n == Len(items) + 1
<1>1. Whole(r) \in AnyItem /\ Whole(r).first /\ Whole(r).len = Len(r)
  BY ItemTypes DEF Whole
<1>2. /\ items' \in Seq(AnyItem) /\ accepted' \in Seq(Record)
      /\ Len(items') = n /\ Len(accepted') = n
      /\ DOMAIN items = 1 .. Len(items) /\ Len(items) \in Nat
      /\ DOMAIN items' = 1 .. n
      /\ \A i \in DOMAIN items : items'[i] = items[i] /\ accepted'[i] = accepted[i]
      /\ items'[n] = Whole(r) /\ accepted'[n] = r
  BY <1>1, Appended DEF InsertFirst
<1>3. /\ firsts' \in Seq(Nat) /\ Len(firsts') = Len(firsts) + 1 /\ Len(firsts) \in Nat
      /\ DOMAIN firsts = 1 .. Len(firsts) /\ DOMAIN firsts' = 1 .. Len(firsts) + 1
      /\ \A c \in DOMAIN firsts : firsts'[c] = firsts[c]
      /\ firsts'[Len(firsts) + 1] = n
  BY <1>2, AppendProperties, LenProperties DEF InsertFirst, IInv, Shape
<1>4. \A c \in DOMAIN firsts : firsts[c] \in DOMAIN items /\ items[firsts[c]].first
  BY DEF IInv, PointersFind
<1>5. \A k \in DOMAIN items : ~IsBase(k, Len(r))
  BY DEF InsertFirst, SameLength, IInv, PointersFind, IsBase
<1> HIDE DEF n
<1>6. n = Len(items) + 1 /\ n \notin DOMAIN items
  BY <1>2 DEF n
<1>7. Shape'
  BY <1>2, <1>3 DEF Shape
<1>8. PointersFind'
  <2>1. {i \in DOMAIN items' : items'[i].first} = {i \in DOMAIN items : items[i].first} \cup {n}
    BY <1>1, <1>2, <1>6
  <2>2. {firsts'[c] : c \in DOMAIN firsts'} = {firsts[c] : c \in DOMAIN firsts} \cup {n}
    BY <1>3
  <2> QED BY <2>1, <2>2 DEF IInv, PointersFind
<1>9. LengthsDiffer'
  <2> SUFFICES ASSUME NEW c \in DOMAIN firsts', NEW d \in DOMAIN firsts',
                      items'[firsts'[c]].len = items'[firsts'[d]].len
               PROVE  c = d
    BY DEF LengthsDiffer
  <2>1. CASE c \in DOMAIN firsts /\ d \in DOMAIN firsts
    BY <1>2, <1>3, <1>4, <2>1 DEF IInv, LengthsDiffer
  <2>2. CASE c \in DOMAIN firsts /\ d \notin DOMAIN firsts
    BY <1>1, <1>2, <1>3, <1>4, <1>5, <2>2 DEF IsBase
  <2>3. CASE c \notin DOMAIN firsts /\ d \in DOMAIN firsts
    BY <1>1, <1>2, <1>3, <1>4, <1>5, <2>3 DEF IsBase
  <2>4. CASE c \notin DOMAIN firsts /\ d \notin DOMAIN firsts
    BY <1>3, <2>4
  <2> QED BY <2>1, <2>2, <2>3, <2>4
<1>10. HasBase'
  <2> SUFFICES ASSUME NEW i \in DOMAIN items'
               PROVE  \E k \in DOMAIN items' : IsBase(k, items[i].len)'
    BY DEF HasBase
  <2>1. CASE i \in DOMAIN items
    <3>1. PICK k \in DOMAIN items : IsBase(k, items[i].len)
      BY <2>1 DEF IInv, HasBase
    <3> QED BY <1>2, <1>6, <2>1, <3>1 DEF IsBase
  <2>2. CASE i = n
    BY <1>1, <1>2, <2>2 DEF IsBase
  <2> QED BY <1>2, <1>6, <2>1, <2>2
<1>11. Encoded'
  <2> SUFFICES ASSUME NEW i \in DOMAIN items'
               PROVE  /\ items'[i].len = Len(accepted'[i])
                      /\ items'[i].first => items'[i] = Whole(accepted'[i])
                      /\ ~items'[i].first =>
                            \A k \in DOMAIN items' :
                               IsBase(k, items[i].len)' =>
                                  items'[i] = Delta(accepted'[i], items'[k].bytes)
    BY DEF Encoded
  <2>1. CASE i \in DOMAIN items
    <3>1. PICK l \in DOMAIN items : IsBase(l, items[i].len)
      BY <2>1 DEF IInv, HasBase
    <3>2. items[i].len # Len(r)
      BY <1>5, <3>1
    <3>3. ASSUME NEW k \in DOMAIN items', IsBase(k, items[i].len)'
          PROVE  k \in DOMAIN items /\ IsBase(k, items[i].len) /\ items'[k] = items[k]
      BY <1>1, <1>2, <1>6, <2>1, <3>2, <3>3 DEF IsBase
    <3> QED BY <1>2, <2>1, <3>3 DEF IInv, Encoded
  <2>2. CASE i = n
    BY <1>1, <1>2, <2>2
  <2> QED BY <1>2, <1>6, <2>1, <2>2
<1> QED BY <1>7, <1>8, <1>9, <1>10, <1>11 DEF IInv

LEMMA DeltaKeepsInv ==
  ASSUME IInv, NEW r \in Record, InsertDelta(r)
  PROVE  IInv'
<1> DEFINE n == Len(items) + 1
<1>1. PICK c \in SameLength(r) : items' = Append(items, Delta(r, items[firsts[c]].bytes))
  BY DEF InsertDelta
<1> DEFINE base == items[firsts[c]].bytes
<1>2. IsBase(firsts[c], Len(r))
  BY DEF SameLength, IInv, PointersFind, IsBase
<1>3. Delta(r, base) \in AnyItem /\ ~Delta(r, base).first /\ Delta(r, base).len = Len(r)
  BY ItemTypes DEF Delta
<1>4. /\ items' \in Seq(AnyItem) /\ accepted' \in Seq(Record)
      /\ Len(items') = n /\ Len(accepted') = n
      /\ DOMAIN items = 1 .. Len(items) /\ Len(items) \in Nat
      /\ DOMAIN items' = 1 .. n
      /\ \A i \in DOMAIN items : items'[i] = items[i] /\ accepted'[i] = accepted[i]
      /\ items'[n] = Delta(r, base) /\ accepted'[n] = r
  BY <1>1, <1>3, Appended DEF InsertDelta
<1>5. firsts' = firsts
  BY DEF InsertDelta
<1>6. n \notin DOMAIN items
  BY <1>4
<1>7. \A k, len : IsBase(k, len)' <=> IsBase(k, len)
  BY <1>3, <1>4, <1>6 DEF IsBase
<1> HIDE DEF n, base
<1>8. Shape'
  BY <1>4, <1>5 DEF IInv, Shape
<1>9. PointersFind'
  <2>1. {i \in DOMAIN items' : items'[i].first} = {i \in DOMAIN items : items[i].first}
    BY <1>7 DEF IsBase
  <2> QED BY <1>5, <2>1 DEF IInv, PointersFind
<1>10. LengthsDiffer'
  <2>1. \A d \in DOMAIN firsts : firsts[d] \in DOMAIN items
    BY DEF IInv, PointersFind
  <2> QED BY <1>4, <1>5, <2>1 DEF IInv, LengthsDiffer
<1>11. ASSUME NEW i \in DOMAIN items' PROVE i \in DOMAIN items \/ i = n
  BY <1>4, <1>11 DEF n
<1>12. HasBase'
  <2> SUFFICES ASSUME NEW i \in DOMAIN items'
               PROVE  \E k \in DOMAIN items' : IsBase(k, items[i].len)'
    BY DEF HasBase
  <2>1. CASE i \in DOMAIN items
    <3>1. PICK k \in DOMAIN items : IsBase(k, items[i].len)
      BY <2>1 DEF IInv, HasBase
    <3>2. IsBase(k, items[i].len)'
      BY <1>4, <2>1, <3>1 DEF IsBase, n
    <3> QED BY <3>2 DEF IsBase
  <2>2. CASE i = n
    <3>1. IsBase(firsts[c], Len(r))'
      BY <1>2, <1>7, <1>5
    <3>2. items'[i].len = Len(r)
      BY <1>3, <1>4, <2>2
    <3> QED BY <1>5, <3>1, <3>2 DEF IsBase
  <2> QED BY <1>11, <2>1, <2>2
<1>13. Encoded'
  <2> SUFFICES ASSUME NEW i \in DOMAIN items'
               PROVE  /\ items'[i].len = Len(accepted'[i])
                      /\ items'[i].first => items'[i] = Whole(accepted'[i])
                      /\ ~items'[i].first =>
                            \A k \in DOMAIN items' :
                               IsBase(k, items[i].len)' =>
                                  items'[i] = Delta(accepted'[i], items'[k].bytes)
    BY DEF Encoded
  <2>1. CASE i \in DOMAIN items
    <3>1. ASSUME NEW k \in DOMAIN items', IsBase(k, items[i].len)'
          PROVE  k \in DOMAIN items /\ IsBase(k, items[i].len) /\ items'[k] = items[k]
      BY <1>3, <1>4, <1>11, <2>1, <3>1 DEF IsBase
    <3> QED BY <1>4, <2>1, <3>1 DEF IInv, Encoded
  <2>2. CASE i = n
    <3>1. ASSUME NEW k \in DOMAIN items', IsBase(k, items[i].len)'
          PROVE  k = firsts[c] /\ items'[k] = items[k]
      <4>1. items'[i].len = Len(r)
        BY <1>3, <1>4, <2>2
      <4>2. k \in DOMAIN items /\ items[k].first /\ items[k].len = Len(r)
        BY <1>3, <1>4, <1>11, <3>1, <4>1 DEF IsBase
      <4>3. IsBase(k, Len(r))
        BY <4>2 DEF IsBase
      <4> QED BY <1>2, <1>4, <4>2, <4>3, BaseIsUnique
    <3> QED BY <1>3, <1>4, <2>2, <3>1 DEF base
  <2> QED BY <1>11, <2>1, <2>2
<1> QED BY <1>8, <1>9, <1>10, <1>12, <1>13 DEF IInv

LEMMA EmptyInv ==
  items = << >> /\ firsts = << >> /\ accepted = << >> => IInv
  BY DEF IInv, Shape, PointersFind, LengthsDiffer, HasBase, Encoded

LEMMA Inductive == Spec => []IInv
<1>1. Init => IInv
  BY EmptyInv DEF Init
<1>2. IInv /\ [Next]_vars => IInv'
  <2> SUFFICES ASSUME IInv, [Next]_vars PROVE IInv'
    OBVIOUS
  <2>1. CASE Clear
    BY <2>1 DEF Clear, IInv, Shape, PointersFind, LengthsDiffer, HasBase, Encoded
  <2>2. ASSUME NEW r \in Record, InsertRefused(r) PROVE IInv'
    BY <2>2 DEF InsertRefused, vars, IInv, Shape, PointersFind, LengthsDiffer, HasBase,
                Encoded, IsBase
  <2>3. ASSUME NEW r \in Record, InsertFirst(r) PROVE IInv'
    BY <2>3, FirstKeepsInv
  <2>4. ASSUME NEW r \in Record, InsertDelta(r) PROVE IInv'
    BY <2>4, DeltaKeepsInv
  <2>5. CASE UNCHANGED vars
    BY <2>5 DEF vars, IInv, Shape, PointersFind, LengthsDiffer, HasBase, Encoded, IsBase
  <2> QED BY <2>1, <2>2, <2>3, <2>4, <2>5 DEF Next, Insert
<1> QED BY <1>1, <1>2, PTL DEF Spec

(* Compression loses nothing: for every set of records, decoding the block *)
(* gives back the records accepted since it was cleared, in order.         *)
THEOREM DumpRoundTrips == Spec => []RoundTrip
  BY Inductive, Decodes, PTL

(* There is one whole record of each length and the pointers find it, so   *)
(* the sixteen pointers suffice when there are at most sixteen lengths.    *)
THEOREM OnePointerPerLength == Spec => []OneFirstPerLength
<1>1. IInv => OneFirstPerLength
  BY DEF IInv, PointersFind, LengthsDiffer, OneFirstPerLength
<1> QED BY <1>1, Inductive, PTL

-----------------------------------------------------------------------------
LEMMA ChangedFinite ==
  ASSUME NEW r \in Record, NEW base
  PROVE  Cardinality(Changed(r, base)) \in Nat
<1>1. Len(r) \in Nat
  BY RecordAssumption, LenProperties
<1>2. IsFiniteSet(1 .. Len(r))
  BY <1>1, FS_Interval
<1>3. IsFiniteSet(Changed(r, base))
  BY <1>2, FS_Subset DEF Changed
<1> QED BY <1>3, FS_CardinalityType

(* The overflow test of recordstore.c:58 keeps every write inside the      *)
(* block, provided a delta is never more than one byte longer than the     *)
(* record stored whole: the guard does not count the bitmap.               *)
THEOREM NoOverrun == ASSUME DeltasFit PROVE Spec => []WritesInside
<1> DEFINE PosInv == pos \in Nat /\ pos <= MemSize
<1>1. Init => PosInv
  BY SizeAssumption DEF Init
<1>2. IInv /\ PosInv /\ [Next]_vars => PosInv'
  <2> SUFFICES ASSUME IInv, PosInv, [Next]_vars PROVE PosInv'
    OBVIOUS
  <2>1. CASE Clear
    BY <2>1, SizeAssumption DEF Clear
  <2>2. ASSUME NEW r \in Record, InsertRefused(r) PROVE PosInv'
    BY <2>2 DEF InsertRefused, vars
  <2>3. ASSUME NEW r \in Record, InsertFirst(r) PROVE PosInv'
    <3>1. Len(r) \in Nat
      BY RecordAssumption, LenProperties
    <3> QED BY <2>3, <3>1, SizeAssumption DEF InsertFirst, Full
  <2>4. ASSUME NEW r \in Record, InsertDelta(r) PROVE PosInv'
    <3>1. Len(r) \in Nat
      BY RecordAssumption, LenProperties
    <3>2. PICK c \in SameLength(r) :
             pos' = pos + 1 + BitmapSize(Len(r))
                        + Cardinality(Changed(r, items[firsts[c]].bytes))
      BY <2>4 DEF InsertDelta
    <3> DEFINE base == items[firsts[c]].bytes
    <3>3. base \in Record /\ Len(base) = Len(r)
      <4>1. IsBase(firsts[c], Len(r))
        BY DEF SameLength, IInv, PointersFind, IsBase
      <4>2. DOMAIN items = 1 .. Len(accepted) /\ accepted \in [1 .. Len(accepted) -> Record]
        BY LenProperties DEF IInv, Shape
      <4>3. items[firsts[c]] = Whole(accepted[firsts[c]])
        BY <4>1 DEF IInv, Encoded, IsBase
      <4> QED BY <4>1, <4>2, <4>3 DEF Whole, IsBase
    <3>4. Cardinality(Changed(r, base)) \in Nat /\ BitmapSize(Len(r)) \in Nat
      BY <3>1, ChangedFinite DEF BitmapSize
    <3>5. BitmapSize(Len(r)) + Cardinality(Changed(r, base)) <= Len(r) + 1
      BY <2>4, <3>3 DEF DeltasFit, InsertDelta
    <3>6. pos + Len(r) + 1 < MemSize
      BY <2>4, <3>1, SizeAssumption DEF InsertDelta, Full
    <3> HIDE DEF base
    <3> QED BY <3>1, <3>2, <3>4, <3>5, <3>6, SizeAssumption DEF base
  <2>5. CASE UNCHANGED vars
    BY <2>5 DEF vars
  <2> QED BY <2>1, <2>2, <2>3, <2>4, <2>5 DEF Next, Insert
<1>3. PosInv => WritesInside
  BY DEF WritesInside
<1> QED BY <1>1, <1>2, <1>3, Inductive, PTL DEF Spec
=============================================================================
