----------------------------- MODULE RecordStore -----------------------------
(***************************************************************************)
(* protocol/recordstore.c: the memory block in which reports wait for the  *)
(* wireless link.  The first record of each length is stored whole; a      *)
(* later record of the same length is stored as a bitmap of the bytes that *)
(* differ from it, followed by those bytes.                                *)
(*                                                                         *)
(* The block is modelled as the sequence of stored items together with the *)
(* byte position the code writes at next.  recordstore_start_new_block and *)
(* recordstore_flush_sent_block have no caller and are left out, and so    *)
(* are the stat_ counters, which nothing reads.                            *)
(***************************************************************************)
EXTENDS Integers, Sequences, FiniteSets

CONSTANTS Byte,      \* the values of a byte of a record
          Record,    \* the records that callers insert, sequences of bytes
          MemSize,   \* RECORDSTORE_MEMSIZE
          Header,    \* bytes of packet_construct_recordstore_header
          MaxRecords \* bound of the model: records accepted between two clears

ASSUME RecordAssumption == Record \subseteq Seq(Byte)
ASSUME SizeAssumption == MemSize \in Nat /\ Header \in Nat /\ Header <= MemSize
ASSUME BoundAssumption == MaxRecords \in Nat

VARIABLES
    items,     \* the memory block: what has been stored since it was cleared
    firsts,    \* first_record_pointers, as positions in items
    pos,       \* memblock_pos - memblock_raw
    accepted   \* history: the records that were not refused since the clear

vars == <<items, firsts, pos, accepted>>

(* (len + 7) / 8 *)
BitmapSize(len) == (len + 7) \div 8

Changed(r, base) == {b \in 1 .. Len(r) : r[b] # base[b]}

Whole(r) == [first |-> TRUE, len |-> Len(r), bytes |-> r]

DeltaSkipsLast(r, base) ==     \* mutant: the loop stops before the last byte
    [first |-> FALSE, len |-> Len(r), bytes |-> [b \in Changed(r, base) \ {Len(r)} |-> r[b]]]

Delta(r, base) == [first |-> FALSE, len |-> Len(r),
                   bytes |-> [b \in Changed(r, base) |-> r[b]]]

(***************************************************************************)
(* How the receiver of the block reads item i: a whole record as it is, a  *)
(* delta against the whole record of the same length.                      *)
(***************************************************************************)
BaseItem(s, len) == s[CHOOSE k \in DOMAIN s : s[k].first /\ s[k].len = len]

DecodeItem(s, i) ==
    IF s[i].first THEN s[i].bytes
    ELSE [b \in 1 .. s[i].len |-> IF b \in DOMAIN s[i].bytes THEN s[i].bytes[b]
                                  ELSE BaseItem(s, s[i].len).bytes[b]]

Decode(s) == [i \in DOMAIN s |-> DecodeItem(s, i)]

-----------------------------------------------------------------------------
Init == items = << >> /\ firsts = << >> /\ pos = Header /\ accepted = << >>

TooBig(r) == Len(r) >= 128

FullOffByOne(r) == pos + Len(r) + 1 > MemSize      \* mutant: the guard is off by one
Full(r) == pos + Len(r) + 1 >= MemSize

(* the indices c at which the search loop may stop *)
SameLength(r) == {c \in DOMAIN firsts : items[firsts[c]].len = Len(r)}

(* recordstore_insert of a record it has no room or no length byte for *)
InsertRefused(r) == /\ TooBig(r) \/ Full(r)
                    /\ UNCHANGED vars

InsertFirstForgotten(r) ==     \* mutant: first_record_pos is not incremented
    /\ ~TooBig(r) /\ ~Full(r)
    /\ SameLength(r) = {}
    /\ items' = Append(items, Whole(r))
    /\ pos' = pos + Len(r) + 1
    /\ accepted' = Append(accepted, r)
    /\ UNCHANGED firsts

(* recordstore_insert of the first record of its length *)
InsertFirst(r) == /\ ~TooBig(r) /\ ~Full(r)
                  /\ SameLength(r) = {}
                  /\ items' = Append(items, Whole(r))
                  /\ firsts' = Append(firsts, Len(items) + 1)
                  /\ pos' = pos + Len(r) + 1
                  /\ accepted' = Append(accepted, r)

(* recordstore_insert of a later one, against the first match c *)
InsertDelta(r) ==
    /\ ~TooBig(r) /\ ~Full(r)
    /\ \E c \in SameLength(r) :
          LET base == items[firsts[c]].bytes
          IN  /\ \A d \in SameLength(r) : c <= d
              /\ items' = Append(items, Delta(r, base))
              /\ pos' = pos + 1 + BitmapSize(Len(r)) + Cardinality(Changed(r, base))
    /\ accepted' = Append(accepted, r)
    /\ UNCHANGED firsts

Insert(r) == InsertRefused(r) \/ InsertFirst(r) \/ InsertDelta(r)

(* recordstore_clear, which recordstore_init calls too *)
Clear == items' = << >> /\ firsts' = << >> /\ pos' = Header /\ accepted' = << >>

Next == Clear \/ (Len(accepted) < MaxRecords /\ \E r \in Record : Insert(r))

Spec == Init /\ [][Next]_vars

-----------------------------------------------------------------------------
ItemOK(it) == /\ it.first \in BOOLEAN /\ it.len \in 0 .. 127
              /\ DOMAIN it.bytes \subseteq 1 .. it.len
              /\ it.first => DOMAIN it.bytes = 1 .. it.len
              /\ \A b \in DOMAIN it.bytes : it.bytes[b] \in Byte

TypeOK == /\ DOMAIN items = 1 .. Len(items) /\ \A i \in DOMAIN items : ItemOK(items[i])
          /\ firsts \in Seq(1 .. Len(items))
          /\ pos \in Nat
          /\ accepted \in Seq(Record)

(* What recordstore_dump hands to the link decodes to exactly the records  *)
(* that were accepted since the last clear, in order, whatever mixture of  *)
(* lengths was inserted.                                                   *)
RoundTrip == Decode(items) = accepted

(* The pointers find every whole record, and there is one of each length:  *)
(* first_record_pointers never holds more entries than there are lengths.  *)
OneFirstPerLength ==
    /\ \A c, d \in DOMAIN firsts : items[firsts[c]].len = items[firsts[d]].len => c = d
    /\ {i \in DOMAIN items : items[i].first} = {firsts[c] : c \in DOMAIN firsts}

(* Records of one length that fit share so much that the bitmap is paid    *)
(* for: what the overflow test relies on.                                  *)
DeltasFit == \A r, base \in Record :
                Len(r) = Len(base) /\ ~TooBig(r) =>
                   BitmapSize(Len(r)) + Cardinality(Changed(r, base)) <= Len(r) + 1

(* recordstore.c:58-61: a record that does not fit is refused: no byte is  *)
(* written behind memblock_raw.                                            *)
WritesInside == pos <= MemSize
=============================================================================
