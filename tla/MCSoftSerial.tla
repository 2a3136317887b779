---- MODULE MCSoftSerial ----
(***************************************************************************)
(* Bytes of one bit, a command of two bytes, answers of four that begin    *)
(* with a header of two, and a buffer with room for one more: a late answer*)
(* and the next, with a stray byte among them, run round its end and fill  *)
(* it.                                                                     *)
(***************************************************************************)
EXTENDS SoftSerial

Zero == [i \in 0 .. 0 |-> 0]
One == [i \in 0 .. 0 |-> 1]
MCReadCmd == <<Zero, One>>
MCHeader == <<One, Zero>>
MCValues == {<<One, One>>, <<Zero, One>>}
MCStray == {One}
MCCRC == <<>>

(* Neither header of the run is found anywhere but at an answer's head. *)
ASSUME HeaderAssumption == HeaderUnmistakable
====
