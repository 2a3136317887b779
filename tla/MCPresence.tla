----------------------------- MODULE MCPresence -----------------------------
(***************************************************************************)
(* A second of two counts and a clock that goes round after two seconds:   *)
(* a misread time is half a turn off, and three counts pass before the     *)
(* accumulators may wrap.  One timesync, and a release one second after    *)
(* somebody has moved last: more than no second ago.                       *)
(***************************************************************************)
EXTENDS Presence
=============================================================================
