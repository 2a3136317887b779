---------------------------- MODULE MCWiflyLink ----------------------------
(***************************************************************************)
(* The times of the code (5 s and 3 s) scaled to 2 and 1, so that a wait   *)
(* ends after three looks at the clock and a radio is told to sleep again  *)
(* after two.  Of the two intervals one ends later than the wait of the    *)
(* wake before, as the default of 15 s does; with the other a wake may     *)
(* come while the driver waits, as the host can configure it.              *)
(***************************************************************************)
EXTENDS WiflyLink
=============================================================================
