----------------------------- MODULE MCMonitors -----------------------------
(***************************************************************************)
(* Two positions, the smallest number of which one can be left for another,*)
(* the two touch sensors, and the radio's pin on the same port.            *)
(***************************************************************************)
EXTENDS Monitors
=============================================================================
