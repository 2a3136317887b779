---------------------------- MODULE MCSensorNode ----------------------------
(***************************************************************************)
(* A ring that holds two reports, so that two runs that are cut short make *)
(* it overflow, and a store of two records; one of the two sets of fields  *)
(* uses the monitor list.                                                  *)
(***************************************************************************)
EXTENDS SensorNode
=============================================================================
