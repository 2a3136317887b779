---------------------------- MODULE MCReportCycle ----------------------------
(***************************************************************************)
(* A clock that wraps after 8 s, intervals of one to three seconds and a   *)
(* retry after one; the host sends two packets, anywhere.                  *)
(***************************************************************************)
EXTENDS ReportCycle
=============================================================================
