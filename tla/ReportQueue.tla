----------------------------- MODULE ReportQueue -----------------------------
(***************************************************************************)
(* protocol/report.c: the ring of reports.  A report is filled in through  *)
(* report_current() while it is the newest, and report_poplast takes the   *)
(* oldest away, which need not be the same one.                            *)
(***************************************************************************)
EXTENDS Integers

CONSTANT MAX_REPORTS

ASSUME MaxReportsAssumption == MAX_REPORTS \in Nat /\ MAX_REPORTS > 1

VARIABLES report_list, report_list_insert, report_list_remove,
          report_current_index              \* -1: there is no current report

queue == <<report_list, report_list_insert, report_list_remove, report_current_index>>

ReportIndex == 0 .. MAX_REPORTS - 1
NextIndex(i) == (i + 1) % MAX_REPORTS

(* report_init, with memory as the C runtime leaves it *)
ReportInit(blank) == /\ report_list = [i \in ReportIndex |-> blank]
                     /\ report_list_insert = 0 /\ report_list_remove = 0
                     /\ report_current_index = -1

Overflow == NextIndex(report_list_insert) = report_list_remove

ReportNewKeepsCurrent(r) ==             \* mutant: report_current_index is not set
    /\ report_list_remove' = IF Overflow THEN NextIndex(report_list_remove) ELSE report_list_remove
    /\ report_list' = [report_list EXCEPT ![report_list_insert] = r]
    /\ report_current_index' = IF report_current_index = -1 THEN report_list_insert ELSE report_current_index
    /\ report_list_insert' = NextIndex(report_list_insert)

(* report_new; a full ring loses its oldest report *)
ReportNew(r) ==
    /\ report_list_remove' = IF Overflow THEN NextIndex(report_list_remove) ELSE report_list_remove
    /\ report_list' = [report_list EXCEPT ![report_list_insert] = r]
    /\ report_current_index' = report_list_insert
    /\ report_list_insert' = NextIndex(report_list_insert)

(* report_poplast *)
ReportPopLast ==
    /\ IF report_list_remove = report_list_insert THEN UNCHANGED <<report_list_remove, report_current_index>>
       ELSE /\ report_list_remove' = NextIndex(report_list_remove)
            /\ report_current_index' = IF report_list_remove = report_current_index THEN -1
                                       ELSE report_current_index
    /\ UNCHANGED <<report_list, report_list_insert>>

Current == report_list[report_current_index]

(* report_current()->fields = f, where there is a current report *)
SetFields(f) == /\ report_list' = [report_list EXCEPT ![report_current_index].fields = f]
                /\ UNCHANGED <<report_list_insert, report_list_remove, report_current_index>>

(* how many reports the ring holds *)
ReportCount == (report_list_insert - report_list_remove) % MAX_REPORTS
=============================================================================
