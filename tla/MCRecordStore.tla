---------------------------- MODULE MCRecordStore ----------------------------
(***************************************************************************)
(* Records as logic.c builds them: a device id (9 bytes that share only    *)
(* the board's with other records), the monitor reports (9 bytes with      *)
(* their state byte) and a periodic report of ReportLength bytes: board,   *)
(* message type, four bytes of time, two of fields, and readings.  Board,  *)
(* type and fields are the same as in the reports before it; the other     *)
(* bytes change or do not.                                                 *)
(*                                                                         *)
(* RECORDSTORE_MEMSIZE is 12000; what happens at its end depends only on   *)
(* the room that is left, so a block for a few records is enough.          *)
(***************************************************************************)
EXTENDS RecordStore

CONSTANT ReportLength    \* bytes of a report with the configured fields

FixedBytes == {1, 2, 7, 8}

Report(changed, value) ==
    [b \in 1 .. ReportLength |-> IF b \in changed \ FixedBytes THEN value ELSE 0]

MCRecord ==
    {[b \in 1 .. 9 |-> IF b = 1 THEN 0 ELSE IF b = 2 THEN 6 ELSE 1]}  \* device id
    \cup {[b \in 1 .. 9 |-> IF b = 9 THEN s ELSE 0] : s \in {0, 1}}   \* monitor report
    \cup {Report(changed, value) :                                    \* periodic report
             changed \in {{3}, 3 .. ReportLength}, value \in {1}}
    \cup {[b \in 1 .. 128 |-> 0]}                                     \* too big

MCByte == 0 .. 6

(* the default reports satisfy what NoOverrun assumes *)
ASSUME DefaultReportsFit == ReportLength = 36 => DeltasFit
=============================================================================
