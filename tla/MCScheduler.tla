---------------------------- MODULE MCScheduler ----------------------------
(***************************************************************************)
(* One list with three places.  The tick conversion is the code's: 0 ms   *)
(* is tick 0 and 1 ms is tick 7.  The timer counts to 31, far beyond the   *)
(* last task as in the code (8.4 s against less than one), and the RTC     *)
(* ticks every 4 ticks of Timer 1, so that there are RTC wakes before, at  *)
(* and after a task's time.  The lists share only list and eventpos, which *)
(* scheduler_start sets.                                                   *)
(***************************************************************************)
EXTENDS Scheduler

MCTimeMs == {0, 1, SCHEDULER_LAST_EVENTS}
MCCallTicks == {0, 1}
=============================================================================
