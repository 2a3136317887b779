------------------------------ MODULE DataLink ------------------------------
(***************************************************************************)
(* What protocol/datalink.h promises to logic.c: a call of datalink_wake   *)
(* is answered by the ready callback, at once or later, or not at all; the *)
(* callback is never called without a wake, and once for a wake.           *)
(***************************************************************************)
VARIABLE state    \* "idle", "waiting" for the connection, or in the callback's "session"

Init == state = "idle"

Wake == state \in {"idle", "waiting"} /\ state' = "waiting"     \* datalink_wake

(* the ready callback, before datalink_wake returns or later *)
Ready == state = "waiting" /\ state' = "session"

GiveUp == state = "waiting" /\ state' = "idle"

Finish == state = "session" /\ state' = "idle"

Next == Wake \/ Ready \/ GiveUp \/ Finish

(* Waiting ends and so does a session. *)
Fairness == WF_state(Ready \/ GiveUp) /\ WF_state(Finish)

Spec == Init /\ [][Next]_state /\ Fairness
=============================================================================
