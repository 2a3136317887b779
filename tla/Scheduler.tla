------------------------------ MODULE Scheduler ------------------------------
(***************************************************************************)
(* utils/scheduler.c: lists of tasks sorted by time, and scheduler_start,  *)
(* which starts Timer 1, calls each task of one list when its time has     *)
(* come and dozes in between.  The compare interrupt that should end a     *)
(* doze is lost when the timer passes the task's time before the chip is   *)
(* asleep; then the next tick of the RTC or a pin change wakes it.         *)
(*                                                                         *)
(* A callback is what it does to the scheduler: it takes time.  Only the   *)
(* callbacks of pcint_check reach the host link and with it                *)
(* cmd_configure_sensor_cb, which resets the lists and adds tasks.         *)
(* maxtime is written and never read, and is left out.                     *)
(***************************************************************************)
EXTENDS Integers, Sequences, FiniteSets

CONSTANTS List,         \* the task lists
          TaskId,
          TimeMs,       \* the times that callers pass to scheduler_add_task
          MaxEvents,    \* MAX_EVENTS
          TimerMod,     \* 2^16: Timer 1 counts modulo this
          RtcPeriod,    \* ticks of Timer 1 from one RTC interrupt to the next
          CallTicks,    \* how long a callback may take
          MaxTasks      \* bound of the model: tasks in all lists together

ASSUME TimerAssumption == TimerMod \in Nat /\ RtcPeriod \in Nat \ {0}
ASSUME MaxEventsAssumption == MaxEvents \in Nat
ASSUME CallAssumption == CallTicks \subseteq Nat

SCHEDULER_LAST_EVENTS == TimerMod - 1

ASSUME TimeAssumption == TimeMs \subseteq Nat /\ TimerMod > 0

VARIABLES
    event_lists,   \* event_lists[l][1 .. numevents[l]]
    eventpos,
    list,          \* the argument of scheduler_start
    TCNT1, OCR1A,  \* Timer 1: counter and compare register
    rtc,           \* ticks since the last RTC interrupt
    pc,            \* where scheduler_start is; TCCR1B # 0 unless "stopped"
    added,         \* history: the events of each list in the order of arrival
    ran,           \* history: the events called since scheduler_start, with TCNT1
    whole          \* history: no scheduler_reset since scheduler_start

lists == <<event_lists, added>>
timer == <<TCNT1, OCR1A, rtc>>
vars == <<event_lists, eventpos, list, TCNT1, OCR1A, rtc, pc, added, ran, whole>>

(* 8 MHz: (uint16_t)((uint32_t)1000 * time_ms / 128) *)
Ticks(time_ms) == IF time_ms = SCHEDULER_LAST_EVENTS THEN SCHEDULER_LAST_EVENTS
                  ELSE ((1000 * time_ms) \div 128) % TimerMod

Event == [task_id : TaskId, time : 0 .. TimerMod - 1]

Events == event_lists[list]

scheduler_running == pc # "stopped"

(* d ticks of Timer 1 go by *)
Elapse(d) == /\ TCNT1' = (TCNT1 + d) % TimerMod
             /\ rtc' = (rtc + d) % RtcPeriod

-----------------------------------------------------------------------------
Init == /\ event_lists = [l \in List |-> << >>] /\ added = event_lists
        /\ eventpos = 0 /\ list \in List
        /\ TCNT1 = 0 /\ OCR1A = TimerMod - 1 /\ rtc = 0
        /\ pc = "stopped" /\ ran = << >> /\ whole = TRUE

(* the p where the shifting loop stops: what follows is later than time *)
StopsAtUnstable(s, time, p) ==          \* mutant: shifts events of the same time
    /\ p > 0 => s[p].time < time
    /\ \A q \in p + 1 .. Len(s) : s[q].time >= time

StopsAt(s, time, p) == /\ p > 0 => s[p].time <= time
                       /\ \A q \in p + 1 .. Len(s) : s[q].time > time

InsertAfter(s, p, e) ==
    [i \in 1 .. Len(s) + 1 |-> IF i <= p THEN s[i] ELSE IF i = p + 1 THEN e ELSE s[i - 1]]

Full(l) == Len(event_lists[l]) = MaxEvents

AddRefused(l) == (Full(l) \/ scheduler_running) /\ UNCHANGED vars

(* scheduler_add_task *)
AddTask(l, task_id, time_ms) ==
    LET e == [task_id |-> task_id, time |-> Ticks(time_ms)]
        s == event_lists[l]
    IN  /\ ~Full(l) /\ ~scheduler_running
        /\ \E p \in 0 .. Len(s) : /\ StopsAt(s, e.time, p)
                                  /\ event_lists' = [event_lists EXCEPT ![l] = InsertAfter(s, p, e)]
        /\ added' = [added EXCEPT ![l] = Append(@, e)]
        /\ UNCHANGED <<eventpos, list, timer, pc, ran, whole>>

(* s without the events of task_id: f[p2] is the p1 that is copied to p2 *)
Without(s, task_id, t) ==
    LET kept == {i \in DOMAIN s : s[i].task_id # task_id}
        n == Cardinality(kept)
    IN  \E f \in [1 .. n -> kept] : /\ \A i, j \in 1 .. n : i < j => f[i] < f[j]
                                    /\ t = [i \in 1 .. n |-> s[f[i]]]

Compactions(s) == UNION {[1 .. n -> {s[i] : i \in DOMAIN s}] : n \in 0 .. Len(s)}

(* scheduler_remove_tasks *)
RemoveTasks(l, task_id) ==
    /\ ~scheduler_running
    /\ \E t \in Compactions(event_lists[l]) :
          Without(event_lists[l], task_id, t) /\ event_lists' = [event_lists EXCEPT ![l] = t]
    /\ \E t \in Compactions(added[l]) :
          Without(added[l], task_id, t) /\ added' = [added EXCEPT ![l] = t]
    /\ UNCHANGED <<eventpos, list, timer, pc, ran, whole>>

(* scheduler_reset *)
Reset == /\ event_lists' = [l \in List |-> << >>] /\ added' = event_lists'
         /\ eventpos' = 0
         /\ whole' = FALSE

ResetStopped == ~scheduler_running /\ Reset /\ UNCHANGED <<list, timer, pc, ran>>

-----------------------------------------------------------------------------
StartKeepsPosition(l) ==                 \* mutant: eventpos is not set to 0
    /\ pc = "stopped" /\ pc' = "run" /\ list' = l
    /\ TCNT1' = 0 /\ eventpos' = eventpos /\ OCR1A' = TimerMod - 1
    /\ ran' = << >> /\ whole' = TRUE
    /\ rtc' \in 0 .. RtcPeriod - 1
    /\ UNCHANGED lists

(* scheduler_start; the RTC is anywhere in its period *)
Start(l) == /\ pc = "stopped" /\ pc' = "run" /\ list' = l
            /\ TCNT1' = 0 /\ eventpos' = 0 /\ OCR1A' = TimerMod - 1
            /\ ran' = << >> /\ whole' = TRUE
            /\ rtc' \in 0 .. RtcPeriod - 1
            /\ UNCHANGED lists

Ended == eventpos >= Len(Events)

DueEarly == ~Ended /\ Events[eventpos + 1].time <= TCNT1 + 1     \* mutant
Due == ~Ended /\ Events[eventpos + 1].time <= TCNT1

Call == /\ ran' = Append(ran, [event |-> Events[eventpos + 1], at |-> TCNT1])
        /\ eventpos' = eventpos + 1
        /\ \E d \in CallTicks : Elapse(d)
        /\ UNCHANGED <<lists, list, OCR1A, whole>>

(* a turn of the loop of _scheduler_run_tasks *)
RunTask == pc = "run" /\ Due /\ Call /\ pc' = pc

OnlyLast == ~Ended => Events[eventpos + 1].time = SCHEDULER_LAST_EVENTS

(* the break of the main loop *)
Break == /\ pc = "run" /\ ~Due /\ OnlyLast
         /\ pc' = "last"
         /\ UNCHANGED <<lists, eventpos, list, timer, ran, whole>>

(* OCR1A is written and the chip goes to doze; a tick may come first *)
Doze == /\ pc = "run" /\ ~Due /\ ~OnlyLast
        /\ OCR1A' = Events[eventpos + 1].time
        /\ \E d \in {0, 1} : Elapse(d)
        /\ pc' = "doze"
        /\ UNCHANGED <<lists, eventpos, list, ran, whole>>

TickNoRtc == /\ pc = "doze"                        \* mutant: the RTC does not wake the chip
             /\ Elapse(1)
             /\ pc' = IF TCNT1' = OCR1A THEN "pcint" ELSE "doze"
             /\ UNCHANGED <<lists, eventpos, list, OCR1A, ran, whole>>

(* a tick while the chip dozes: the compare or the RTC interrupt may wake it *)
Tick == /\ pc = "doze"
        /\ Elapse(1)
        /\ pc' = IF TCNT1' = OCR1A \/ rtc' = 0 THEN "pcint" ELSE "doze"
        /\ UNCHANGED <<lists, eventpos, list, OCR1A, ran, whole>>

(* any other interrupt, a pin or the UART, wakes it too *)
OtherWake == /\ pc = "doze" /\ pc' = "pcint"
             /\ UNCHANGED <<lists, eventpos, list, timer, ran, whole>>

(* pcint_check, whose callbacks may leave the lists alone ... *)
Pcint == /\ pc = "pcint" /\ pc' = "run"
         /\ \E d \in CallTicks : Elapse(d)
         /\ UNCHANGED <<lists, eventpos, list, OCR1A, ran, whole>>

(* ... or reconfigure: the lists are reset and every task added is refused *)
PcintReconfigure == /\ pc = "pcint" /\ pc' = "run"
                    /\ Reset
                    /\ \E d \in CallTicks : Elapse(d)
                    /\ UNCHANGED <<list, OCR1A, ran>>

RunLastStuck == /\ pc = "last" /\ ~Ended /\ pc' = pc         \* mutant: eventpos is not incremented
                /\ \E d \in CallTicks : Elapse(d)
                /\ UNCHANGED <<lists, eventpos, list, OCR1A, ran, whole>>

(* the closing loop, which does not look at the time *)
RunLast == pc = "last" /\ ~Ended /\ Call /\ pc' = pc

Stop == /\ pc = "last" /\ Ended /\ pc' = "stopped"
        /\ ran' = << >>                  \* the history of this run is no longer needed
        /\ UNCHANGED <<lists, eventpos, list, timer, whole>>

-----------------------------------------------------------------------------
Room(l) == \/ Len(event_lists[l]) >= MaxEvents
           \/ Cardinality(UNION {{<<k, i>> : i \in DOMAIN event_lists[k]} : k \in List}) < MaxTasks

Program == RunTask \/ Break \/ Doze \/ Pcint \/ PcintReconfigure \/ RunLast \/ Stop

Next == \/ \E l \in List : \/ Start(l)
                           \/ AddRefused(l)
                           \/ \E id \in TaskId : \/ RemoveTasks(l, id)
                                                 \/ Room(l) /\ \E t \in TimeMs : AddTask(l, id, t)
        \/ ResetStopped
        \/ Program \/ Tick \/ OtherWake

(* The program takes its steps, and the timer counts however often the     *)
(* chip is woken early: a wake takes time, so there is no end of wakes     *)
(* between two ticks.                                                      *)
Fairness == WF_vars(Program) /\ SF_vars(Tick)

Spec == Init /\ [][Next]_vars /\ Fairness

-----------------------------------------------------------------------------
TypeOK == /\ event_lists \in [List -> Seq(Event)]
          /\ \A l \in List : Len(event_lists[l]) <= MaxEvents
          /\ added \in [List -> Seq(Event)]
          /\ list \in List
          /\ eventpos \in Nat
          /\ TCNT1 \in 0 .. TimerMod - 1 /\ OCR1A \in 0 .. TimerMod - 1
          /\ rtc \in 0 .. RtcPeriod - 1
          /\ pc \in {"stopped", "run", "doze", "pcint", "last"}
          /\ ran \in Seq([event : Event, at : 0 .. TimerMod - 1])
          /\ whole \in BOOLEAN

(* Where a stable sort by time puts event i of s. *)
Rank(s, i) == Cardinality({j \in DOMAIN s : s[j].time < s[i].time \/ (s[j].time = s[i].time /\ j <= i)})

(* Each list is what was added to it, sorted by time, with tasks of the    *)
(* same time in the order in which they were added: logic.c relies on it   *)
(* when it adds task_print_report, task_send_report and report_poplast at  *)
(* the same time.                                                          *)
StableSorted == \A l \in List :
    /\ Len(event_lists[l]) = Len(added[l])
    /\ \A i \in DOMAIN added[l] : event_lists[l][Rank(added[l], i)] = added[l][i]

(* No task is called before its time, although the closing loop of         *)
(* scheduler_start does not compare times, and the SCHEDULER_LAST_EVENTS   *)
(* tasks are called after all others.                                      *)
NeverEarly == \A i \in DOMAIN ran :
    /\ ran[i].event.time = SCHEDULER_LAST_EVENTS \/ ran[i].at >= ran[i].event.time
    /\ \A j \in 1 .. i : ran[j].event.time <= ran[i].event.time

(* A scheduler_start that no reset cuts short calls every task of its list *)
(* exactly once, in the list's order.                                      *)
RunsAllOnce == [][pc = "last" /\ pc' = "stopped" /\ whole =>
                    [i \in DOMAIN ran |-> ran[i].event] = Events]_vars

(* A lost compare interrupt delays a task by one RTC period at most.       *)
Timely == pc = "doze" /\ ~Ended => TCNT1 < Events[eventpos + 1].time + RtcPeriod

(* scheduler_start returns, whatever wakes the chip and whatever happens   *)
(* to the list meanwhile.                                                  *)
Terminates == scheduler_running ~> ~scheduler_running
=============================================================================
