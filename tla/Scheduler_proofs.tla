-------------------------- MODULE Scheduler_proofs --------------------------
(***************************************************************************)
(* Proofs about Scheduler for any lists, times and timer width: the types, *)
(* that tasks run in the order of their times and never before them, that  *)
(* an undisturbed scheduler_start calls every task once, that a lost       *)
(* interrupt costs one RTC period, and that the lists are sorted stably.   *)
(*                                                                         *)
(* Neither is inductive.  That the closing loop, which compares no times,  *)
(* calls no task early holds because a list is Sorted: behind a task of    *)
(* SCHEDULER_LAST_EVENTS there are only such tasks (OnlyLastLeft).  What   *)
(* has been called is a prefix of the list (RanPrefix) unless a reset has  *)
(* emptied the lists, and then nothing more is called, because every task  *)
(* added before scheduler_start returns is refused (EmptyAfterReset).      *)
(***************************************************************************)
EXTENDS Scheduler, SequenceTheorems, FiniteSetTheorems, TLAPS

Sorted == \A l \in List : \A i, j \in 1 .. Len(event_lists[l]) :
             i < j => event_lists[l][i].time <= event_lists[l][j].time

RanPrefix == pc # "stopped" /\ whole =>
                /\ Len(ran) = eventpos /\ eventpos <= Len(Events)
                /\ \A i \in 1 .. eventpos : ran[i].event = Events[i]

OnlyLastLeft == pc = "last" =>
                   \A i \in eventpos + 1 .. Len(Events) : Events[i].time = SCHEDULER_LAST_EVENTS

EmptyAfterReset == pc # "stopped" /\ ~whole => Len(Events) = 0

IInv == TypeOK /\ Sorted /\ RanPrefix /\ OnlyLastLeft /\ EmptyAfterReset /\ NeverEarly

(* The tick conversion of scheduler_add_task stays within the timer.       *)
LEMMA TicksType == \A t \in TimeMs : Ticks(t) \in 0 .. TimerMod - 1
<1>1. TAKE t \in TimeMs
<1>2. t \in Nat /\ TimerMod \in Nat \ {0}  BY TimeAssumption, TimerAssumption
<1>3. (1000 * t) \div 128 \in Nat  BY <1>2
<1>4. \A n \in Nat : n % TimerMod \in 0 .. TimerMod - 1  BY <1>2
<1> QED  BY <1>2, <1>3, <1>4 DEF Ticks, SCHEDULER_LAST_EVENTS

(* Time that goes by leaves the counters within their widths.              *)
LEMMA ElapseType ==
    ASSUME TypeOK, NEW d \in Nat, Elapse(d)
    PROVE  TCNT1' \in 0 .. TimerMod - 1 /\ rtc' \in 0 .. RtcPeriod - 1
<1>1. TimerMod \in Nat \ {0} /\ RtcPeriod \in Nat \ {0}  BY TimeAssumption, TimerAssumption
<1>2. \A n \in Nat : n % TimerMod \in 0 .. TimerMod - 1 /\ n % RtcPeriod \in 0 .. RtcPeriod - 1
      BY <1>1
<1>3. TCNT1 + d \in Nat /\ rtc + d \in Nat  BY DEF TypeOK
<1> QED  BY <1>2, <1>3 DEF Elapse

(* A list with an event inserted where the shifting loop stops is a list   *)
(* of one more event and sorted if the list was.                           *)
LEMMA InsertSorts ==
    ASSUME NEW s \in Seq(Event), NEW e \in Event, NEW p \in 0 .. Len(s), StopsAt(s, e.time, p),
           \A i, j \in 1 .. Len(s) : i < j => s[i].time <= s[j].time
    PROVE  /\ InsertAfter(s, p, e) \in Seq(Event)
           /\ Len(InsertAfter(s, p, e)) = Len(s) + 1
           /\ \A i, j \in 1 .. Len(s) + 1 :
                 i < j => InsertAfter(s, p, e)[i].time <= InsertAfter(s, p, e)[j].time
<1> DEFINE t == InsertAfter(s, p, e)
           n == Len(s)
<1>0. \A x \in Event : x.time \in Int  BY TimerAssumption DEF Event
<1>1. n \in Nat /\ \A i \in 1 .. n : s[i] \in Event /\ s[i].time \in Int  BY <1>0
<1>2. t \in [1 .. n + 1 -> Event]  BY <1>1 DEF InsertAfter
<1>3. t \in Seq(Event) /\ Len(t) = n + 1  BY <1>1, <1>2, LenProperties, IsASeq, SeqDef
<1>4. ASSUME NEW i \in 1 .. n + 1, NEW j \in 1 .. n + 1, i < j
      PROVE  t[i].time <= t[j].time
      <2>1. t[i] = IF i <= p THEN s[i] ELSE IF i = p + 1 THEN e ELSE s[i - 1]  BY DEF InsertAfter
      <2>2. t[j] = IF j <= p THEN s[j] ELSE IF j = p + 1 THEN e ELSE s[j - 1]  BY DEF InsertAfter
      <2>3. p > 0 => s[p].time <= e.time  BY DEF StopsAt
      <2>4. \A q \in p + 1 .. n : s[q].time > e.time  BY DEF StopsAt
      <2>5. \A k \in 1 .. p : s[k].time <= e.time  BY <1>1, <2>3, TimerAssumption DEF Event
      <2>6. e.time \in Int  BY TimerAssumption DEF Event
      <2>7. CASE j <= p  BY <2>1, <2>2, <2>7, <1>1, <1>4
      <2>8. CASE j = p + 1  BY <2>1, <2>2, <2>5, <2>8, <1>1, <1>4
      <2>9. CASE j > p + 1 /\ i <= p
            <3>1. t[j] = s[j - 1] /\ j - 1 \in p + 1 .. n /\ t[i] = s[i] /\ i \in 1 .. p
                  BY <2>1, <2>2, <2>9, <1>1
            <3>2. s[j - 1].time > e.time /\ s[i].time <= e.time  BY <2>4, <2>5, <3>1
            <3>3. s[j - 1].time \in Int /\ s[i].time \in Int  BY <1>1, <3>1
            <3> QED  BY <2>6, <3>1, <3>2, <3>3
      <2>10. CASE j > p + 1 /\ i = p + 1
            <3>1. t[j] = s[j - 1] /\ j - 1 \in p + 1 .. n /\ t[i] = e  BY <2>1, <2>2, <2>10, <1>1
            <3>2. s[j - 1].time > e.time /\ s[j - 1].time \in Int  BY <2>4, <1>1, <3>1
            <3> QED  BY <2>6, <3>1, <3>2
      <2>11. CASE j > p + 1 /\ i > p + 1
            <3>1. t[j] = s[j - 1] /\ j - 1 \in 1 .. n /\ t[i] = s[i - 1] /\ i - 1 \in 1 .. n
                  BY <2>1, <2>2, <2>11, <1>1, <1>4
            <3> QED  BY <3>1, <1>4
      <2> QED  BY <2>7, <2>8, <2>9, <2>10, <2>11
<1> QED  BY <1>3, <1>4

(* scheduler_remove_tasks leaves a list that is no longer, and sorted if   *)
(* the list was.                                                           *)
LEMMA RemoveSorts ==
    ASSUME NEW s \in Seq(Event), NEW id, NEW t \in Compactions(s), Without(s, id, t)
    PROVE  /\ t \in Seq(Event) /\ Len(t) <= Len(s)
           /\ (\A i, j \in 1 .. Len(s) : i < j => s[i].time <= s[j].time)
              => (\A i, j \in 1 .. Len(t) : i < j => t[i].time <= t[j].time)
<1>1. PICK m \in 0 .. Len(s) : t \in [1 .. m -> {s[i] : i \in DOMAIN s}]  BY DEF Compactions
<1>2. {s[i] : i \in DOMAIN s} \subseteq Event  OBVIOUS
<1>3. t \in [1 .. m -> Event] /\ m \in Nat  BY <1>1, <1>2
<1>4. t \in Seq(Event) /\ Len(t) = m  BY <1>3, LenProperties, IsASeq, SeqDef
<1> DEFINE kept == {i \in DOMAIN s : s[i].task_id # id}
           n == Cardinality(kept)
<1>5. PICK f \in [1 .. n -> kept] : /\ \A i, j \in 1 .. n : i < j => f[i] < f[j]
                                    /\ t = [i \in 1 .. n |-> s[f[i]]]  BY DEF Without
<1>6. 1 .. n = 1 .. m  BY <1>3, <1>5
<1>7. ASSUME \A i, j \in 1 .. Len(s) : i < j => s[i].time <= s[j].time,
             NEW i \in 1 .. Len(t), NEW j \in 1 .. Len(t), i < j
      PROVE  t[i].time <= t[j].time
      <2>1. i \in 1 .. n /\ j \in 1 .. n  BY <1>4, <1>6
      <2>2. f[i] \in DOMAIN s /\ f[j] \in DOMAIN s  BY <1>5, <2>1
      <2>3. f[i] < f[j]  BY <1>5, <1>7, <2>1
      <2> QED  BY <1>5, <1>7, <2>1, <2>2, <2>3
<1> QED  BY <1>1, <1>4, <1>7

-----------------------------------------------------------------------------
LEMMA InitInv == Init => IInv
<1> SUFFICES ASSUME Init PROVE IInv  OBVIOUS
<1>0. TimerMod \in Nat \ {0} /\ RtcPeriod \in Nat \ {0} /\ MaxEvents \in Nat
      BY TimeAssumption, TimerAssumption, MaxEventsAssumption
<1>1. \A l \in List : event_lists[l] = << >>  BY DEF Init
<1>2. << >> \in Seq(Event) /\ Len(<< >>) = 0  OBVIOUS
<1>3. ran = << >> /\ pc = "stopped"  BY DEF Init
<1>4. TypeOK  BY <1>0, <1>1, <1>2 DEF TypeOK, Init
<1>5. Sorted  BY <1>1 DEF Sorted
<1>6. RanPrefix /\ OnlyLastLeft /\ EmptyAfterReset  BY <1>3 DEF RanPrefix, OnlyLastLeft, EmptyAfterReset
<1>7. NeverEarly  BY <1>3 DEF NeverEarly
<1> QED  BY <1>4, <1>5, <1>6, <1>7 DEF IInv

(* Steps that leave the lists, the position and what has run alone keep    *)
(* everything but the types of the timer.                                  *)
LEMMA PassiveStep ==
    ASSUME IInv, UNCHANGED <<lists, eventpos, list, ran, whole>>,
           pc # "stopped", pc' \in {"run", "doze", "pcint"},
           TCNT1' \in 0 .. TimerMod - 1, OCR1A' \in 0 .. TimerMod - 1, rtc' \in 0 .. RtcPeriod - 1
    PROVE  IInv'
<1>1. TypeOK'  BY DEF TypeOK, IInv, lists
<1>2. Sorted' /\ NeverEarly'  BY DEF Sorted, NeverEarly, IInv, lists
<1>3. RanPrefix' /\ OnlyLastLeft' /\ EmptyAfterReset'
      BY DEF RanPrefix, OnlyLastLeft, EmptyAfterReset, IInv, lists, Events
<1> QED  BY <1>1, <1>2, <1>3 DEF IInv

(* A call of the next task keeps the invariant, if its time has come or it *)
(* has none.                                                               *)
LEMMA CallStep ==
    ASSUME IInv, Call, ~Ended, pc \in {"run", "last"}, pc' = pc,
           \/ Events[eventpos + 1].time <= TCNT1
           \/ Events[eventpos + 1].time = SCHEDULER_LAST_EVENTS
    PROVE  IInv'
<1> DEFINE e == Events[eventpos + 1]
           r == [event |-> e, at |-> TCNT1]
<1>0. TypeOK  BY DEF IInv
<1>1. UNCHANGED <<event_lists, added, list, OCR1A, whole>>  BY DEF Call, lists
<1>2. Events \in Seq(Event) /\ eventpos \in Nat /\ Len(Events) \in Nat  BY <1>0 DEF TypeOK, Events
<1>3. eventpos + 1 \in 1 .. Len(Events)  BY <1>2 DEF Ended
<1>4. e \in Event /\ e.time \in 0 .. TimerMod - 1
      <2>1. e \in Event  BY <1>2, <1>3
      <2> QED  BY <2>1 DEF Event
<1>5. whole  BY <1>3 DEF IInv, EmptyAfterReset
<1>6. /\ Len(ran) = eventpos
      /\ \A i \in 1 .. eventpos : ran[i].event = Events[i]
      BY <1>5 DEF IInv, RanPrefix
<1>7. r \in [event : Event, at : 0 .. TimerMod - 1]  BY <1>0, <1>4 DEF TypeOK
<1>8. ran \in Seq([event : Event, at : 0 .. TimerMod - 1])  BY <1>0 DEF TypeOK
<1>9. ran' = Append(ran, r)  BY DEF Call
<1>10. /\ ran' \in Seq([event : Event, at : 0 .. TimerMod - 1])
       /\ Len(ran') = eventpos + 1
       /\ \A i \in 1 .. eventpos : ran'[i] = ran[i]
       /\ ran'[eventpos + 1] = r
       BY <1>6, <1>7, <1>8, <1>9, AppendProperties
<1>11. eventpos' = eventpos + 1 /\ Events' = Events  BY <1>1 DEF Call, Events
<1>12. TypeOK'
       <2>1. PICK d \in CallTicks : Elapse(d)  BY DEF Call
       <2>2. d \in Nat  BY CallAssumption, <2>1
       <2>3. TCNT1' \in 0 .. TimerMod - 1 /\ rtc' \in 0 .. RtcPeriod - 1
             BY <1>0, <2>1, <2>2, ElapseType
       <2> QED  BY <1>0, <1>1, <1>2, <1>10, <1>11, <2>3 DEF TypeOK
<1>13. Sorted'  BY <1>1 DEF IInv, Sorted
<1>14. RanPrefix'  BY <1>2, <1>3, <1>6, <1>10, <1>11 DEF RanPrefix
<1>15. OnlyLastLeft'  BY <1>2, <1>11 DEF IInv, OnlyLastLeft
<1>16. EmptyAfterReset'  BY <1>1, <1>5 DEF EmptyAfterReset
<1>17. NeverEarly'
       <2>1. DOMAIN ran' = 1 .. eventpos + 1 /\ DOMAIN ran = 1 .. eventpos
             BY <1>6, <1>8, <1>10, LenProperties
       <2>2. \A i \in 1 .. eventpos :
                /\ ran[i].event.time = SCHEDULER_LAST_EVENTS \/ ran[i].at >= ran[i].event.time
                /\ \A j \in 1 .. i : ran[j].event.time <= ran[i].event.time
             BY <2>1 DEF IInv, NeverEarly
       <2>3. r.event.time = SCHEDULER_LAST_EVENTS \/ r.at >= r.event.time
             BY <1>0, <1>4 DEF TypeOK
       <2>4. list \in List  BY <1>0 DEF TypeOK
       <2>5. \A j \in 1 .. eventpos : Events[j].time <= e.time
             BY <1>2, <1>3, <2>4 DEF IInv, Sorted, Events
       <2>6. \A j \in 1 .. eventpos + 1 : ran'[j].event.time <= e.time
             BY <1>2, <1>4, <1>6, <1>10, <2>5
       <2>7. ASSUME NEW i \in 1 .. eventpos + 1
             PROVE  /\ ran'[i].event.time = SCHEDULER_LAST_EVENTS \/ ran'[i].at >= ran'[i].event.time
                    /\ \A j \in 1 .. i : ran'[j].event.time <= ran'[i].event.time
             <3>1. CASE i \in 1 .. eventpos
                   <4>1. \A j \in 1 .. i : j \in 1 .. eventpos  BY <1>2, <3>1
                   <4> QED  BY <1>10, <2>2, <3>1, <4>1
             <3>2. CASE i = eventpos + 1  BY <1>10, <2>3, <2>6, <3>2
             <3> QED  BY <1>2, <3>1, <3>2
       <2> QED  BY <2>1, <2>7 DEF NeverEarly
<1> QED  BY <1>12, <1>13, <1>14, <1>15, <1>16, <1>17 DEF IInv

-----------------------------------------------------------------------------
LEMMA NextInv == IInv /\ [Next]_vars => IInv'
<1> SUFFICES ASSUME IInv, [Next]_vars PROVE IInv'  OBVIOUS
<1>0. TypeOK  BY DEF IInv
<1>N. TimerMod \in Nat \ {0} /\ RtcPeriod \in Nat \ {0} /\ MaxEvents \in Nat
      BY TimeAssumption, TimerAssumption, MaxEventsAssumption
<1>E. \A d \in CallTicks \cup {0, 1} : Elapse(d) =>
         TCNT1' \in 0 .. TimerMod - 1 /\ rtc' \in 0 .. RtcPeriod - 1
      BY <1>0, ElapseType, CallAssumption
<1>1. ASSUME NEW l \in List, NEW id \in TaskId, NEW t \in TimeMs, AddTask(l, id, t)
      PROVE  IInv'
      <2> DEFINE e == [task_id |-> id, time |-> Ticks(t)]
                 s == event_lists[l]
      <2>1. e \in Event  BY TicksType DEF Event
      <2>2. s \in Seq(Event) /\ added[l] \in Seq(Event) /\ Len(s) <= MaxEvents  BY <1>0 DEF TypeOK
      <2>3. PICK p \in 0 .. Len(s) : /\ StopsAt(s, e.time, p)
                                     /\ event_lists' = [event_lists EXCEPT ![l] = InsertAfter(s, p, e)]
            BY <1>1 DEF AddTask
      <2>4. \A i, j \in 1 .. Len(s) : i < j => s[i].time <= s[j].time  BY DEF IInv, Sorted
      <2>5. /\ InsertAfter(s, p, e) \in Seq(Event)
            /\ Len(InsertAfter(s, p, e)) = Len(s) + 1
            /\ \A i, j \in 1 .. Len(s) + 1 :
                  i < j => InsertAfter(s, p, e)[i].time <= InsertAfter(s, p, e)[j].time
            BY <2>1, <2>2, <2>3, <2>4, InsertSorts
      <2>6. Len(s) + 1 <= MaxEvents  BY <1>1, <1>N, <2>2 DEF AddTask, Full
      <2>7. UNCHANGED <<eventpos, list, TCNT1, OCR1A, rtc, pc, ran, whole>> /\ pc = "stopped"
            BY <1>1 DEF AddTask, timer, scheduler_running
      <2>8. added' = [added EXCEPT ![l] = Append(@, e)]  BY <1>1 DEF AddTask
      <2>9. TypeOK'  BY <1>0, <2>1, <2>2, <2>3, <2>5, <2>6, <2>7, <2>8 DEF TypeOK
      <2>10. Sorted'  BY <1>0, <2>3, <2>5 DEF IInv, Sorted, TypeOK
      <2>11. RanPrefix' /\ OnlyLastLeft' /\ EmptyAfterReset'
             BY <2>7 DEF RanPrefix, OnlyLastLeft, EmptyAfterReset
      <2>12. NeverEarly'  BY <2>7 DEF IInv, NeverEarly
      <2> QED  BY <2>9, <2>10, <2>11, <2>12 DEF IInv
<1>2. ASSUME NEW l \in List, NEW id \in TaskId, RemoveTasks(l, id)
      PROVE  IInv'
      <2>1. event_lists[l] \in Seq(Event) /\ added[l] \in Seq(Event) /\ Len(event_lists[l]) <= MaxEvents
            BY <1>0 DEF TypeOK
      <2>2. PICK t \in Compactions(event_lists[l]) : /\ Without(event_lists[l], id, t)
                                                     /\ event_lists' = [event_lists EXCEPT ![l] = t]
            BY <1>2 DEF RemoveTasks
      <2>3. PICK u \in Compactions(added[l]) : /\ Without(added[l], id, u)
                                               /\ added' = [added EXCEPT ![l] = u]
            BY <1>2 DEF RemoveTasks
      <2>4. t \in Seq(Event) /\ Len(t) <= Len(event_lists[l])  BY <2>1, <2>2, RemoveSorts
      <2>5. u \in Seq(Event)  BY <2>1, <2>3, RemoveSorts
      <2>6. \A i, j \in 1 .. Len(t) : i < j => t[i].time <= t[j].time
            <3>1. \A i, j \in 1 .. Len(event_lists[l]) :
                     i < j => event_lists[l][i].time <= event_lists[l][j].time  BY DEF IInv, Sorted
            <3> QED  BY <2>1, <2>2, <3>1, RemoveSorts
      <2>7. UNCHANGED <<eventpos, list, TCNT1, OCR1A, rtc, pc, ran, whole>> /\ pc = "stopped"
            BY <1>2 DEF RemoveTasks, timer, scheduler_running
      <2>8. Len(t) <= MaxEvents  BY <1>N, <2>1, <2>4
      <2>9. TypeOK'  BY <1>0, <2>2, <2>3, <2>4, <2>5, <2>7, <2>8 DEF TypeOK
      <2>10. Sorted'  BY <1>0, <2>2, <2>6 DEF IInv, Sorted, TypeOK
      <2>11. RanPrefix' /\ OnlyLastLeft' /\ EmptyAfterReset'
             BY <2>7 DEF RanPrefix, OnlyLastLeft, EmptyAfterReset
      <2>12. NeverEarly'  BY <2>7 DEF IInv, NeverEarly
      <2> QED  BY <2>9, <2>10, <2>11, <2>12 DEF IInv
<1>R. ASSUME Reset
      PROVE  /\ \A l \in List : event_lists'[l] = << >> /\ Len(event_lists'[l]) = 0
             /\ event_lists' \in [List -> Seq(Event)] /\ added' \in [List -> Seq(Event)]
             /\ eventpos' = 0 /\ whole' = FALSE
      BY <1>R DEF Reset
<1>3. ASSUME ResetStopped PROVE IInv'
      <2>1. UNCHANGED <<list, TCNT1, OCR1A, rtc, pc, ran>> /\ pc = "stopped"
            BY <1>3 DEF ResetStopped, timer, scheduler_running
      <2>2. TypeOK'  BY <1>0, <1>N, <1>3, <1>R, <2>1 DEF ResetStopped, TypeOK
      <2>3. Sorted'  BY <1>3, <1>R DEF ResetStopped, Sorted
      <2>4. RanPrefix' /\ OnlyLastLeft' /\ EmptyAfterReset' /\ NeverEarly'
            BY <2>1 DEF RanPrefix, OnlyLastLeft, EmptyAfterReset, NeverEarly, IInv
      <2> QED  BY <2>2, <2>3, <2>4 DEF IInv
<1>4. ASSUME NEW l \in List, Start(l) PROVE IInv'
      <2>1. /\ pc' = "run" /\ list' = l /\ TCNT1' = 0 /\ eventpos' = 0 /\ OCR1A' = TimerMod - 1
            /\ ran' = << >> /\ whole' = TRUE /\ rtc' \in 0 .. RtcPeriod - 1
            /\ UNCHANGED <<event_lists, added>>
            BY <1>4 DEF Start, lists
      <2>2. TypeOK'  BY <1>0, <1>N, <2>1 DEF TypeOK
      <2>3. Sorted' /\ OnlyLastLeft' /\ EmptyAfterReset' /\ NeverEarly'
            BY <2>1 DEF Sorted, OnlyLastLeft, EmptyAfterReset, NeverEarly, IInv
      <2>4. Len(event_lists[l]) \in Nat  BY <1>0 DEF TypeOK
      <2>5. RanPrefix'  BY <2>1, <2>4 DEF RanPrefix, Events
      <2> QED  BY <2>2, <2>3, <2>5 DEF IInv
<1>5. ASSUME RunTask PROVE IInv'
      BY <1>5, CallStep DEF RunTask, Due
<1>6. ASSUME RunLast PROVE IInv'
      <2>1. Events \in Seq(Event) /\ eventpos \in Nat /\ Len(Events) \in Nat  BY <1>0 DEF TypeOK, Events
      <2>2. eventpos + 1 \in eventpos + 1 .. Len(Events)  BY <1>6, <2>1 DEF RunLast, Ended
      <2>3. Events[eventpos + 1].time = SCHEDULER_LAST_EVENTS
            BY <1>6, <2>2 DEF RunLast, IInv, OnlyLastLeft
      <2> QED  BY <1>6, <2>3, CallStep DEF RunLast
<1>7. ASSUME Break PROVE IInv'
      <2>1. UNCHANGED <<event_lists, added, eventpos, list, TCNT1, OCR1A, rtc, ran, whole>> /\ pc = "run"
            BY <1>7 DEF Break, lists, timer
      <2>2. pc' = "last" /\ OnlyLast  BY <1>7 DEF Break
      <2>3. TypeOK'  BY <1>0, <2>1, <2>2 DEF TypeOK
      <2>4. Sorted' /\ RanPrefix' /\ EmptyAfterReset' /\ NeverEarly'
            BY <2>1, <2>2 DEF Sorted, RanPrefix, EmptyAfterReset, NeverEarly, IInv, Events
      <2>5. OnlyLastLeft'
            <3>1. Events \in Seq(Event) /\ eventpos \in Nat /\ list \in List  BY <1>0 DEF TypeOK, Events
            <3>2. ASSUME NEW i \in eventpos + 1 .. Len(Events)
                  PROVE  Events[i].time = SCHEDULER_LAST_EVENTS
                  <4>1. eventpos + 1 \in 1 .. Len(Events) /\ i \in 1 .. Len(Events) /\ ~Ended
                        BY <3>1 DEF Ended
                  <4>2. Events[eventpos + 1].time = TimerMod - 1
                        BY <2>2, <4>1 DEF OnlyLast, SCHEDULER_LAST_EVENTS
                  <4>3. Events[i] \in Event  BY <3>1, <4>1
                  <4>4. Events[i].time \in 0 .. TimerMod - 1  BY <4>3 DEF Event
                  <4>5. eventpos + 1 < i => Events[eventpos + 1].time <= Events[i].time
                        BY <3>1, <4>1 DEF IInv, Sorted, Events
                  <4> QED  BY <1>N, <3>1, <4>2, <4>4, <4>5 DEF SCHEDULER_LAST_EVENTS
            <3> QED  BY <2>1, <3>2 DEF OnlyLastLeft, Events
      <2> QED  BY <2>3, <2>4, <2>5 DEF IInv
<1>8. ASSUME Doze PROVE IInv'
      <2>1. TCNT1' \in 0 .. TimerMod - 1 /\ rtc' \in 0 .. RtcPeriod - 1  BY <1>8, <1>E DEF Doze
      <2>2. Events \in Seq(Event) /\ eventpos \in Nat /\ Len(Events) \in Nat  BY <1>0 DEF TypeOK, Events
      <2>3. eventpos + 1 \in 1 .. Len(Events)  BY <1>8, <2>2 DEF Doze, OnlyLast, Ended
      <2>4. Events[eventpos + 1] \in Event  BY <2>2, <2>3
      <2>5. OCR1A' \in 0 .. TimerMod - 1  BY <1>8, <2>4 DEF Doze, Event
      <2> QED  BY <1>8, <2>1, <2>5, PassiveStep DEF Doze
<1>9. ASSUME Tick PROVE IInv'
      <2>1. TCNT1' \in 0 .. TimerMod - 1 /\ rtc' \in 0 .. RtcPeriod - 1  BY <1>9, <1>E DEF Tick
      <2>2. OCR1A' \in 0 .. TimerMod - 1  BY <1>0, <1>9 DEF Tick, TypeOK
      <2> QED  BY <1>9, <2>1, <2>2, PassiveStep DEF Tick
<1>10. ASSUME OtherWake PROVE IInv'
      BY <1>0, <1>10, PassiveStep DEF OtherWake, TypeOK, timer
<1>11. ASSUME Pcint PROVE IInv'
      <2>1. TCNT1' \in 0 .. TimerMod - 1 /\ rtc' \in 0 .. RtcPeriod - 1  BY <1>11, <1>E DEF Pcint
      <2>2. OCR1A' \in 0 .. TimerMod - 1  BY <1>0, <1>11 DEF Pcint, TypeOK
      <2> QED  BY <1>11, <2>1, <2>2, PassiveStep DEF Pcint
<1>12. ASSUME PcintReconfigure PROVE IInv'
      <2>1. TCNT1' \in 0 .. TimerMod - 1 /\ rtc' \in 0 .. RtcPeriod - 1  BY <1>12, <1>E DEF PcintReconfigure
      <2>2. UNCHANGED <<list, OCR1A, ran>> /\ pc' = "run" /\ Reset  BY <1>12 DEF PcintReconfigure
      <2>3. TypeOK'  BY <1>0, <1>N, <1>R, <2>1, <2>2 DEF TypeOK
      <2>4. Sorted'  BY <1>R, <2>2 DEF Sorted
      <2>5. list' \in List  BY <1>0, <2>2 DEF TypeOK
      <2>6. RanPrefix' /\ OnlyLastLeft' /\ EmptyAfterReset'
            BY <1>R, <2>2, <2>5 DEF RanPrefix, OnlyLastLeft, EmptyAfterReset, Events
      <2>7. NeverEarly'  BY <2>2 DEF NeverEarly, IInv
      <2> QED  BY <2>3, <2>4, <2>6, <2>7 DEF IInv
<1>13. ASSUME Stop PROVE IInv'
      <2>1. UNCHANGED <<event_lists, added, eventpos, list, TCNT1, OCR1A, rtc, whole>>
            /\ pc' = "stopped" /\ ran' = << >>
            BY <1>13 DEF Stop, lists, timer
      <2>2. TypeOK'  BY <1>0, <2>1 DEF TypeOK
      <2>3. Sorted' /\ RanPrefix' /\ OnlyLastLeft' /\ EmptyAfterReset' /\ NeverEarly'
            BY <2>1 DEF Sorted, RanPrefix, OnlyLastLeft, EmptyAfterReset, NeverEarly, IInv
      <2> QED  BY <2>2, <2>3 DEF IInv
<1>14. ASSUME UNCHANGED vars PROVE IInv'
      <2>1. TypeOK' /\ Sorted' /\ NeverEarly'  BY <1>14 DEF vars, TypeOK, Sorted, NeverEarly, IInv
      <2>2. RanPrefix' /\ OnlyLastLeft' /\ EmptyAfterReset'
            BY <1>14 DEF vars, RanPrefix, OnlyLastLeft, EmptyAfterReset, IInv, Events
      <2> QED  BY <2>1, <2>2 DEF IInv
<1> QED
    BY <1>1, <1>2, <1>3, <1>4, <1>5, <1>6, <1>7, <1>8, <1>9, <1>10, <1>11, <1>12, <1>13, <1>14
    DEF Next, Program, AddRefused

(* Every reachable state has the types TypeOK gives it.                    *)
THEOREM Typing == Spec => []TypeOK
<1>1. IInv => TypeOK  BY DEF IInv
<1> QED  BY InitInv, NextInv, <1>1, PTL DEF Spec

(* No task is called before its time, and the SCHEDULER_LAST_EVENTS tasks  *)
(* are called last, whatever the lists hold and however long tasks take.   *)
THEOREM CallsInTime == Spec => []NeverEarly
<1>1. IInv => NeverEarly  BY DEF IInv
<1> QED  BY InitInv, NextInv, <1>1, PTL DEF Spec

(* When scheduler_start returns and no reset has come in between, what it  *)
(* called is the list, in order and without repetition.                    *)
THEOREM CallsAll == Spec => RunsAllOnce
<1>1. IInv /\ [Next]_vars =>
         [pc = "last" /\ pc' = "stopped" /\ whole => [i \in DOMAIN ran |-> ran[i].event] = Events]_vars
      <2> SUFFICES ASSUME IInv, [Next]_vars, pc = "last", pc' = "stopped", whole
                   PROVE  [i \in DOMAIN ran |-> ran[i].event] = Events
          OBVIOUS
      <2>1. Ended
            BY DEF Next, Program, vars, timer, AddTask, AddRefused, RemoveTasks, ResetStopped, Start,
                   RunTask, Break, Doze, Pcint, PcintReconfigure, RunLast, Stop, Tick, OtherWake,
                   scheduler_running
      <2>2. /\ Len(ran) = eventpos /\ eventpos <= Len(Events)
            /\ \A i \in 1 .. eventpos : ran[i].event = Events[i]
            BY DEF IInv, RanPrefix
      <2>3. Events \in Seq(Event) /\ eventpos \in Nat
            /\ ran \in Seq([event : Event, at : 0 .. TimerMod - 1])
            BY DEF IInv, TypeOK, Events
      <2>4. eventpos = Len(Events)  BY <2>1, <2>2, <2>3 DEF Ended
      <2>5. DOMAIN ran = 1 .. Len(Events) /\ Events = [i \in 1 .. Len(Events) |-> Events[i]]
            BY <2>2, <2>3, <2>4, LenProperties
      <2> QED  BY <2>2, <2>4, <2>5
<1>2. IInv /\ [Next]_vars => IInv'  BY NextInv
<1> QED  BY InitInv, <1>1, <1>2, PTL DEF Spec, RunsAllOnce

(* While the chip dozes the next task is overdue by no more than the time  *)
(* since the last RTC interrupt.                                           *)
DozeLag == pc = "doze" => ~Ended /\ TCNT1 - Events[eventpos + 1].time <= rtc

LEMMA DozeLagStep == IInv /\ DozeLag /\ [Next]_vars => DozeLag'
<1> SUFFICES ASSUME IInv, DozeLag, [Next]_vars, pc' = "doze"
             PROVE  (~Ended /\ TCNT1 - Events[eventpos + 1].time <= rtc)'
    BY DEF DozeLag
<1>0. TypeOK  BY DEF IInv
<1>N. TimerMod \in Nat \ {0} /\ RtcPeriod \in Nat \ {0}  BY TimeAssumption, TimerAssumption
<1>T. /\ TCNT1 \in 0 .. TimerMod - 1 /\ rtc \in 0 .. RtcPeriod - 1
      /\ Events \in Seq(Event) /\ eventpos \in Nat /\ Len(Events) \in Nat
      BY <1>0 DEF TypeOK, Events
<1>E. ASSUME ~Ended PROVE Events[eventpos + 1].time \in 0 .. TimerMod - 1
      <2>1. eventpos + 1 \in 1 .. Len(Events)  BY <1>E, <1>T DEF Ended
      <2>2. Events[eventpos + 1] \in Event  BY <1>T, <2>1
      <2> QED  BY <2>2 DEF Event
<1>M. /\ \A n \in Nat \ {0} : \A k \in 0 .. n - 1 : k % n = k
      /\ \A n \in Nat \ {0} : n % n = 0
      OBVIOUS
<1>1. CASE Doze
      <2>1. ~Ended /\ TCNT1 < Events[eventpos + 1].time
            BY <1>1, <1>T, <1>E DEF Doze, Due, OnlyLast
      <2>2. UNCHANGED <<event_lists, eventpos, list>>  BY <1>1 DEF Doze, lists
      <2>3. PICK d \in {0, 1} : Elapse(d)  BY <1>1 DEF Doze
      <2>4. TCNT1 + d \in 0 .. TimerMod - 1  BY <1>T, <1>N, <1>E, <2>1, <2>3
      <2>5. TCNT1' <= Events[eventpos + 1].time
            <3>1. TCNT1' = TCNT1 + d  BY <1>M, <1>N, <2>3, <2>4 DEF Elapse
            <3> QED  BY <1>T, <1>E, <2>1, <3>1
      <2>6. rtc' \in 0 .. RtcPeriod - 1 /\ TCNT1' \in 0 .. TimerMod - 1
            BY <1>0, <2>3, ElapseType
      <2>7. TCNT1' - Events[eventpos + 1].time <= rtc'  BY <1>N, <1>E, <2>1, <2>5, <2>6
      <2> QED  BY <2>1, <2>2, <2>7 DEF Ended, Events
<1>2. CASE Tick
      <2>1. ~Ended /\ TCNT1 - Events[eventpos + 1].time <= rtc  BY <1>2 DEF Tick, DozeLag
      <2>2. UNCHANGED <<event_lists, eventpos, list>>  BY <1>2 DEF Tick, lists
      <2>3. TCNT1' = (TCNT1 + 1) % TimerMod /\ rtc' = (rtc + 1) % RtcPeriod /\ rtc' # 0
            BY <1>2 DEF Tick, Elapse
      <2>4. rtc + 1 # RtcPeriod  BY <1>M, <1>N, <2>3
      <2>5. rtc' = rtc + 1
            <3>1. rtc + 1 \in 0 .. RtcPeriod - 1  BY <1>T, <1>N, <2>4
            <3> QED  BY <1>M, <1>N, <2>3, <3>1
      <2>6. TCNT1' <= TCNT1 + 1 /\ TCNT1' \in Nat
            <3>1. CASE TCNT1 + 1 = TimerMod  BY <1>M, <1>N, <1>T, <2>3, <3>1
            <3>2. CASE TCNT1 + 1 # TimerMod
                  <4>1. TCNT1 + 1 \in 0 .. TimerMod - 1  BY <1>T, <1>N, <3>2
                  <4> QED  BY <1>M, <1>N, <1>T, <2>3, <4>1
            <3> QED  BY <3>1, <3>2
      <2>7. TCNT1' - Events[eventpos + 1].time <= rtc'  BY <1>N, <1>T, <1>E, <2>1, <2>5, <2>6
      <2> QED  BY <2>1, <2>2, <2>7 DEF Ended, Events
<1>3. CASE UNCHANGED vars
      BY <1>3 DEF vars, DozeLag, Ended, Events
<1> QED
    BY <1>1, <1>2, <1>3
    DEF Next, Program, vars, timer, AddTask, AddRefused, RemoveTasks, ResetStopped, Start,
        RunTask, Break, Pcint, PcintReconfigure, RunLast, Stop, OtherWake, scheduler_running

(* A lost compare interrupt costs less than a period of the RTC, for every *)
(* list and however often the program is woken.                            *)
THEOREM LateByOnePeriod == Spec => []Timely
<1>1. Init => DozeLag  BY DEF Init, DozeLag
<1>2. IInv /\ DozeLag => Timely
      <2> SUFFICES ASSUME IInv, DozeLag, pc = "doze", ~Ended
                   PROVE  TCNT1 < Events[eventpos + 1].time + RtcPeriod
          BY DEF Timely
      <2>1. TypeOK  BY DEF IInv
      <2>2. TCNT1 \in Nat /\ TimerMod \in Nat /\ rtc \in 0 .. RtcPeriod - 1 /\ RtcPeriod \in Nat
            BY <2>1, TimerAssumption DEF TypeOK
      <2>3. Events \in Seq(Event) /\ eventpos \in Nat /\ Len(Events) \in Nat  BY <2>1 DEF TypeOK, Events
      <2>4. eventpos + 1 \in 1 .. Len(Events)  BY <2>3 DEF Ended
      <2>5. Events[eventpos + 1] \in Event  BY <2>3, <2>4
      <2>6. Events[eventpos + 1].time \in Int  BY <2>2, <2>5 DEF Event
      <2> QED  BY <2>2, <2>6 DEF DozeLag
<1>3. IInv /\ [Next]_vars => IInv'  BY NextInv
<1> QED  BY InitInv, DozeLagStep, <1>1, <1>2, <1>3, PTL DEF Spec
-----------------------------------------------------------------------------
(* g says where a list has the tasks that were added to it: those of a     *)
(* later time behind, those of the same time in the order of arrival.      *)
Placed(s, a, g) ==
    /\ Len(s) = Len(a)
    /\ g \in [1 .. Len(a) -> 1 .. Len(a)]
    /\ \A p \in 1 .. Len(a) : \E i \in 1 .. Len(a) : g[i] = p
    /\ \A i \in 1 .. Len(a) : s[g[i]] = a[i]
    /\ \A i, j \in 1 .. Len(a) : i < j => (g[i] < g[j] <=> a[i].time <= a[j].time)

AllPlaced == \A l \in List : \E g \in [1 .. Len(added[l]) -> 1 .. Len(added[l])] :
                Placed(event_lists[l], added[l], g)

LEMMA EventTime == \A x \in Event : x.time \in Int
BY TimerAssumption DEF Event

LEMMA OneToOne == \A S, T : \A f \in [S -> T] :
                     (\A x, y \in S : f[x] = f[y] => x = y) => f \in Injection(S, T)
BY DEF Injection, IsInjective

LEMMA OntoAll == \A S, T : \A f \in [S -> T] :
                    (\A y \in T : \E x \in S : f[x] = y) => f \in Surjection(S, T)
BY DEF Surjection

(* No two tasks are at the same place, and before a place are the tasks of *)
(* an earlier time and those of the same time that came first.             *)
LEMMA PlaceIsRank ==
    ASSUME NEW s \in Seq(Event), NEW a \in Seq(Event), NEW g, Placed(s, a, g)
    PROVE  /\ \A i, j \in 1 .. Len(a) : g[i] = g[j] => i = j
           /\ \A i \in 1 .. Len(a) : Rank(a, i) = g[i]
<1> DEFINE n == Len(a)
<1>1. n \in Nat /\ DOMAIN a = 1 .. n /\ \A i \in 1 .. n : a[i].time \in Int  BY EventTime
<1>2. /\ \A i \in 1 .. n : g[i] \in 1 .. n
      /\ \A i, j \in 1 .. n : i < j => (g[i] < g[j] <=> a[i].time <= a[j].time)
      /\ \A i \in 1 .. n : s[g[i]] = a[i]
      /\ \A p \in 1 .. n : \E i \in 1 .. n : g[i] = p
      BY DEF Placed
<1>G. \A i \in 1 .. n : g[i] \in 1 .. n /\ g[i] \in Int /\ a[i].time \in Int  BY <1>1, <1>2
<1>O. ASSUME NEW i \in 1 .. n, NEW j \in 1 .. n, i < j
      PROVE  g[i] < g[j] <=> a[i].time <= a[j].time
      BY <1>2, <1>O
<1>3. ASSUME NEW i \in 1 .. n, NEW j \in 1 .. n, i < j
      PROVE  g[i] # g[j]
      <2>1. ASSUME g[i] = g[j] PROVE FALSE
            <3>1. a[i] = a[j]  BY <1>2, <2>1
            <3>2. a[i].time \in Int /\ a[j].time = a[i].time  BY <1>G, <3>1
            <3>3. g[i] < g[j]  BY <1>O, <1>3, <3>2
            <3>4. g[i] \in Int  BY <1>G
            <3> QED  BY <2>1, <3>3, <3>4
      <2> QED  BY <2>1
<1>4. \A i, j \in 1 .. n : g[i] = g[j] => i = j  BY <1>1, <1>3
<1>5. ASSUME NEW i \in 1 .. n PROVE Rank(a, i) = g[i]
      <2> DEFINE before == {j \in 1 .. n : a[j].time < a[i].time \/ (a[j].time = a[i].time /\ j <= i)}
                 f == [j \in before |-> g[j]]
      <2>1. ASSUME NEW j \in 1 .. n
            PROVE  j \in before <=> g[j] <= g[i]
            <3>0. /\ g[i] \in Int /\ g[j] \in Int /\ a[i].time \in Int /\ a[j].time \in Int
                  /\ i \in Int /\ j \in Int
                  BY <1>1, <1>G
            <3>1. CASE j < i
                  <4>1. g[j] < g[i] <=> a[j].time <= a[i].time  BY <1>O, <3>1
                  <4>2. g[j] # g[i]  BY <1>3, <3>1
                  <4>3. j \in before <=> a[j].time <= a[i].time  BY <3>0, <3>1
                  <4> HIDE DEF before
                  <4> QED  BY <3>0, <4>1, <4>2, <4>3
            <3>2. CASE j > i
                  <4>1. g[i] < g[j] <=> a[i].time <= a[j].time  BY <1>O, <3>0, <3>2
                  <4>2. j \in before <=> a[j].time < a[i].time  BY <3>0, <3>2
                  <4> HIDE DEF before
                  <4> QED  BY <3>0, <4>1, <4>2
            <3>3. CASE j = i  BY <3>0, <3>3
            <3> QED  BY <3>0, <3>1, <3>2, <3>3
      <2>2. f \in [before -> 1 .. g[i]]
            <3>1. ASSUME NEW j \in before PROVE g[j] \in 1 .. g[i]
                  <4>1. j \in 1 .. n /\ g[j] <= g[i]  BY <2>1
                  <4>2. g[i] \in Int /\ g[j] \in 1 .. n  BY <1>G, <4>1
                  <4> QED  BY <1>1, <4>1, <4>2
            <3> QED  BY <3>1
      <2>3. \A x, y \in before : f[x] = f[y] => x = y  BY <1>4
      <2>4. ASSUME NEW p \in 1 .. g[i] PROVE \E j \in before : f[j] = p
            <3>1. p \in 1 .. n  BY <1>1, <1>2
            <3>2. PICK j \in 1 .. n : g[j] = p  BY <1>2, <3>1
            <3>3. j \in before  BY <2>1, <3>2
            <3> QED  BY <3>2, <3>3
      <2>5. f \in Bijection(before, 1 .. g[i])
            <3> HIDE DEF f, before
            <3>1. f \in Injection(before, 1 .. g[i])  BY <2>2, <2>3, OneToOne
            <3>2. f \in Surjection(before, 1 .. g[i])  BY <2>2, <2>4, OntoAll
            <3> QED  BY <3>1, <3>2 DEF Bijection
      <2>6. IsFiniteSet(before)
            <3>1. IsFiniteSet(1 .. n)  BY <1>1, FS_Interval
            <3>2. before \subseteq 1 .. n  OBVIOUS
            <3> QED  BY <3>1, <3>2, FS_Subset
      <2>7. Cardinality(1 .. g[i]) = Cardinality(before)
            <3> HIDE DEF f, before
            <3>1. ExistsBijection(before, 1 .. g[i])  BY <2>5 DEF ExistsBijection
            <3> QED  BY <2>6, <3>1, FS_Bijection
      <2>8. Cardinality(1 .. g[i]) = g[i]
            <3>1. g[i] \in Int /\ g[i] >= 1  BY <1>1, <1>G
            <3> DEFINE k == g[i]
            <3>2. k \in Int /\ k >= 1  BY <3>1
            <3> HIDE DEF k
            <3>3. Cardinality(1 .. k) = IF 1 > k THEN 0 ELSE k - 1 + 1  BY <3>2, FS_Interval
            <3>4. Cardinality(1 .. k) = k  BY <3>2, <3>3
            <3> QED  BY <3>4 DEF k
      <2> QED  BY <1>1, <2>7, <2>8 DEF Rank
<1> QED  BY <1>4, <1>5

(* A task that is inserted where the shifting loop stops.                  *)
LEMMA InsertPlaces ==
    ASSUME NEW s \in Seq(Event), NEW a \in Seq(Event), NEW g, Placed(s, a, g),
           NEW e \in Event, NEW p \in 0 .. Len(s), StopsAt(s, e.time, p),
           \A i, j \in 1 .. Len(s) : i < j => s[i].time <= s[j].time
    PROVE  \E h \in [1 .. Len(a) + 1 -> 1 .. Len(a) + 1] :
              Placed(InsertAfter(s, p, e), Append(a, e), h)
<1> DEFINE n == Len(a)
           t == InsertAfter(s, p, e)
           b == Append(a, e)
           h == [i \in 1 .. n + 1 |-> IF i = n + 1 THEN p + 1 ELSE IF g[i] <= p THEN g[i] ELSE g[i] + 1]
<1>1. n \in Nat /\ Len(s) = n /\ p \in 0 .. n  BY DEF Placed
<1>2. /\ \A i \in 1 .. n : g[i] \in 1 .. n
      /\ \A i, j \in 1 .. n : i < j => (g[i] < g[j] <=> a[i].time <= a[j].time)
      /\ \A i \in 1 .. n : s[g[i]] = a[i]
      /\ \A q \in 1 .. n : \E i \in 1 .. n : g[i] = q
      BY DEF Placed
<1>3. Len(t) = n + 1  BY <1>1, InsertSorts
<1>4. /\ Len(b) = n + 1 /\ b[n + 1] = e
      /\ \A i \in 1 .. n : b[i] = a[i]
      BY <1>1
<1>5. \A i \in 1 .. n + 1 : t[i] = IF i <= p THEN s[i] ELSE IF i = p + 1 THEN e ELSE s[i - 1]
      BY <1>1 DEF InsertAfter
<1>6. /\ h[n + 1] = p + 1
      /\ \A i \in 1 .. n : h[i] = IF g[i] <= p THEN g[i] ELSE g[i] + 1
      BY <1>1
<1>7. h \in [1 .. n + 1 -> 1 .. n + 1]
      <2>1. ASSUME NEW i \in 1 .. n + 1 PROVE h[i] \in 1 .. n + 1
            <3>1. CASE i = n + 1  BY <1>1, <1>6, <3>1
            <3>2. CASE i # n + 1
                  <4>1. i \in 1 .. n  BY <1>1, <3>2
                  <4>2. g[i] \in 1 .. n  BY <1>2, <4>1
                  <4>3. h[i] = IF g[i] <= p THEN g[i] ELSE g[i] + 1  BY <1>6, <4>1
                  <4> QED  BY <1>1, <4>2, <4>3
            <3> QED  BY <3>1, <3>2
      <2> QED  BY <2>1
<1>8. ASSUME NEW q \in 1 .. n + 1 PROVE \E i \in 1 .. n + 1 : h[i] = q
      <2>1. CASE q = p + 1  BY <1>1, <1>6, <2>1
      <2>2. CASE q <= p
            <3>1. q \in 1 .. n  BY <1>1, <2>2
            <3>2. PICK i \in 1 .. n : g[i] = q  BY <1>2, <3>1
            <3>3. h[i] = q  BY <1>6, <2>2, <3>2
            <3>4. i \in 1 .. n + 1  BY <1>1
            <3> QED  BY <3>3, <3>4
      <2>3. CASE q > p + 1
            <3>1. q - 1 \in 1 .. n  BY <1>1, <2>3
            <3>2. PICK i \in 1 .. n : g[i] = q - 1  BY <1>2, <3>1
            <3>3. h[i] = q  BY <1>1, <1>6, <2>3, <3>2
            <3>4. i \in 1 .. n + 1  BY <1>1
            <3> QED  BY <3>3, <3>4
      <2> QED  BY <1>1, <2>1, <2>2, <2>3
<1>9. ASSUME NEW i \in 1 .. n + 1 PROVE t[h[i]] = b[i]
      <2>0. h[i] \in 1 .. n + 1  BY <1>7
      <2>1. CASE i = n + 1  BY <1>1, <1>4, <1>5, <1>6, <2>0, <2>1
      <2>2. CASE i # n + 1
            <3>1. i \in 1 .. n  BY <1>1, <2>2
            <3>2. g[i] \in 1 .. n /\ s[g[i]] = a[i] /\ b[i] = a[i]  BY <1>2, <1>4, <3>1
            <3>3. h[i] = IF g[i] <= p THEN g[i] ELSE g[i] + 1  BY <1>6, <3>1
            <3>4. CASE g[i] <= p
                  <4>1. h[i] = g[i]  BY <3>3, <3>4
                  <4>2. t[h[i]] = s[g[i]]  BY <1>5, <2>0, <3>4, <4>1
                  <4> QED  BY <3>2, <4>2
            <3>5. CASE ~(g[i] <= p)
                  <4>1. h[i] = g[i] + 1 /\ ~(h[i] <= p) /\ h[i] # p + 1 /\ h[i] - 1 = g[i]
                        BY <1>1, <3>2, <3>3, <3>5
                  <4>2. t[h[i]] = s[h[i] - 1]  BY <1>5, <2>0, <4>1
                  <4> QED  BY <3>2, <4>1, <4>2
            <3> QED  BY <3>4, <3>5
      <2> QED  BY <2>1, <2>2
<1>10. ASSUME NEW i \in 1 .. n + 1, NEW j \in 1 .. n + 1, i < j
       PROVE  h[i] < h[j] <=> b[i].time <= b[j].time
       <2>1. i \in 1 .. n /\ g[i] \in 1 .. n /\ s[g[i]] = a[i] /\ b[i] = a[i]
             BY <1>1, <1>2, <1>4, <1>10
       <2>2. h[i] = IF g[i] <= p THEN g[i] ELSE g[i] + 1  BY <1>6, <2>1
       <2>3. CASE j = n + 1
             <3>1. h[j] = p + 1 /\ b[j] = e  BY <1>4, <1>6, <2>3
             <3>2. e.time \in Int /\ s[g[i]].time \in Int  BY <1>1, <2>1, EventTime
             <3>3. ASSUME g[i] <= p PROVE s[g[i]].time <= e.time
                   <4>1. p > 0 /\ p \in 1 .. n /\ s[p].time <= e.time
                         BY <1>1, <2>1, <3>3 DEF StopsAt
                   <4>2. s[p].time \in Int  BY <1>1, <4>1, EventTime
                   <4>3. s[g[i]].time <= s[p].time
                         <5>1. CASE g[i] = p  BY <4>2, <5>1
                         <5>2. CASE g[i] < p  BY <1>1, <2>1, <4>1, <5>2
                         <5> QED  BY <1>1, <2>1, <3>3, <5>1, <5>2
                   <4> QED  BY <3>2, <4>1, <4>2, <4>3
             <3>4. ASSUME ~(g[i] <= p) PROVE s[g[i]].time > e.time
                   <4>1. g[i] \in p + 1 .. Len(s)  BY <1>1, <2>1, <3>4
                   <4> QED  BY <4>1 DEF StopsAt
             <3>5. h[i] < h[j] <=> g[i] <= p  BY <1>1, <2>1, <2>2, <3>1
             <3>6. g[i] <= p <=> s[g[i]].time <= e.time  BY <3>2, <3>3, <3>4
             <3> QED  BY <2>1, <3>1, <3>5, <3>6
       <2>4. CASE j # n + 1
             <3>1. j \in 1 .. n  BY <1>1, <2>4
             <3>2. g[j] \in 1 .. n /\ b[j] = a[j]  BY <1>2, <1>4, <3>1
             <3>3. h[j] = IF g[j] <= p THEN g[j] ELSE g[j] + 1  BY <1>6, <3>1
             <3>4. h[i] < h[j] <=> g[i] < g[j]  BY <1>1, <2>1, <2>2, <3>2, <3>3
             <3>5. g[i] < g[j] <=> a[i].time <= a[j].time  BY <1>2, <1>10, <2>1, <3>1
             <3> QED  BY <2>1, <3>2, <3>4, <3>5
       <2> QED  BY <2>3, <2>4
<1> HIDE DEF h, b, t
<1>11. Placed(t, b, h)  BY <1>3, <1>4, <1>7, <1>8, <1>9, <1>10 DEF Placed
<1> QED  BY <1>7, <1>11 DEF t, b

(* The f of Without takes each place once: it is on the list of places     *)
(* kept, of which there are as many.                                       *)
LEMMA CompactionIsOnto ==
    ASSUME NEW s \in Seq(Event), NEW kept \in SUBSET DOMAIN s,
           NEW f \in [1 .. Cardinality(kept) -> kept],
           \A i, j \in 1 .. Cardinality(kept) : i < j => f[i] < f[j]
    PROVE  /\ Cardinality(kept) \in Nat
           /\ \A k \in kept : \E i \in 1 .. Cardinality(kept) : f[i] = k
<1> DEFINE m == Cardinality(kept)
<1>1. kept \subseteq 1 .. Len(s) /\ Len(s) \in Nat  OBVIOUS
<1>2. IsFiniteSet(kept) /\ m \in Nat
      <2>1. IsFiniteSet(1 .. Len(s))  BY <1>1, FS_Interval
      <2>2. IsFiniteSet(kept)  BY <1>1, <2>1, FS_Subset
      <2> QED  BY <2>2, FS_CardinalityType
<1>3. f \in [1 .. m -> kept] /\ \A i, j \in 1 .. m : i < j => f[i] < f[j]  OBVIOUS
<1> HIDE DEF m
<1>4. ASSUME NEW i \in 1 .. m, NEW j \in 1 .. m, f[i] = f[j] PROVE i = j
      <2>1. f[i] \in 1 .. Len(s)  BY <1>1, <1>3
      <2> QED  BY <1>1, <1>2, <1>3, <1>4, <2>1
<1>5. f \in Injection(1 .. m, kept)  BY <1>3, <1>4, OneToOne
<1>6. Cardinality(1 .. m) = m  BY <1>2, FS_Interval
<1>7. f \in Surjection(1 .. m, kept)  BY <1>2, <1>5, <1>6, FS_Injection DEF m
<1>8. \A k \in kept : \E i \in 1 .. m : f[i] = k  BY <1>7 DEF Surjection
<1> QED  BY <1>2, <1>8 DEF m

(* The same task removed from what was added and from the sorted list.     *)
LEMMA RemovePlaces ==
    ASSUME NEW s \in Seq(Event), NEW a \in Seq(Event), NEW g, Placed(s, a, g), NEW id,
           NEW t \in Compactions(s), Without(s, id, t),
           NEW u \in Compactions(a), Without(a, id, u)
    PROVE  \E h \in [1 .. Len(u) -> 1 .. Len(u)] : Placed(t, u, h)
<1> DEFINE n == Len(a)
           ks == {i \in DOMAIN s : s[i].task_id # id}
           ka == {i \in DOMAIN a : a[i].task_id # id}
<1>1. n \in Nat /\ Len(s) = n /\ DOMAIN s = 1 .. n /\ DOMAIN a = 1 .. n  BY DEF Placed
<1>2. \A i \in 1 .. n : g[i] \in 1 .. n /\ s[g[i]] = a[i]  BY DEF Placed
<1>3. ASSUME NEW i \in 1 .. n, NEW j \in 1 .. n, i < j
      PROVE  g[i] < g[j] <=> a[i].time <= a[j].time
      BY <1>3 DEF Placed
<1>4. \A p \in 1 .. n : \E i \in 1 .. n : g[i] = p  BY DEF Placed
<1>5. \A i, j \in 1 .. n : g[i] = g[j] => i = j  BY PlaceIsRank
<1>6. PICK f1 \in [1 .. Cardinality(ks) -> ks] :
              /\ \A i, j \in 1 .. Cardinality(ks) : i < j => f1[i] < f1[j]
              /\ t = [i \in 1 .. Cardinality(ks) |-> s[f1[i]]]
      BY DEF Without
<1>7. PICK f2 \in [1 .. Cardinality(ka) -> ka] :
              /\ \A i, j \in 1 .. Cardinality(ka) : i < j => f2[i] < f2[j]
              /\ u = [i \in 1 .. Cardinality(ka) |-> a[f2[i]]]
      BY DEF Without
<1>8. /\ Cardinality(ks) \in Nat
      /\ \A k \in ks : \E i \in 1 .. Cardinality(ks) : f1[i] = k
      <2>1. ks \in SUBSET DOMAIN s  OBVIOUS
      <2>2. /\ f1 \in [1 .. Cardinality(ks) -> ks]
            /\ \A i, j \in 1 .. Cardinality(ks) : i < j => f1[i] < f1[j]
            BY <1>6
      <2> HIDE DEF ks
      <2> QED  BY <2>1, <2>2, CompactionIsOnto
<1>9. /\ Cardinality(ka) \in Nat
      /\ \A k \in ka : \E i \in 1 .. Cardinality(ka) : f2[i] = k
      <2>1. ka \in SUBSET DOMAIN a  OBVIOUS
      <2>2. /\ f2 \in [1 .. Cardinality(ka) -> ka]
            /\ \A i, j \in 1 .. Cardinality(ka) : i < j => f2[i] < f2[j]
            BY <1>7
      <2> HIDE DEF ka
      <2> QED  BY <2>1, <2>2, CompactionIsOnto
<1>10. \A i \in 1 .. n : i \in ka <=> g[i] \in ks  BY <1>1, <1>2
<1>11. Cardinality(ka) = Cardinality(ks)
       <2> DEFINE r == [i \in ka |-> g[i]]
       <2>1. ka \subseteq 1 .. n  BY <1>1
       <2>2. r \in [ka -> ks]  BY <1>10, <2>1
       <2>3. \A x, y \in ka : r[x] = r[y] => x = y  BY <1>5, <2>1
       <2>4. ASSUME NEW k \in ks PROVE \E i \in ka : r[i] = k
             <3>1. k \in 1 .. n  BY <1>1
             <3>2. PICK i \in 1 .. n : g[i] = k  BY <1>4, <3>1
             <3>3. i \in ka  BY <1>10, <3>2
             <3> QED  BY <3>2, <3>3
       <2>5. IsFiniteSet(ka)
             <3>1. IsFiniteSet(1 .. n)  BY <1>1, FS_Interval
             <3> QED  BY <2>1, <3>1, FS_Subset
       <2> HIDE DEF r, ka, ks
       <2>6. r \in Injection(ka, ks) /\ r \in Surjection(ka, ks)
             BY <2>2, <2>3, <2>4, OneToOne, OntoAll
       <2>7. ExistsBijection(ka, ks)  BY <2>6 DEF ExistsBijection, Bijection
       <2> QED  BY <2>5, <2>7, FS_Bijection
<1> DEFINE m == Cardinality(ka)
           h == [i \in 1 .. m |-> CHOOSE q \in 1 .. m : f1[q] = g[f2[i]]]
<1>12. m \in Nat /\ 1 .. m \subseteq Int  BY <1>9
<1>13. \A i \in 1 .. m : f1[i] \in 1 .. n /\ f2[i] \in 1 .. n /\ f1[i] \in ks /\ f2[i] \in ka
       BY <1>1, <1>6, <1>7, <1>11
<1>14. /\ \A i, j \in 1 .. m : i < j => f1[i] < f1[j]
       /\ \A i, j \in 1 .. m : i < j => f2[i] < f2[j]
       /\ t = [i \in 1 .. m |-> s[f1[i]]]
       /\ u = [i \in 1 .. m |-> a[f2[i]]]
       /\ \A k \in ks : \E i \in 1 .. m : f1[i] = k
       /\ \A k \in ka : \E i \in 1 .. m : f2[i] = k
       BY <1>6, <1>7, <1>8, <1>9, <1>11
<1>15. Len(t) = m /\ Len(u) = m
       <2>1. t \in Seq(Event) /\ u \in Seq(Event)  BY RemoveSorts
       <2>2. DOMAIN t = 1 .. m /\ DOMAIN u = 1 .. m  BY <1>14
       <2> HIDE DEF m
       <2> QED  BY <1>12, <2>1, <2>2
<1>16. ASSUME NEW i \in 1 .. m PROVE h[i] \in 1 .. m /\ f1[h[i]] = g[f2[i]]
       <2>1. g[f2[i]] \in ks  BY <1>10, <1>13
       <2>2. \E q \in 1 .. m : f1[q] = g[f2[i]]  BY <1>14, <2>1
       <2> QED  BY <2>2
<1> HIDE DEF h, m, ka, ks
<1>17. h \in [1 .. m -> 1 .. m]
       <2>1. h = [i \in 1 .. m |-> h[i]]  BY DEF h
       <2> QED  BY <1>16, <2>1
<1>18. \A i \in 1 .. m : t[i] = s[f1[i]] /\ u[i] = a[f2[i]]  BY <1>14
<1>19. ASSUME NEW i \in 1 .. m PROVE t[h[i]] = u[i]
       <2>1. t[h[i]] = s[g[f2[i]]]  BY <1>16, <1>18
       <2> QED  BY <1>2, <1>13, <1>18, <2>1
<1>20. ASSUME NEW i \in 1 .. m, NEW j \in 1 .. m
       PROVE  f1[i] < f1[j] <=> i < j
       <2>1. i \in Int /\ j \in Int /\ f1[i] \in Int /\ f1[j] \in Int  BY <1>1, <1>12, <1>13
       <2>2. i < j => f1[i] < f1[j]  BY <1>14
       <2>3. j < i => f1[j] < f1[i]  BY <1>14
       <2>4. i = j => f1[i] = f1[j]  OBVIOUS
       <2> QED  BY <2>1, <2>2, <2>3, <2>4
<1>21. ASSUME NEW i \in 1 .. m, NEW j \in 1 .. m, i < j
       PROVE  h[i] < h[j] <=> u[i].time <= u[j].time
       <2>1. f2[i] < f2[j]  BY <1>14, <1>21
       <2>2. g[f2[i]] < g[f2[j]] <=> a[f2[i]].time <= a[f2[j]].time  BY <1>3, <1>13, <2>1
       <2>3. f1[h[i]] < f1[h[j]] <=> h[i] < h[j]  BY <1>16, <1>20
       <2> QED  BY <1>16, <1>18, <2>2, <2>3
<1>22. ASSUME NEW p \in 1 .. m PROVE \E i \in 1 .. m : h[i] = p
       <2>1. PICK k \in 1 .. n : g[k] = f1[p]  BY <1>4, <1>13
       <2>2. k \in ka  BY <1>10, <1>13, <2>1
       <2>3. PICK i \in 1 .. m : f2[i] = k  BY <1>14, <2>2
       <2>4. h[i] \in 1 .. m /\ f1[h[i]] = f1[p]  BY <1>16, <2>1, <2>3
       <2>5. h[i] \in Int /\ p \in Int /\ f1[p] \in Int  BY <1>1, <1>12, <1>13, <2>4
       <2>6. ~(h[i] < p) /\ ~(p < h[i])  BY <1>20, <2>4, <2>5
       <2> QED  BY <2>5, <2>6
<1>23. Placed(t, u, h)  BY <1>15, <1>17, <1>19, <1>21, <1>22 DEF Placed
<1> QED  BY <1>15, <1>17, <1>23

LEMMA EmptyPlaced == \E g \in [1 .. Len(<< >>) -> 1 .. Len(<< >>)] : Placed(<< >>, << >>, g)
<1> DEFINE g == [i \in 1 .. 0 |-> i]
<1>1. Len(<< >>) = 0 /\ 1 .. 0 = {}  OBVIOUS
<1>2. g \in [1 .. 0 -> 1 .. 0]  OBVIOUS
<1>3. Placed(<< >>, << >>, g)  BY <1>1, <1>2 DEF Placed
<1> QED  BY <1>1, <1>2, <1>3

LEMMA InitPlaced == Init => AllPlaced
<1> SUFFICES ASSUME Init, NEW l \in List
             PROVE  \E g \in [1 .. Len(added[l]) -> 1 .. Len(added[l])] :
                       Placed(event_lists[l], added[l], g)
    BY DEF AllPlaced
<1>1. event_lists[l] = << >> /\ added[l] = << >>  BY DEF Init
<1> QED  BY <1>1, EmptyPlaced

LEMMA NextPlaced == IInv /\ AllPlaced /\ [Next]_vars => AllPlaced'
<1> SUFFICES ASSUME IInv, AllPlaced, [Next]_vars, NEW k \in List
             PROVE  \E h \in [1 .. Len(added'[k]) -> 1 .. Len(added'[k])] :
                       Placed(event_lists'[k], added'[k], h)
    BY DEF AllPlaced
<1>0. /\ event_lists \in [List -> Seq(Event)] /\ added \in [List -> Seq(Event)]
      /\ event_lists[k] \in Seq(Event) /\ added[k] \in Seq(Event)
      BY DEF IInv, TypeOK
<1>1. PICK g \in [1 .. Len(added[k]) -> 1 .. Len(added[k])] : Placed(event_lists[k], added[k], g)
      BY DEF AllPlaced
<1>2. CASE UNCHANGED <<event_lists, added>>  BY <1>1, <1>2
<1>3. CASE ResetStopped \/ PcintReconfigure
      <2>1. event_lists'[k] = << >> /\ added'[k] = << >>
            BY <1>3 DEF ResetStopped, PcintReconfigure, Reset
      <2> QED  BY <2>1, EmptyPlaced
<1>4. ASSUME NEW l \in List, NEW id \in TaskId, NEW t \in TimeMs, AddTask(l, id, t)
      PROVE  \E h \in [1 .. Len(added'[k]) -> 1 .. Len(added'[k])] :
                Placed(event_lists'[k], added'[k], h)
      <2> DEFINE e == [task_id |-> id, time |-> Ticks(t)]
      <2>1. e \in Event  BY TicksType DEF Event
      <2>2. PICK p \in 0 .. Len(event_lists[l]) :
                 /\ StopsAt(event_lists[l], e.time, p)
                 /\ event_lists' = [event_lists EXCEPT ![l] = InsertAfter(event_lists[l], p, e)]
            BY <1>4 DEF AddTask
      <2>3. added' = [added EXCEPT ![l] = Append(@, e)]  BY <1>4 DEF AddTask
      <2>4. CASE k # l
            <3>1. event_lists'[k] = event_lists[k] /\ added'[k] = added[k]  BY <1>0, <2>2, <2>3, <2>4
            <3> QED  BY <1>1, <3>1
      <2>5. CASE k = l
            <3> HIDE DEF e
            <3>1. /\ event_lists'[k] = InsertAfter(event_lists[k], p, e)
                  /\ added'[k] = Append(added[k], e)
                  BY <1>0, <2>2, <2>3, <2>5
            <3>2. \A i, j \in 1 .. Len(event_lists[k]) :
                     i < j => event_lists[k][i].time <= event_lists[k][j].time
                  BY DEF IInv, Sorted
            <3>3. \E h \in [1 .. Len(added[k]) + 1 -> 1 .. Len(added[k]) + 1] :
                     Placed(InsertAfter(event_lists[k], p, e), Append(added[k], e), h)
                  BY <1>0, <1>1, <2>1, <2>2, <2>5, <3>2, InsertPlaces
            <3>4. Len(Append(added[k], e)) = Len(added[k]) + 1  BY <1>0, <2>1
            <3> QED  BY <3>1, <3>3, <3>4
      <2> QED  BY <2>4, <2>5
<1>5. ASSUME NEW l \in List, NEW id \in TaskId, RemoveTasks(l, id)
      PROVE  \E h \in [1 .. Len(added'[k]) -> 1 .. Len(added'[k])] :
                Placed(event_lists'[k], added'[k], h)
      <2>1. PICK t \in Compactions(event_lists[l]) : /\ Without(event_lists[l], id, t)
                                                     /\ event_lists' = [event_lists EXCEPT ![l] = t]
            BY <1>5 DEF RemoveTasks
      <2>2. PICK u \in Compactions(added[l]) : /\ Without(added[l], id, u)
                                               /\ added' = [added EXCEPT ![l] = u]
            BY <1>5 DEF RemoveTasks
      <2>3. CASE k # l
            <3>1. event_lists'[k] = event_lists[k] /\ added'[k] = added[k]  BY <1>0, <2>1, <2>2, <2>3
            <3> QED  BY <1>1, <3>1
      <2>4. CASE k = l
            <3>1. event_lists'[k] = t /\ added'[k] = u  BY <1>0, <2>1, <2>2, <2>4
            <3>2. \E h \in [1 .. Len(u) -> 1 .. Len(u)] : Placed(t, u, h)
                  BY <1>0, <1>1, <2>1, <2>2, <2>4, RemovePlaces
            <3> QED  BY <3>1, <3>2
      <2> QED  BY <2>3, <2>4
<1>6. ASSUME NEW l \in List, Start(l) \/ AddRefused(l) PROVE UNCHANGED <<event_lists, added>>
      BY <1>6 DEF Start, AddRefused, vars, lists
<1>7. CASE RunTask \/ Break \/ Doze \/ Pcint \/ RunLast \/ Stop \/ Tick \/ OtherWake \/ UNCHANGED vars
      BY <1>2, <1>7 DEF RunTask, RunLast, Call, Break, Doze, Pcint, Stop, Tick, OtherWake, vars, lists
<1> QED
    BY <1>2, <1>3, <1>4, <1>5, <1>6, <1>7 DEF Next, Program

(* Each list is what was added to it, sorted by time, tasks of the same    *)
(* time in the order in which they were added (scheduler.c:83), however    *)
(* tasks were removed in between, and for any number of them.              *)
THEOREM SortIsStable == Spec => []StableSorted
<1>1. IInv /\ AllPlaced => StableSorted
      <2> SUFFICES ASSUME IInv, AllPlaced, NEW l \in List
                   PROVE  /\ Len(event_lists[l]) = Len(added[l])
                          /\ \A i \in DOMAIN added[l] :
                                event_lists[l][Rank(added[l], i)] = added[l][i]
          BY DEF StableSorted
      <2>1. event_lists[l] \in Seq(Event) /\ added[l] \in Seq(Event)  BY DEF IInv, TypeOK
      <2>2. PICK g \in [1 .. Len(added[l]) -> 1 .. Len(added[l])] :
                 Placed(event_lists[l], added[l], g)
            BY DEF AllPlaced
      <2>3. \A i \in 1 .. Len(added[l]) : Rank(added[l], i) = g[i]  BY <2>1, <2>2, PlaceIsRank
      <2>4. /\ Len(event_lists[l]) = Len(added[l])
            /\ \A i \in 1 .. Len(added[l]) : event_lists[l][g[i]] = added[l][i]
            BY <2>2 DEF Placed
      <2> QED  BY <2>1, <2>3, <2>4
<1>2. IInv /\ [Next]_vars => IInv'  BY NextInv
<1> QED  BY InitInv, InitPlaced, NextPlaced, <1>1, <1>2, PTL DEF Spec
=============================================================================
