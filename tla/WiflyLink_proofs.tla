-------------------------- MODULE WiflyLink_proofs --------------------------
(***************************************************************************)
(* For any timeouts and any distance between wakes: the types of WiflyLink,*)
(* and that it implements the safety part of DataLink.  A step maps to a   *)
(* step of DataLink or to a stutter; the types are the only invariant the  *)
(* mapping needs, for where a session returns to.  And for wakes far enough*)
(* apart, that the radio is asked for what the driver waits for.           *)
(***************************************************************************)
EXTENDS WiflyLink, TLAPS

(* Counting up to a threshold stays within it.                             *)
LEMMA UptoType == ASSUME NEW n \in Nat, NEW max \in Nat PROVE Upto(n, max) \in 0 .. max
BY DEF Upto

(* Seconds that go by leave the times within their ranges.                 *)
LEMMA ElapseType ==
    ASSUME TypeOK, NEW d \in 0 .. 4
    PROVE  /\ Upto(connect_age + d, ConnectTimeout + 1) \in ConnectAge
           /\ Upto(sleep_age + d, SleepRetry + 1) \in SleepAge
           /\ Upto(gap + d, wake_gap) \in 0 .. wake_gap /\ wake_gap \in WakeGaps
<1>1. /\ connect_age + d \in Nat /\ sleep_age + d \in Nat /\ gap + d \in Nat
      /\ ConnectTimeout + 1 \in Nat /\ SleepRetry + 1 \in Nat /\ wake_gap \in Nat
      BY TimeAssumption DEF TypeOK, ConnectAge, SleepAge
<1>2. wake_gap \in WakeGaps  BY DEF TypeOK
<1> QED  BY <1>1, <1>2, UptoType DEF ConnectAge, SleepAge

(* wifly_sleep leaves the radio off and the times within their ranges.     *)
LEMMA SleepType ==
    ASSUME TypeOK, NEW d \in 0 .. 4, Sleep(d)
    PROVE  /\ RTSN' \in BOOLEAN /\ trying' = FALSE /\ CONNECT' \in BOOLEAN /\ wake_status' \in BOOLEAN
           /\ connect_age' \in ConnectAge /\ sleep_age' \in SleepAge /\ gap' \in 0 .. wake_gap'
           /\ wake_gap' \in WakeGaps /\ late' \in BOOLEAN /\ synced' \in BOOLEAN
<1>1. Upto(connect_age + d, ConnectTimeout + 1) \in ConnectAge /\ Upto(gap + d, wake_gap) \in 0 .. wake_gap
      BY ElapseType
<1>2. 0 \in SleepAge  BY TimeAssumption DEF SleepAge
<1> QED  BY <1>1, <1>2 DEF Sleep, TypeOK

RestOK == /\ CONNECTED \in BOOLEAN /\ ASSOCIATED \in BOOLEAN /\ flag \in BOOLEAN
          /\ CONNECT \in BOOLEAN /\ RTSN \in BOOLEAN
          /\ wake_status \in BOOLEAN /\ trying \in BOOLEAN /\ mac_valid \in BOOLEAN
          /\ connect_age \in ConnectAge /\ sleep_age \in SleepAge
          /\ fails \in 0 .. FailMod - 1
          /\ return \in {"clear", "woken"}
          /\ wake_gap \in WakeGaps /\ gap \in 0 .. wake_gap /\ late \in BOOLEAN /\ synced \in BOOLEAN

(* A timeout ends the wait.                                                *)
LEMMA TimeoutType ==
    ASSUME TypeOK, TickTimeout, UNCHANGED <<CONNECTED, flag, return>>
    PROVE  RestOK' /\ trying' = FALSE
<1>1. PICK a \in BOOLEAN : \E d \in IF a THEN 2 .. 4 ELSE 1 .. 2 : ASSOCIATED' = a /\ Sleep(d)
      BY DEF TickTimeout
<1>2. PICK d \in 0 .. 4 : ASSOCIATED' = a /\ Sleep(d)  BY <1>1
<1>3. /\ RTSN' \in BOOLEAN /\ trying' = FALSE /\ CONNECT' \in BOOLEAN /\ wake_status' \in BOOLEAN
      /\ connect_age' \in ConnectAge /\ sleep_age' \in SleepAge /\ gap' \in 0 .. wake_gap'
      /\ wake_gap' \in WakeGaps /\ late' \in BOOLEAN /\ synced' \in BOOLEAN
      BY <1>1, <1>2, SleepType
<1>4. fails' \in 0 .. FailMod - 1
      <2>1. FailMod \in Nat \ {0} /\ fails + 1 \in Nat  BY FailAssumption DEF TypeOK
      <2>2. (fails + 1) % FailMod \in 0 .. FailMod - 1  BY <2>1
      <2> QED  BY <2>2 DEF TickTimeout
<1> QED  BY <1>1, <1>3, <1>4 DEF TypeOK, RestOK, TickTimeout

(* wifly_tick leaves the types, and ends a wait or leaves it.              *)
LEMMA TickType ==
    ASSUME TypeOK, Tick
    PROVE  RestOK' /\ (trying' = FALSE \/ trying' = trying)
<1>1. CASE TickTimeout  BY <1>1, TimeoutType DEF Tick
<1>2. CASE TickSleep
      <2>1. PICK d \in {1, 2} : Sleep(d)  BY <1>2 DEF TickSleep
      <2>2. d \in 0 .. 4  OBVIOUS
      <2>3. /\ RTSN' \in BOOLEAN /\ trying' = FALSE /\ CONNECT' \in BOOLEAN /\ wake_status' \in BOOLEAN
            /\ connect_age' \in ConnectAge /\ sleep_age' \in SleepAge /\ gap' \in 0 .. wake_gap'
            /\ wake_gap' \in WakeGaps /\ late' \in BOOLEAN /\ synced' \in BOOLEAN
            BY <2>1, <2>2, SleepType
      <2> QED  BY <1>2, <2>3 DEF TickSleep, Tick, TypeOK, RestOK
<1>3. CASE TickQuiet  BY <1>3 DEF TickQuiet, Tick, TypeOK, RestOK, radio, clock
<1>4. CASE TickTimesync
      BY <1>4, TimeAssumption DEF TickTimesync, Tick, TypeOK, RestOK, radio
<1> QED  BY <1>1, <1>2, <1>3, <1>4 DEF Tick

(* A step of the program that takes no time of its own.                    *)
LEMMA LoopType == TypeOK /\ Loop => TypeOK'
<1> SUFFICES ASSUME TypeOK, Loop PROVE TypeOK'  OBVIOUS
<1>0. 0 \in ConnectAge /\ 0 \in 0 .. wake_gap /\ 0 \in 0 .. FailMod - 1
      <2>1. wake_gap \in Nat  BY TimeAssumption DEF TypeOK
      <2> QED  BY <2>1, TimeAssumption, FailAssumption DEF ConnectAge
<1>1. CASE PcintSkip  BY <1>1 DEF PcintSkip, TypeOK, pins, radio, clock
<1>2. CASE PcintReady  BY <1>0, <1>2 DEF PcintReady, TypeOK, pins, radio, clock
<1>3. CASE PcintNothing  BY <1>3 DEF PcintNothing, TypeOK, pins, radio, clock
<1>4. CASE PcintClear  BY <1>4 DEF PcintClear, TypeOK, pins, radio, clock
<1>5. CASE NoAlarm  BY <1>5 DEF NoAlarm, TypeOK, pins, radio, clock
<1>6. CASE Wake  BY <1>0, <1>6 DEF Wake, TypeOK, pins
<1>7. CASE WakeReady  BY <1>0, <1>7 DEF WakeReady, TypeOK, pins, radio
<1>8. CASE WakeReturn  BY <1>8 DEF WakeReturn, TypeOK, pins, clock
<1>9. CASE WakeWait  BY <1>0, <1>9 DEF WakeWait, TypeOK, pins
<1>10. CASE LoopTick  BY <1>10, TickType DEF LoopTick, TypeOK, RestOK
<1>11. CASE SleepHook  BY <1>11 DEF SleepHook, TypeOK, pins, clock
<1>12. CASE SleepHookTick  BY <1>12, TickType DEF SleepHookTick, TypeOK, RestOK
<1>13. CASE SleepHookSkip  BY <1>13 DEF SleepHookSkip, TypeOK, pins, radio, clock
<1>14. CASE WakeHook  BY <1>14 DEF WakeHook, TypeOK, pins, clock
<1>15. CASE WakeHookTick  BY <1>15, TickType DEF WakeHookTick, TypeOK, RestOK
<1>16. CASE WakeHookSkip  BY <1>16 DEF WakeHookSkip, TypeOK, pins, radio, clock
<1> QED
    BY <1>1, <1>2, <1>3, <1>4, <1>5, <1>6, <1>7, <1>8, <1>9, <1>10, <1>11, <1>12, <1>13, <1>14,
       <1>15, <1>16 DEF Loop

LEMMA NextType == TypeOK /\ [Next]_vars => TypeOK'
<1> SUFFICES ASSUME TypeOK, [Next]_vars PROVE TypeOK'  OBVIOUS
<1>E. ASSUME Elapse(1)
      PROVE  connect_age' \in ConnectAge /\ sleep_age' \in SleepAge /\ wake_gap' \in WakeGaps /\ gap' \in 0 .. wake_gap'
             /\ synced' \in BOOLEAN
      <2>1. 1 \in 0 .. 4  OBVIOUS
      <2> QED  BY <1>E, <2>1, ElapseType DEF Elapse, TypeOK
<1>1. CASE Loop  BY <1>1, LoopType
<1>2. CASE SchedulerTurn  BY <1>2, <1>E DEF SchedulerTurn, TypeOK, pins, radio, clock
<1>3. CASE MacTick  BY <1>3, TimeoutType DEF MacTick, TypeOK, RestOK
<1>4. CASE MacWait  BY <1>4, <1>E DEF MacWait, TypeOK, pins, radio
<1>5. CASE MacDone  BY <1>5 DEF MacDone, TypeOK, pins, radio, clock
<1>6. CASE SessionTick  BY <1>6, TickType DEF SessionTick, TypeOK, RestOK
<1>7. CASE SessionEnd
      <2>1. PICK d \in {1, 2} : Sleep(d)  BY <1>7 DEF SessionEnd
      <2>2. d \in 0 .. 4  OBVIOUS
      <2>3. /\ RTSN' \in BOOLEAN /\ trying' = FALSE /\ CONNECT' \in BOOLEAN /\ wake_status' \in BOOLEAN
            /\ connect_age' \in ConnectAge /\ sleep_age' \in SleepAge /\ gap' \in 0 .. wake_gap'
            /\ wake_gap' \in WakeGaps /\ late' \in BOOLEAN /\ synced' \in BOOLEAN
            BY <2>1, <2>2, SleepType
      <2> QED  BY <1>7, <2>3 DEF SessionEnd, TypeOK, pins
<1>8. CASE PinChange
      <2>1. UNCHANGED <<CONNECT, RTSN, wake_status, trying, mac_valid, connect_age, sleep_age, wake_gap, gap,
                        late, synced, fails, return>>
            BY <1>8 DEF PinChange, radio, clock
      <2>2. CONNECTED' \in BOOLEAN /\ ASSOCIATED' \in BOOLEAN /\ flag' \in BOOLEAN
            BY <1>8 DEF PinChange, TypeOK
      <2>3. pc' = pc \/ pc' = "wakehook"  BY <1>8 DEF PinChange
      <2> QED  BY <2>1, <2>2, <2>3 DEF TypeOK
<1>9. CASE RtcTick  BY <1>9, <1>E DEF RtcTick, TypeOK, pins, radio
<1>10. CASE UNCHANGED vars  BY <1>10 DEF vars, TypeOK
<1> QED  BY <1>1, <1>2, <1>3, <1>4, <1>5, <1>6, <1>7, <1>8, <1>9, <1>10 DEF Next

LEMMA InitType == Init => TypeOK
<1> SUFFICES ASSUME Init PROVE TypeOK  OBVIOUS
<1>1. 0 \in SleepAge /\ (\A w \in WakeGaps : w \in 0 .. w) /\ 0 \in 0 .. FailMod - 1
      BY TimeAssumption, FailAssumption DEF SleepAge
<1> QED  BY <1>1 DEF Init, TypeOK

(* Every reachable state has the types TypeOK gives it.                    *)
THEOREM Typing == Spec => []TypeOK
BY InitType, NextType, PTL DEF Spec

-----------------------------------------------------------------------------
(* Each step of the driver is one of DataLink or leaves linkState alone.   *)
LEMMA StepMapsToLink == TypeOK /\ [Next]_vars => [Link!Next]_linkState
<1> SUFFICES ASSUME TypeOK, [Next]_vars PROVE [Link!Next]_linkState  OBVIOUS
<1> USE DEF linkState
<1>S. ASSUME pc = "session", pc' # "session", pc' \notin {"mac", "waking"}, trying' = FALSE
      PROVE  Link!Next
      BY <1>S DEF Link!Next, Link!Finish
<1>T. ASSUME pc \notin {"session", "mac", "waking"}, pc' \notin {"session", "mac", "waking"},
             trying' = FALSE \/ trying' = trying
      PROVE  [Link!Next]_linkState
      BY <1>T DEF Link!Next, Link!GiveUp
<1>1. CASE Loop
      <2>1. CASE PcintReady  BY <1>1, <2>1 DEF PcintReady, Link!Next, Link!Ready
      <2>2. CASE Wake  BY <2>2 DEF Wake, Link!Next, Link!Wake, TypeOK
      <2>3. CASE WakeReady  BY <2>3 DEF WakeReady, Link!Next, Link!Ready
      <2>4. CASE WakeWait  BY <2>4 DEF WakeWait
      <2>5. CASE WakeReturn  BY <1>T, <2>5 DEF WakeReturn
      <2>6. CASE PcintSkip \/ PcintNothing \/ PcintClear \/ NoAlarm \/ SleepHookSkip \/ WakeHookSkip
            BY <1>T, <2>6
            DEF PcintSkip, PcintNothing, PcintClear, NoAlarm, SleepHookSkip, WakeHookSkip, radio
      <2>7. CASE SleepHook \/ WakeHook  BY <1>T, <2>7 DEF SleepHook, WakeHook
      <2>8. CASE LoopTick \/ SleepHookTick \/ WakeHookTick
            BY <1>T, <2>8, TickType DEF LoopTick, SleepHookTick, WakeHookTick
      <2> QED  BY <1>1, <2>1, <2>2, <2>3, <2>4, <2>5, <2>6, <2>7, <2>8 DEF Loop
<1>2. CASE SchedulerTurn  BY <1>T, <1>2 DEF SchedulerTurn, radio
<1>3. CASE MacTick  BY <1>3 DEF MacTick
<1>4. CASE MacWait  BY <1>4 DEF MacWait
<1>5. CASE MacDone  BY <1>5 DEF MacDone
<1>6. CASE SessionTick  BY <1>6 DEF SessionTick
<1>7. CASE SessionEnd
      <2>1. PICK d \in {1, 2} : Sleep(d)  BY <1>7 DEF SessionEnd
      <2>2. trying' = FALSE  BY <2>1 DEF Sleep
      <2> QED  BY <1>7, <1>S, <2>2 DEF SessionEnd, TypeOK
<1>8. CASE PinChange
      <2>1. trying' = trying  BY <1>8 DEF PinChange, radio
      <2>2. pc' = pc \/ (pc = "asleep" /\ pc' = "wakehook")  BY <1>8 DEF PinChange
      <2> QED  BY <2>1, <2>2
<1>9. CASE RtcTick  BY <1>T, <1>9 DEF RtcTick, radio
<1>10. CASE UNCHANGED vars  BY <1>10 DEF vars
<1> QED  BY <1>1, <1>2, <1>3, <1>4, <1>5, <1>6, <1>7, <1>8, <1>9, <1>10 DEF Next

(* There is no session without a wake, at most one for a wake and none     *)
(* inside another, for any timeouts and however often the radio is woken.  *)
THEOREM ImplementsDataLink == Spec => OneSessionPerWake
<1>1. Init => Link!Init  BY DEF Init, Link!Init, linkState
<1> QED  BY <1>1, InitType, NextType, StepMapsToLink, PTL DEF Spec, OneSessionPerWake

-----------------------------------------------------------------------------
(* With wakes far enough apart no wait is left when wifly_wake is called.  *)
Asks == /\ pc \notin {"mac", "waking", "session", "woken"} => trying = CONNECT /\ CONNECT = wake_status
        /\ pc \in {"mac", "waking"} =>
              trying = FALSE /\ CONNECT = TRUE /\ wake_status = TRUE /\ gap <= MacTime
        /\ pc \in {"session", "woken"} => trying = FALSE
        /\ pc = "woken" => CONNECT = FALSE /\ wake_status = FALSE

(* While the driver waits, the time since the wake is bounded by that      *)
(* since the wait began, which wifly_tick looks at before the chip sleeps  *)
(* and after it has woken.                                                 *)
Ticked == pc \in {"hook", "hooked", "asleep"} \/ (pc \in {"pcint", "clear", "alarm"} /\ ~late)
Waits == trying = TRUE => /\ gap <= connect_age + MacTime
                          /\ Ticked => gap <= ConnectTimeout + MacTime

ApartInv == TypeOK /\ (WakesApart => Asks /\ Waits)

LEMMA Numbers ==
    ASSUME TypeOK
    PROVE  /\ ConnectTimeout \in Nat /\ MacTime \in Nat /\ wake_gap \in Nat /\ gap \in 0 .. wake_gap
           /\ connect_age \in 0 .. ConnectTimeout + 1
BY TimeAssumption DEF TypeOK, ConnectAge

(* wifly_sleep ends everything; the rest of wifly_tick leaves the driver   *)
(* as it is, and a wait that goes on has not timed out.                    *)
Asleep == trying' = FALSE /\ CONNECT' = FALSE /\ wake_status' = FALSE
Waited == /\ UNCHANGED <<trying, CONNECT, wake_status>>
          /\ trying = TRUE => \/ gap' = 0
                              \/ /\ connect_age <= ConnectTimeout
                                 /\ gap' = gap /\ connect_age' = connect_age

LEMMA TickAsks == ASSUME TypeOK, Tick PROVE (Asleep \/ Waited) /\ wake_gap' = wake_gap
<1>1. CASE TickTimeout  BY <1>1 DEF TickTimeout, Sleep, Asleep
<1>2. CASE TickSleep  BY <1>2 DEF TickSleep, Sleep, Asleep
<1>3. CASE TickQuiet
      BY <1>3, Numbers DEF TickQuiet, TimedOut, Waited, radio, clock
<1>4. CASE TickTimesync  BY <1>4 DEF TickTimesync, Waited, radio
<1> QED  BY <1>1, <1>2, <1>3, <1>4 DEF Tick

Busy == {"mac", "waking", "session", "woken"}

LEMMA InitApart == Init => ApartInv
<1> SUFFICES ASSUME Init PROVE ApartInv  OBVIOUS
<1>1. /\ pc = "pcint" /\ trying = FALSE /\ CONNECT = FALSE /\ wake_status = FALSE
      BY DEF Init
<1> QED  BY <1>1, InitType DEF ApartInv, Asks, Waits

LEMMA NextApart == ApartInv /\ [Next]_vars => ApartInv'
<1> SUFFICES ASSUME ApartInv, [Next]_vars PROVE ApartInv'  OBVIOUS
<1>0. TypeOK /\ TypeOK'  BY NextType DEF ApartInv
<1> DEFINE Kept == wake_gap' = wake_gap /\ (WakesApart /\ Asks /\ Waits => Asks' /\ Waits')
<1>K. SUFFICES Kept
      BY <1>0 DEF ApartInv, WakesApart
<1>N. /\ ConnectTimeout \in Nat /\ MacTime \in Nat /\ wake_gap \in Nat /\ gap \in 0 .. wake_gap
      /\ connect_age \in 0 .. ConnectTimeout + 1
      BY <1>0, Numbers
(* No time passes, and the driver is left as it is.                        *)
<1>S. ASSUME pc \notin Busy, pc' \notin Busy, Ticked' => Ticked,
             UNCHANGED <<trying, CONNECT, wake_status, connect_age, gap, wake_gap>>
      PROVE  Kept
      BY <1>S DEF Asks, Waits, Busy
(* wifly_tick is called.                                                   *)
<1>T. ASSUME pc \notin Busy, pc' \notin Busy, Tick
      PROVE  Kept
      <2>1. (Asleep \/ Waited) /\ wake_gap' = wake_gap  BY <1>0, <1>T, TickAsks
      <2>2. CASE Asleep
            BY <1>T, <2>1, <2>2 DEF Asleep, Asks, Waits, Busy
      <2>3. CASE Waited
            <3>1. ASSUME Asks PROVE Asks'  BY <1>T, <2>3, <3>1 DEF Waited, Asks, Busy
            <3>2. connect_age' \in 0 .. ConnectTimeout + 1  BY <1>0 DEF TypeOK, ConnectAge
            <3>3. ASSUME Waits PROVE Waits'
                  BY <1>N, <2>3, <3>2, <3>3 DEF Waited, Waits
            <3> QED  BY <2>1, <3>1, <3>3
      <2> QED  BY <2>1, <2>2, <2>3
(* A second goes by.                                                       *)
<1>E. ASSUME pc \notin Busy, pc' \notin Busy, Ticked, ~Ticked', Elapse(1),
             UNCHANGED <<trying, CONNECT, wake_status>>
      PROVE  Kept
      <2>1. /\ gap' <= gap + 1 /\ wake_gap' = wake_gap
            /\ connect_age' = IF connect_age <= ConnectTimeout THEN connect_age + 1
                              ELSE ConnectTimeout + 1
            BY <1>N, <1>E DEF Elapse, Upto
      <2>2. gap' \in Nat  BY <1>0, <2>1, <1>N DEF TypeOK
      <2>3. ASSUME Asks PROVE Asks'  BY <1>E, <2>3 DEF Asks, Busy
      <2>4. ASSUME Waits PROVE Waits'  BY <1>E, <1>N, <2>1, <2>2, <2>4 DEF Waits
      <2> QED  BY <2>1, <2>3, <2>4
<1>1. CASE PcintSkip \/ PcintNothing \/ PcintClear \/ NoAlarm \/ SleepHookSkip \/ WakeHookSkip
      <2>1. UNCHANGED <<trying, CONNECT, wake_status, connect_age, gap, wake_gap, late>>
            BY <1>1 DEF PcintSkip, PcintNothing, PcintClear, NoAlarm, SleepHookSkip, WakeHookSkip,
                        radio, clock
      <2>2. CASE WakeHookSkip
            <3>1. wake_status = FALSE /\ pc = "wakehook" /\ pc' = "pcint"
                  BY <1>0, <2>2 DEF WakeHookSkip, TypeOK
            <3> QED  BY <2>1, <3>1 DEF Asks, Waits
      <2>3. CASE PcintSkip \/ PcintNothing \/ PcintClear \/ NoAlarm \/ SleepHookSkip
            <3>1. pc \notin Busy /\ pc' \notin Busy /\ (Ticked' => Ticked)
                  BY <2>1, <2>3 DEF PcintSkip, PcintNothing, PcintClear, NoAlarm, SleepHookSkip,
                                    Busy, Ticked
            <3> QED  BY <1>S, <2>1, <3>1
      <2> QED  BY <1>1, <2>2, <2>3
<1>2. CASE SleepHook \/ WakeHook
      <2>1. /\ UNCHANGED <<trying, CONNECT, wake_status, connect_age, gap, wake_gap>>
            /\ pc \notin Busy /\ pc' \notin Busy /\ (Ticked' => Ticked)
            BY <1>2 DEF SleepHook, WakeHook, clock, Busy, Ticked
      <2> QED  BY <1>S, <2>1
<1>3. CASE LoopTick \/ SleepHookTick \/ WakeHookTick
      BY <1>3, <1>T DEF LoopTick, SleepHookTick, WakeHookTick, Busy
<1>4. CASE PcintReady
      BY <1>4 DEF PcintReady, Asks, Waits, clock
<1>5. CASE Wake
      <2>1. /\ pc = "alarm" /\ gap = wake_gap /\ gap' = 0 /\ CONNECT' = TRUE /\ wake_status' = TRUE
            /\ pc' \in {"mac", "waking"} /\ trying' = trying /\ wake_gap' = wake_gap
            BY <1>5 DEF Wake
      <2>2. ASSUME WakesApart, Waits PROVE trying = FALSE
            <3>1. gap > connect_age + MacTime  BY <1>N, <2>1, <2>2 DEF WakesApart
            <3>2. ASSUME trying = TRUE PROVE FALSE
                  <4>1. gap <= connect_age + MacTime  BY <2>2, <3>2, Zenon DEF Waits
                  <4> QED  BY <1>N, <3>1, <4>1
            <3> QED  BY <1>0, <3>2, Zenon DEF TypeOK
      <2>3. ASSUME trying = FALSE PROVE Asks' /\ Waits'
            <3>1. gap' <= MacTime  BY <1>N, <2>1
            <3>2. trying' = FALSE  BY <2>1, <2>3, Zenon
            <3> QED  BY <2>1, <3>1, <3>2 DEF Asks, Waits
      <2> QED  BY <2>1, <2>2, <2>3
<1>6. CASE WakeReady
      BY <1>6 DEF WakeReady, Asks, Waits, radio
<1>7. CASE WakeReturn
      BY <1>7 DEF WakeReturn, Asks, Waits, clock
<1>8. CASE WakeWait
      <2>1. /\ pc = "waking" /\ pc' = "tick" /\ connect_age' = 0 /\ trying' = TRUE
            /\ UNCHANGED <<CONNECT, wake_status, gap, wake_gap>>
            BY <1>8 DEF WakeWait
      <2>2. ASSUME Asks PROVE Asks'
            <3>1. CONNECT = TRUE /\ wake_status = TRUE  BY <2>1, <2>2 DEF Asks
            <3>2. trying' = CONNECT' /\ CONNECT' = wake_status'  BY <2>1, <3>1, Zenon
            <3> QED  BY <2>1, <3>2 DEF Asks
      <2>3. ASSUME Asks PROVE Waits'
            <3>1. gap <= MacTime  BY <2>1, <2>3 DEF Asks
            <3>2. gap' <= connect_age' + MacTime'  BY <1>N, <2>1, <3>1
            <3>3. ~Ticked'  BY <2>1 DEF Ticked
            <3> QED  BY <3>2, <3>3 DEF Waits
      <2> QED  BY <2>1, <2>2, <2>3
<1>9. CASE SchedulerTurn
      <2>1. pc = "alarm" /\ pc' = "pcint" /\ UNCHANGED <<trying, CONNECT, wake_status>>
            BY <1>9 DEF SchedulerTurn, radio
      <2>2. CASE UNCHANGED clock
            <3>1. UNCHANGED <<connect_age, gap, wake_gap, late>>  BY <2>2 DEF clock
            <3> QED  BY <1>S, <2>1, <3>1 DEF Busy, Ticked
      <2>3. CASE Elapse(1) /\ ~late /\ late' = TRUE
            BY <1>E, <2>1, <2>3 DEF Busy, Ticked
      <2> QED  BY <1>9, <2>2, <2>3 DEF SchedulerTurn
<1>10. CASE MacTick \/ MacWait \/ MacDone
      <2>1. CASE MacTick
            <3>1. TickTimeout /\ pc = "mac" /\ pc' = "mac"  BY <2>1 DEF MacTick
            <3>2. trying  BY <3>1 DEF TickTimeout, TimedOut
            <3>3. wake_gap' = wake_gap  BY <3>1 DEF TickTimeout, Sleep
            <3>4. Asks => FALSE  BY <3>1, <3>2 DEF Asks
            <3> QED  BY <3>3, <3>4
      <2>2. CASE MacWait
            <3>1. /\ pc = "mac" /\ pc' = "mac" /\ gap < MacTime
                  /\ UNCHANGED <<trying, CONNECT, wake_status>>
                  BY <2>2 DEF MacWait, radio
            <3>2. gap' <= gap + 1 /\ wake_gap' = wake_gap  BY <1>N, <2>2 DEF MacWait, Elapse, Upto
            <3>3. gap' \in Nat  BY <1>0, <1>N, <3>2 DEF TypeOK
            <3> QED  BY <1>N, <3>1, <3>2, <3>3 DEF Asks, Waits
      <2>3. CASE MacDone
            BY <2>3 DEF MacDone, Asks, Waits, radio, clock
      <2> QED  BY <1>10, <2>1, <2>2, <2>3
<1>11. CASE SessionTick
      <2>1. pc = "session" /\ pc' = "session" /\ Tick  BY <1>11 DEF SessionTick
      <2>2. (Asleep \/ Waited) /\ wake_gap' = wake_gap  BY <1>0, <2>1, TickAsks
      <2> QED  BY <2>1, <2>2 DEF Asleep, Waited, Asks, Waits
<1>12. CASE SessionEnd
      <2>1. PICK d \in {1, 2} : Sleep(d)  BY <1>12 DEF SessionEnd
      <2>2. pc' \in {"clear", "woken"}  BY <1>0, <1>12 DEF SessionEnd, TypeOK
      <2> QED  BY <2>1, <2>2 DEF Sleep, Asks, Waits
<1>13. CASE PinChange
      <2>1. UNCHANGED <<trying, CONNECT, wake_status, connect_age, gap, wake_gap, late>>
            BY <1>13 DEF PinChange, radio, clock
      <2>2. pc' = pc \/ (pc = "asleep" /\ pc' = "wakehook")  BY <1>13 DEF PinChange
      <2>3. CASE pc' = pc  BY <2>1, <2>3 DEF Asks, Waits, Ticked
      <2>4. CASE pc = "asleep" /\ pc' = "wakehook"  BY <1>S, <2>1, <2>4 DEF Busy, Ticked
      <2> QED  BY <2>2, <2>3, <2>4
<1>14. CASE RtcTick
      <2>1. pc = "asleep" /\ pc' = "wakehook" /\ Elapse(1) /\ UNCHANGED <<trying, CONNECT, wake_status>>
            BY <1>14 DEF RtcTick, radio
      <2> QED  BY <1>E, <2>1 DEF Busy, Ticked
<1>15. CASE UNCHANGED vars
      <2>1. UNCHANGED <<pc, trying, CONNECT, wake_status, connect_age, gap, wake_gap, late>>
            BY <1>15 DEF vars
      <2> QED  BY <2>1 DEF Asks, Waits, Ticked
<1> QED
    BY <1>1, <1>2, <1>3, <1>4, <1>5, <1>6, <1>7, <1>8, <1>9, <1>10, <1>11, <1>12, <1>13, <1>14,
       <1>15 DEF Next, Loop

(* While the driver waits for a connection it asks the radio for one, and  *)
(* else the radio is told to sleep, when the next wake comes later than    *)
(* the timeout of the one before (wifly.c:119): for any timeouts.          *)
THEOREM AsksForWhatItWaits == Spec => []AsksWhileTrying
<1>1. ApartInv => AsksWhileTrying
      <2> SUFFICES ASSUME ApartInv, WakesApart, pc \notin {"mac", "waking", "session", "woken"}
                   PROVE  (trying <=> CONNECT) /\ (CONNECT <=> wake_status)
          BY DEF AsksWhileTrying
      <2>1. trying = CONNECT /\ CONNECT = wake_status  BY DEF ApartInv, Asks
      <2> QED  BY <2>1, Zenon
<1> QED  BY <1>1, InitApart, NextApart, PTL DEF Spec
=============================================================================
