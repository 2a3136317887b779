-------------------------- MODULE Reporting_proofs --------------------------
(***************************************************************************)
(* The sensors of the monitor list and the reporting cycle.  No touch and  *)
(* no position is missed, but in the windows the properties name, for any  *)
(* number of positions and any settling time; reports and wakes of the     *)
(* link are passed over only when they are not due, and retries end, for   *)
(* any intervals and any clock the host sets.                              *)
(***************************************************************************)
EXTENDS Monitors, ReportCycle, TLAPS

(***************************************************************************)
(* The monitor list.  Where the clearing of a flag of the touch sensors'   *)
(* port is under way, what is to be written back leaves no touch out.      *)
(***************************************************************************)
Returned == /\ at = "store" /\ cb # "accel" => owed \subseteq loaded \cup door_sensor_state
            /\ at \in {"clear", "store"} /\ cb \in Touch => cb \in door_sensor_state
            /\ at = "read" => cb = "accel"
            /\ at = "session" => cb = "radio"
            /\ at = "store" => cb \notin loaded /\ \A p \in loaded : Port(p) = Port(cb)

(* The latch of the pin is true to it from the first interrupt on, ...     *)
Looking == at \in {"read", "clear", "store"} /\ cb = "accel"

Latched == watching /\ ("accel" \in flags \/ ~missed \/ Looking) => (lat <=> zone # None)

(* ... and the flag that is about to be cleared has been acted upon.       *)
Known == \/ int_orientation_latch = zone
         \/ int_orientation_latch = None /\ told = zone

Acted == at \in {"clear", "store"} /\ cb = "accel" /\ watching /\ zone # None /\ ~missed => Known

IInv == TypeOK /\ TouchesKept /\ PositionKnown /\ Returned /\ Latched /\ Acted

LEMMA InitInv == Init => IInv
<1> SUFFICES ASSUME Init PROVE IInv  OBVIOUS
<1> USE MonitorAssumption DEF Init
<1>1. TypeOK
      <2>1. 0 \in 0 .. Settle + 1  OBVIOUS
      <2>2. lat \in BOOLEAN /\ watching \in BOOLEAN /\ missed \in BOOLEAN  BY Zenon
      <2> QED  BY <2>1, <2>2 DEF TypeOK, Touch, Pin
<1>2. TouchesKept /\ Returned  BY DEF TouchesKept, Returned, Touch
<1>3. PositionKnown /\ Latched /\ Acted  BY DEF PositionKnown, Latched, Acted
<1> QED  BY <1>1, <1>2, <1>3 DEF IInv

-----------------------------------------------------------------------------
LEMMA TypeNext == IInv /\ [Next]_vars => TypeOK'
<1> SUFFICES ASSUME IInv, [Next]_vars PROVE TypeOK'  OBVIOUS
<1> USE MonitorAssumption DEF IInv, TypeOK
<1>1. ASSUME NEW z \in Orientations \cup {None}, Turn(z) PROVE TypeOK'
      <2>1. lat' \in BOOLEAN /\ missed' \in BOOLEAN  BY <1>1, Zenon DEF Turn, High
      <2> QED  BY <1>1, <2>1 DEF Turn, check, doors, Pin
<1>2. ASSUME NEW s \in Touch, Touching(s) \/ CallTouch(s) PROVE TypeOK'
      <2>1. s \in Pin /\ s \notin {"accel", "radio"}  BY DEF Pin, Touch
      <2>2. CASE Touching(s)
            <3>1. flags' \subseteq Pin /\ ("accel" \in flags' => "accel" \in flags)
                  BY <2>1, <2>2 DEF Touching, Touched
            <3>2. owed' \subseteq Touch  BY <2>2 DEF Touching
            <3> QED  BY <2>2, <3>1, <3>2 DEF Touching, accel, check
      <2>3. CASE CallTouch(s)
            <3>1. door_sensor_state' \subseteq Touch  BY <2>3 DEF CallTouch
            <3> QED  BY <2>1, <2>3, <3>1 DEF CallTouch, accel
      <2> QED  BY <1>2, <2>2, <2>3
<1>3. CASE DoorMoves \/ ReportDoor  BY <1>3 DEF DoorMoves, ReportDoor, accel, check
<1>4. CASE CallAccel \/ CallRadio \/ RadioReturns \/ RadioMoves
      <2>1. flags' \subseteq Pin /\ ("accel" \in flags' => "accel" \in flags)
            BY <1>4 DEF CallAccel, CallRadio, RadioReturns, RadioMoves, Pin
      <2> QED  BY <1>4, <2>1 DEF CallAccel, CallRadio, RadioReturns, RadioMoves, accel, check, doors, Pin
<1>5. CASE ReadPosition \/ ReadFails
      <2>1. since' \in 0 .. Settle + 1  BY <1>5 DEF ReadPosition, ReadFails, Latch
      <2>2. missed' \in BOOLEAN  BY <1>5, Zenon DEF ReadPosition, ReadFails
      <2> QED  BY <1>5, <2>1, <2>2 DEF ReadPosition, ReadFails, Latch, doors
<1>6. CASE Load
      <2>1. loaded' \subseteq flags  BY <1>6 DEF Load
      <2> QED  BY <1>6, <2>1 DEF Load, accel, doors
<1>7. CASE Store
      <2>1. flags' \subseteq flags \cup loaded  BY <1>7 DEF Store
      <2>2. ~watching => "accel" \notin flags'  BY <1>7 DEF Store, Returned, Port, Touch, Pin
      <2> QED  BY <1>7, <2>1, <2>2 DEF Store, accel, doors
<1>8. CASE Tick \/ SetClock \/ ReportOrientation
      BY <1>8 DEF Tick, SetClock, ReportOrientation, check, doors
<1>9. CASE Watch  BY <1>9 DEF Watch, check, doors
<1>10. CASE Unwatch
      <2>1. flags' \subseteq Pin /\ "accel" \notin flags'  BY <1>10 DEF Unwatch
      <2> QED  BY <1>10, <2>1 DEF Unwatch, check, doors
<1>11. CASE UNCHANGED vars  BY <1>11 DEF vars, accel, check, doors
<1> QED  BY <1>1, <1>2, <1>3, <1>4, <1>5, <1>6, <1>7, <1>8, <1>9, <1>10, <1>11 DEF Next

-----------------------------------------------------------------------------
(* The touches.                                                            *)
LEMMA TouchNext == IInv /\ [Next]_vars => TouchesKept' /\ Returned'
<1> SUFFICES ASSUME IInv, [Next]_vars PROVE TouchesKept' /\ Returned'  OBVIOUS
<1> USE DEF IInv, TouchesKept, Returned, Touch
<1>1. ASSUME NEW z \in Orientations \cup {None}, Turn(z) PROVE TouchesKept' /\ Returned'
      BY <1>1 DEF Turn, check, doors
<1>2. ASSUME NEW s \in Touch, Touching(s) PROVE TouchesKept' /\ Returned'
      BY <1>2 DEF Touching, Touched, Overwritten, Port, TypeOK, Pin, check, accel
<1>3. ASSUME NEW s \in Touch, CallTouch(s) PROVE TouchesKept' /\ Returned'
      BY <1>3 DEF CallTouch
<1>4. CASE DoorMoves \/ CallAccel \/ ReadPosition \/ ReadFails \/ RadioMoves \/ CallRadio \/ RadioReturns
      BY <1>4 DEF DoorMoves, CallAccel, ReadPosition, ReadFails, RadioMoves, CallRadio, RadioReturns,
                  accel, check, doors
<1>5. CASE Load  BY <1>5 DEF Load, Port, TypeOK, Pin, accel, doors
<1>6. CASE Store  BY <1>6 DEF Store, Port, TypeOK, Pin, accel, doors
<1>7. CASE Tick \/ SetClock \/ ReportOrientation \/ Watch \/ Unwatch
      BY <1>7 DEF Tick, SetClock, ReportOrientation, Watch, Unwatch, TakesPackets, TypeOK, check, doors
<1>8. CASE ReportDoor  BY <1>8 DEF ReportDoor, accel, check
<1>9. CASE UNCHANGED vars  BY <1>9 DEF vars, accel, check, doors
<1> QED  BY <1>1, <1>2, <1>3, <1>4, <1>5, <1>6, <1>7, <1>8, <1>9 DEF Next

-----------------------------------------------------------------------------
(* The positions.                                                          *)
Position == PositionKnown /\ Latched /\ Acted

LEMMA PositionNext == IInv /\ [Next]_vars => Position'
<1> SUFFICES ASSUME IInv, [Next]_vars PROVE Position'  OBVIOUS
<1> USE DEF IInv, Position, PositionKnown, Latched, Acted, Looking, Known
<1>1. ASSUME NEW z \in Orientations \cup {None}, Turn(z) PROVE Position'
      BY <1>1 DEF Turn, High, TypeOK, check, doors
<1>2. ASSUME NEW s \in Touch, Touching(s) PROVE Position'
      BY <1>2 DEF Touching, Touched, Touch, accel, check
<1>3. ASSUME NEW s \in Touch, CallTouch(s) PROVE Position'
      BY <1>3 DEF CallTouch, Touch, accel
<1>4. CASE CallAccel  BY <1>4 DEF CallAccel, High, doors
<1>5. CASE ReadPosition \/ ReadFails  BY <1>5 DEF ReadPosition, ReadFails, Latch, Returned, doors
<1>6. CASE Load  BY <1>6 DEF Load, accel, doors
<1>7. CASE Store
      <2>1. "accel" \in flags' <=> "accel" \in flags /\ cb # "accel"
            BY <1>7 DEF Store, Returned, Port, TypeOK, Pin, Touch
      <2> QED  BY <1>7, <2>1 DEF Store, accel, doors
<1>8. CASE Tick \/ SetClock \/ DoorMoves \/ ReportDoor \/ RadioMoves \/ CallRadio \/ RadioReturns
      BY <1>8 DEF Tick, SetClock, DoorMoves, ReportDoor, RadioMoves, CallRadio, RadioReturns, Returned,
                  accel, check, doors
<1>9. CASE ReportOrientation  BY <1>9 DEF ReportOrientation, check, doors
<1>10. CASE Watch \/ Unwatch  BY <1>10 DEF Watch, Unwatch, TakesPackets, Returned, TypeOK, check, doors
<1>11. CASE UNCHANGED vars  BY <1>11 DEF vars, accel, check, doors
<1> QED  BY <1>1, <1>2, <1>3, <1>4, <1>5, <1>6, <1>7, <1>8, <1>9, <1>10, <1>11 DEF Next

LEMMA NextInv == IInv /\ [Next]_vars => IInv'
BY TypeNext, TouchNext, PositionNext DEF IInv, Position

-----------------------------------------------------------------------------
(* Every variable keeps its type, and no flag of the accelerometer's pin   *)
(* outlives its configuration: for any positions and settling time.        *)
THEOREM Typing == Spec => []TypeOK
<1>1. IInv => TypeOK  BY DEF IInv
<1> QED  BY InitInv, NextInv, <1>1, PTL DEF Spec

(* A touch is flagged or latched until it is reported, unless it falls     *)
(* between the accesses that clear the flag of another pin of the port,    *)
(* the other sensor's or the radio's (pcint.c:62).                         *)
THEOREM TouchesAreKept == Spec => []TouchesKept
<1>1. IInv => TouchesKept  BY DEF IInv
<1> QED  BY InitInv, NextInv, <1>1, PTL DEF Spec

(* The position is flagged, latched or told, outside the windows that      *)
(* PositionKnown names (lis3dh.c:198-248, pcint.c:60-62).                  *)
THEOREM PositionIsKnown == Spec => []PositionKnown
<1>1. IInv => PositionKnown  BY DEF IInv
<1> QED  BY InitInv, NextInv, <1>1, PTL DEF Spec

-----------------------------------------------------------------------------
(***************************************************************************)
(* The reporting cycle.  First the arithmetic of the clock.                *)
(***************************************************************************)
LEMMA MinusValue ==
  ASSUME NEW a \in Time, NEW b \in Time
  PROVE  /\ Minus(a, b) = (IF b <= a THEN a - b ELSE a - b + TimeMod)
         /\ Minus(a, b) \in Time
  BY ModAssumption DEF Minus, Time

LEMMA LaterValue ==
  ASSUME NEW x \in Time, NEW d \in Nat, d < TimeMod
  PROVE  /\ (x + d) % TimeMod = (IF x + d < TimeMod THEN x + d ELSE x + d - TimeMod)
         /\ (x + d) % TimeMod \in Time
  BY ModAssumption DEF Time

(* a time gone by grows with the clock, as long as it does not wrap *)
LEMMA MinusLater ==
  ASSUME NEW x \in Time, NEW last \in Time, NEW d \in Nat, Minus(x, last) + d < TimeMod
  PROVE  Minus((x + d) % TimeMod, last) = Minus(x, last) + d
<1>1. Minus(x, last) = (IF last <= x THEN x - last ELSE x - last + TimeMod) /\ Minus(x, last) \in Time
  BY MinusValue
<1>2. d < TimeMod
  BY <1>1, ModAssumption DEF Time
<1> DEFINE y == (x + d) % TimeMod
<1>3. y = (IF x + d < TimeMod THEN x + d ELSE x + d - TimeMod) /\ y \in Time
  BY <1>2, LaterValue
<1> HIDE DEF y
<1>4. Minus(y, last) = IF last <= y THEN y - last ELSE y - last + TimeMod
  BY <1>3, MinusValue
<1>5. Minus(y, last) = Minus(x, last) + d
  BY <1>1, <1>3, <1>4, ModAssumption DEF Time
<1> QED BY <1>5 DEF y

-----------------------------------------------------------------------------
(* The types.                                                              *)
LEMMA UptoType ==
  ASSUME NEW n \in Int, -Round <= n
  PROVE  Upto(n) \in -Round .. HistoryMax /\ Upto(n) <= n
  BY HostAssumption DEF Upto

(* what Later does, for the actions in which time goes by *)
LEMMA LaterType ==
  ASSUME CycleTypeOK, NEW d \in 0 .. 2, NEW u \in -Round .. HistoryMax,
         NEW v \in -Round .. HistoryMax, Later(d, u, v)
  PROVE  /\ now' = (now + d) % TimeMod /\ now' \in Time
         /\ alarm_val' = (IF d = 0 THEN alarm_val ELSE 0)
         /\ unsampled' \in -Round .. HistoryMax /\ unsampled' <= u + d
         /\ unsent' \in -Round .. HistoryMax /\ unsent' <= v + d
         /\ stale' = stale /\ unsent_read' = unsent_read
<1>1. -Round <= u + d /\ -Round <= v + d /\ u + d \in Int /\ v + d \in Int
  BY HostAssumption
<1>2. /\ Upto(u + d) \in -Round .. HistoryMax /\ Upto(u + d) <= u + d
      /\ Upto(v + d) \in -Round .. HistoryMax /\ Upto(v + d) <= v + d
  BY <1>1, UptoType
<1>3. now' \in Time
  BY ModAssumption DEF Later, CycleTypeOK, Time
<1>4. alarm_val' = (IF d = 0 THEN alarm_val ELSE 0)
  BY DEF Later, CycleTypeOK
<1> QED BY <1>2, <1>3, <1>4 DEF Later

LEMMA ElapseType ==
  ASSUME CycleTypeOK, NEW d \in 0 .. 2, Elapse(d)
  PROVE  /\ now' = (now + d) % TimeMod /\ now' \in Time
         /\ alarm_val' = (IF d = 0 THEN alarm_val ELSE 0)
         /\ unsampled' \in -Round .. HistoryMax /\ unsampled' <= unsampled + d
         /\ unsent' \in -Round .. HistoryMax /\ unsent' <= unsent + d
         /\ stale' = stale /\ unsent_read' = unsent_read
  BY LaterType DEF Elapse, CycleTypeOK

LEMMA CycleTypeInit == CycleInit => CycleTypeOK
<1> SUFFICES ASSUME CycleInit PROVE CycleTypeOK
  OBVIOUS
<1>1. stale \in BOOLEAN /\ using_monitor_list \in BOOLEAN
  BY Zenon DEF CycleInit
<1> QED BY <1>1, ModAssumption, RetryAssumption, HostAssumption
        DEF CycleInit, CycleTypeOK, Link!Init, Time, Never

LEMMA CycleTypeNext == CycleTypeOK /\ [CycleNext]_cyclevars => CycleTypeOK'
<1> SUFFICES ASSUME CycleTypeOK, [CycleNext]_cyclevars PROVE CycleTypeOK'
  OBVIOUS
<1> USE DEF CycleTypeOK
<1>1. CASE Alarm \/ SampleStart \/ SampleSkip
  <2>1. stale' \in BOOLEAN
    BY <1>1, Zenon DEF Alarm, SampleStart, SampleSkip, time
  <2> QED BY <1>1, <2>1, HostAssumption DEF Alarm, SampleStart, SampleSkip, time, lasts, retry, config
<1>2. CASE SampleEnd
  <2>1. PICK d \in {0, 1} : Later(d, IF stale THEN -Round ELSE unsampled, unsent)
    BY <1>2 DEF SampleEnd
  <2>2. (IF stale THEN -Round ELSE unsampled) \in -Round .. HistoryMax
    <3>1. -Round \in -Round .. HistoryMax /\ unsampled \in -Round .. HistoryMax
      BY HostAssumption
    <3> QED BY <3>1, Zenon
  <2>3. now' \in Time /\ alarm_val' \in 0 .. 1 /\ unsampled' \in -Round .. HistoryMax
        /\ unsent' \in -Round .. HistoryMax /\ stale' = stale /\ unsent_read' = unsent_read
    BY <2>1, <2>2, LaterType
  <2> QED BY <1>2, <2>3 DEF SampleEnd, retry, config
<1>3. CASE Send \/ SendSkip \/ SendReturn
  BY <1>3, HostAssumption, RetryAssumption DEF Send, SendSkip, SendReturn, Link!Wake, time, lasts, retry, config
<1>4. CASE Retry \/ RetrySkip
  BY <1>4, HostAssumption DEF Retry, RetrySkip, Link!Wake, time, lasts, retry, config
<1>5. CASE RetryReturn
  <2>1. num_retries_remaining' \in 0 .. RetryMod - 1
    BY <1>5, RetryAssumption, ModAssumption DEF RetryReturn
  <2> QED BY <1>5, <2>1 DEF RetryReturn, time, lasts, config
<1>6. CASE MonitorStart \/ Return \/ NoAlarm \/ PinWake \/ Ready
  BY <1>6 DEF MonitorStart, Return, NoAlarm, PinWake, Ready, Link!Ready, time, lasts, retry, config
<1>7. CASE FallAsleep \/ RtcTick \/ GiveUp \/ SessionEnd
  <2>1. \E d \in 0 .. 2 : Elapse(d)
    BY <1>7 DEF FallAsleep, RtcTick, GiveUp, SessionEnd
  <2>2. /\ now' \in Time /\ alarm_val' \in 0 .. 1 /\ unsampled' \in -Round .. HistoryMax
        /\ unsent' \in -Round .. HistoryMax /\ stale' = stale /\ unsent_read' = unsent_read
    BY <2>1, ElapseType
  <2>3. pc' \in {"main", "asleep", pc} /\ link' \in {"idle", link}
    BY <1>7 DEF FallAsleep, RtcTick, GiveUp, SessionEnd, Link!GiveUp, Link!Finish
  <2>4. num_retries_remaining' \in {0, num_retries_remaining}
    BY <1>7 DEF FallAsleep, RtcTick, GiveUp, SessionEnd, retry
  <2>5. UNCHANGED <<curtime, lasts, last_retry_tried, config, answered>>
    BY <1>7 DEF FallAsleep, RtcTick, GiveUp, SessionEnd, retry
  <2>6. stale' \in BOOLEAN
    BY <2>2, Zenon
  <2>7. num_retries_remaining' \in 0 .. RetryMod - 1
    BY <2>4, RetryAssumption, ModAssumption
  <2>8. /\ pc' \in {"main", "tick", "asleep", "sample", "list", "send", "sent", "retry",
                   "retried", "monitor", "monitoring"}
        /\ link' \in {"idle", "waiting", "session"}
    BY <2>3
  <2> QED BY <2>2, <2>5, <2>6, <2>7, <2>8 DEF lasts, config
<1>8. CASE Timesync
  BY <1>8, HostAssumption, ModAssumption DEF Timesync, Receiving, Time, retry
<1>9. CASE Configure
  <2>1. /\ requested_report_interval' \in SampleIntervals /\ last_periodic_report_taken' \in Time
        /\ unsampled' \in -Round .. HistoryMax
    BY <1>9, HostAssumption, ModAssumption DEF Configure, Never, Time
  <2>2. /\ requested_recordstore_interval' \in RecordIntervals /\ last_recordstore_sent' \in Time
        /\ unsent' \in -Round .. HistoryMax /\ unsent_read' \in -Round .. HistoryMax
    BY <1>9, HostAssumption, ModAssumption DEF Configure, Never, Time
  <2>3. packets' \in 0 .. MaxPackets
    BY <1>9, HostAssumption DEF Configure, Receiving
  <2>4. using_monitor_list' \in BOOLEAN
    BY <1>9, Zenon DEF Configure
  <2> QED BY <1>9, <2>1, <2>2, <2>3, <2>4 DEF Configure, retry
<1>10. CASE UNCHANGED cyclevars
  BY <1>10 DEF cyclevars
<1> QED BY <1>1, <1>2, <1>3, <1>4, <1>5, <1>6, <1>7, <1>8, <1>9, <1>10 DEF CycleNext, Callback

(* The types hold, and no history leaves its bounds: for any intervals,    *)
(* any times the host sends and any width of the clock.                    *)
THEOREM CycleTyping == CycleSpec => []CycleTypeOK
  BY CycleTypeInit, CycleTypeNext, PTL DEF CycleSpec

-----------------------------------------------------------------------------
(* The retries.  A session is one that rtc_timer_cb waits for, or one in   *)
(* the main loop or in a list of tasks; ...                                *)
SessionInv == link = "session" => pc \in {"sent", "retried", "main", "list", "monitoring"}

(* ... an answer after datalink_wake's return ends in no retries, and the  *)
(* counter has passed below zero only where a retry's own answer zeroed it *)
RetryInv ==
    /\ answered = "later" => num_retries_remaining = 0 \/ link = "session"
    /\ num_retries_remaining > ERROR_NUM_RETRIES =>
          answered = "in_retry" \/ link = "session" \/ pc = "sent"
    /\ pc = "sent" => answered \in {"no", "in_wake"}
    /\ pc = "retried" => answered \in {"no", "in_retry"}
    /\ pc = "retried" /\ answered = "no" => num_retries_remaining > 0 /\ link # "session"

Waking == CycleTypeOK /\ SessionInv /\ RetryInv

LEMMA WakingInit == CycleInit => Waking
<1> SUFFICES ASSUME CycleInit PROVE Waking
  OBVIOUS
<1>1. SessionInv /\ RetryInv
  BY RetryAssumption DEF CycleInit, SessionInv, RetryInv, Link!Init
<1> QED BY <1>1, CycleTypeInit DEF Waking

LEMMA WakingNext == Waking /\ [CycleNext]_cyclevars => Waking'
<1> SUFFICES ASSUME Waking, [CycleNext]_cyclevars PROVE Waking'
  OBVIOUS
<1> USE DEF Waking
<1>1. CycleTypeOK'
  BY CycleTypeNext
<1> SUFFICES SessionInv' /\ RetryInv'
  BY <1>1
<1>0. /\ num_retries_remaining \in 0 .. RetryMod - 1 /\ link \in {"idle", "waiting", "session"}
      /\ answered \in {"no", "in_wake", "in_retry", "later"}
  BY DEF CycleTypeOK
<1>2. CASE Alarm \/ SampleStart \/ SampleSkip \/ SampleEnd \/ MonitorStart \/ Return
           \/ NoAlarm \/ FallAsleep \/ RtcTick \/ PinWake
  BY <1>0, <1>2 DEF Alarm, SampleStart, SampleSkip, SampleEnd, MonitorStart, Return, NoAlarm, FallAsleep,
                    RtcTick, PinWake, SessionInv, RetryInv, Listening, retry
<1>3. CASE Send
  BY <1>0, <1>3 DEF Send, Link!Wake, SessionInv, RetryInv, retry
<1>4. CASE SendSkip \/ RetrySkip
  BY <1>0, <1>4 DEF SendSkip, RetrySkip, SessionInv, RetryInv, retry
<1>5. CASE SendReturn
  BY <1>0, <1>5, RetryAssumption DEF SendReturn, Listening, SessionInv, RetryInv
<1>6. CASE Retry
  BY <1>0, <1>6 DEF Retry, RetryDue, Link!Wake, SessionInv, RetryInv, retry
<1>7. CASE RetryReturn
  <2>1. num_retries_remaining' =
           IF num_retries_remaining = 0 THEN RetryMod - 1 ELSE num_retries_remaining - 1
    BY <1>0, <1>7, RetryAssumption, ModAssumption DEF RetryReturn
  <2> QED BY <1>0, <1>7, <2>1, RetryAssumption, ModAssumption DEF RetryReturn, Listening, SessionInv, RetryInv
<1>8. CASE Ready
  BY <1>0, <1>8 DEF Ready, Link!Ready, SessionInv, RetryInv, retry
<1>9. CASE GiveUp
  BY <1>0, <1>9 DEF GiveUp, Link!GiveUp, SessionInv, RetryInv, retry
<1>10. CASE SessionEnd
  BY <1>0, <1>10, RetryAssumption DEF SessionEnd, Link!Finish, SessionInv, RetryInv
<1>11. CASE Timesync \/ Configure
  BY <1>0, <1>11 DEF Timesync, Configure, SessionInv, RetryInv, retry
<1>12. CASE UNCHANGED cyclevars
  BY <1>12 DEF cyclevars, SessionInv, RetryInv
<1> QED BY <1>2, <1>3, <1>4, <1>5, <1>6, <1>7, <1>8, <1>9, <1>10, <1>11, <1>12 DEF CycleNext, Callback

(* No retry follows an answer that came after datalink_wake returned, and  *)
(* there are at most ERROR_NUM_RETRIES, unless a retry's datalink_wake is  *)
(* answered before it returns (logic.c:253-258, 290-293): for any number   *)
(* of retries, any interval and whatever the host sends.                   *)
THEOREM LateAnswersEndRetries == CycleSpec => RetriesStop
<1>1. Waking /\ [CycleNext]_cyclevars =>
         [pc = "retry" /\ pc' = "retried" =>
             /\ answered # "later"
             /\ num_retries_remaining <= ERROR_NUM_RETRIES \/ answered = "in_retry"]_cyclevars
  <2> SUFFICES ASSUME Waking, [CycleNext]_cyclevars, pc = "retry", pc' = "retried"
               PROVE  /\ answered # "later"
                      /\ num_retries_remaining <= ERROR_NUM_RETRIES \/ answered = "in_retry"
    OBVIOUS
  <2>1. num_retries_remaining \in 0 .. RetryMod - 1
    BY DEF Waking, CycleTypeOK
  <2>2. Retry
    BY DEF CycleNext, Callback, Alarm, SampleStart, SampleSkip, SampleEnd, Send, SendSkip, SendReturn,
           RetrySkip, RetryReturn, MonitorStart, Return, NoAlarm, FallAsleep, RtcTick, PinWake, Ready,
           GiveUp, SessionEnd, Timesync, Configure, cyclevars
  <2> QED BY <2>1, <2>2, RetryAssumption DEF Retry, RetryDue, Waking, SessionInv, RetryInv
<1> QED BY WakingInit, WakingNext, <1>1, PTL DEF CycleSpec, RetriesStop

-----------------------------------------------------------------------------
(* The intervals fit the clock, with a round of the main loop to spare (16 *)
(* bits in 32), a retry waits a second at least, and Round is no less than *)
(* what a round of the main loop may take: two sessions and a sleep.       *)
Fits == /\ TimeMod >= 8 /\ \A i \in SampleIntervals \cup RecordIntervals : i + 5 <= TimeMod
        /\ Round >= 5 /\ ERROR_RETRY_INTERVAL >= 1

(* How long the link, and the main loop, may take before the next alarm is *)
(* looked at.                                                              *)
LinkTime == IF link = "idle" THEN 0 ELSE 2

Left == IF pc = "main" THEN LinkTime + 2 * alarm_val
        ELSE IF pc = "asleep" THEN LinkTime + 1 + alarm_val
        ELSE IF pc = "retry" THEN IF RetryDue THEN 4 ELSE LinkTime + 2
        ELSE IF pc = "send" THEN 4
        ELSE IF pc = "list" THEN LinkTime + 5
        ELSE IF pc = "sample" THEN 0
        ELSE LinkTime + 2

Behind == Minus(now, curtime)         \* how far curtime is behind the clock

(* A history u is no longer than what the clock x says has gone by since   *)
(* the time last, and the clock does not reach last again before the next  *)
(* alarm, or by then u has started to count anew.                          *)
Soon(x, last, l, b) == last # Never => Minus(x, last) + l <= b

Kept(x, u, last, l, b) ==
    last # Never => u <= Minus(x, last) /\ (Minus(x, last) + l <= b \/ u + l <= 0)

ReportBound == IF requested_report_interval > 4 THEN requested_report_interval + 3 ELSE 7
WakeBound == IF requested_recordstore_interval > 3 THEN requested_recordstore_interval + 4 ELSE 7

LEMMA KeepUp ==
  ASSUME NEW x \in Time, NEW last \in Time, NEW u \in Int, NEW u2 \in Int, NEW d \in Nat,
         NEW l \in Int, NEW l2 \in Nat, NEW b \in Nat, b < TimeMod,
         Kept(x, u, last, l, b), u2 <= u + d, l2 + d <= l
  PROVE  Kept((x + d) % TimeMod, u2, last, l2, b)
<1> SUFFICES ASSUME last # Never
             PROVE  /\ u2 <= Minus((x + d) % TimeMod, last)
                    /\ \/ Minus((x + d) % TimeMod, last) + l2 <= b
                       \/ u2 + l2 <= 0
  BY DEF Kept
<1> DEFINE m == Minus(x, last)
           m2 == Minus((x + d) % TimeMod, last)
<1>1. m \in Nat /\ u <= m /\ (m + l <= b \/ u + l <= 0)
  BY MinusValue DEF Kept, Time
<1>2. m + d < TimeMod => m2 = m + d
  BY MinusLater
<1>3. m2 \in Nat
  <2>1. (x + d) % TimeMod \in Time
    BY ModAssumption DEF Time
  <2> QED BY <2>1, MinusValue DEF Time
<1> HIDE DEF m, m2
<1>4. u2 <= m2 /\ (m2 + l2 <= b \/ u2 + l2 <= 0)
  <2>1. CASE m + d < TimeMod
    BY <1>1, <1>2, <2>1
  <2>2. CASE ~(m + d < TimeMod)
    <3>1. u + l <= 0
      BY <1>1, <2>2, ModAssumption
    <3> QED BY <3>1, <1>1, <1>3
  <2> QED BY <2>1, <2>2
<1> QED BY <1>4 DEF m, m2

LEMMA SoonUp ==
  ASSUME NEW x \in Time, NEW last \in Time, NEW d \in Nat, NEW l \in Int, NEW l2 \in Nat,
         NEW b \in Nat, b < TimeMod, Soon(x, last, l, b), l2 + d <= l
  PROVE  Soon((x + d) % TimeMod, last, l2, b)
<1> SUFFICES ASSUME last # Never PROVE Minus((x + d) % TimeMod, last) + l2 <= b
  BY DEF Soon
<1>1. Minus(x, last) \in Nat /\ Minus(x, last) + l <= b
  BY MinusValue DEF Soon, Time
<1>2. Minus(x, last) + d < TimeMod
  BY <1>1, ModAssumption
<1>3. Minus((x + d) % TimeMod, last) = Minus(x, last) + d
  BY <1>2, MinusLater
<1> QED BY <1>1, <1>3

(* without a change of the clock *)
LEMMA KeepStill ==
  ASSUME NEW x \in Time, NEW last \in Time, NEW u \in Int, NEW u2 \in Int,
         NEW l \in Int, NEW l2 \in Int, NEW b \in Nat, u2 <= u, l2 <= l
  PROVE  /\ Kept(x, u, last, l, b) => Kept(x, u2, last, l2, b)
         /\ Soon(x, last, l, b) => Soon(x, last, l2, b)
<1>1. Minus(x, last) \in Nat
  BY MinusValue DEF Time
<1> QED BY <1>1 DEF Kept, Soon

LEMMA SelfMinus == ASSUME NEW x \in Time PROVE Minus(x, x) = 0 /\ (x + 0) % TimeMod = x
<1>1. Minus(x, x) = 0
  BY MinusValue DEF Time
<1>2. (x + 0) % TimeMod = x
  <2>1. x % TimeMod = x
    BY ModAssumption DEF Time
  <2>2. x + 0 = x
    BY DEF Time
  <2> QED BY <2>1, <2>2
<1> QED BY <1>1, <1>2

LEMMA Bounds ==
  ASSUME Fits, CycleTypeOK
  PROVE  /\ ReportBound \in Nat /\ ReportBound < TimeMod /\ ReportBound >= 7
         /\ ReportBound >= requested_report_interval + 3
         /\ WakeBound \in Nat /\ WakeBound < TimeMod /\ WakeBound >= 7
         /\ WakeBound >= requested_recordstore_interval + 4
         /\ requested_report_interval \in Nat /\ requested_recordstore_interval \in Nat
<1>1. /\ requested_report_interval \in SampleIntervals \cup RecordIntervals
      /\ requested_recordstore_interval \in SampleIntervals \cup RecordIntervals
  BY DEF CycleTypeOK
<1>2. requested_report_interval \in Nat /\ requested_recordstore_interval \in Nat
  BY HostAssumption DEF CycleTypeOK
<1>3. /\ requested_report_interval + 5 <= TimeMod
      /\ requested_recordstore_interval + 5 <= TimeMod /\ TimeMod >= 8
  BY <1>1 DEF Fits
<1> QED BY <1>2, <1>3, ModAssumption DEF ReportBound, WakeBound

LEMMA LeftType == CycleTypeOK => Left \in 0 .. 7 /\ LinkTime \in 0 .. 2
<1> SUFFICES ASSUME CycleTypeOK PROVE Left \in 0 .. 7 /\ LinkTime \in 0 .. 2
  OBVIOUS
<1>1. alarm_val \in 0 .. 1 /\ LinkTime \in {0, 2}
  BY DEF CycleTypeOK, LinkTime
<1> QED BY <1>1 DEF Left

LEMMA LeftTypeNext == CycleTypeOK' => Left' \in Nat
<1> SUFFICES ASSUME CycleTypeOK' PROVE Left' \in Nat
  OBVIOUS
<1>1. alarm_val' \in Nat
  BY DEF CycleTypeOK
<1> DEFINE a == alarm_val'
           t == IF link' = "idle" THEN 0 ELSE 2
<1>2. t \in Nat
  OBVIOUS
<1>3. a \in Nat
  BY <1>1
<1> HIDE DEF a, t
<1>4. t + 2 * a \in Nat /\ t + 1 + a \in Nat /\ t + 2 \in Nat /\ t + 5 \in Nat
  BY <1>2, <1>3
<1> QED BY <1>4 DEF Left, LinkTime, a, t

-----------------------------------------------------------------------------
(* What an action does that neither reads the clock anew nor receives a    *)
(* packet: the time it takes is taken from what was left.                  *)
Plain == \/ SampleEnd \/ Send \/ SendSkip \/ SendReturn \/ Retry \/ RetrySkip \/ RetryReturn
         \/ MonitorStart \/ Return \/ NoAlarm \/ FallAsleep \/ RtcTick \/ PinWake
         \/ Ready \/ GiveUp \/ SessionEnd \/ UNCHANGED cyclevars

Passes(d) == /\ now' = (now + d) % TimeMod
             /\ Left' + d <= Left
             /\ unsampled' <= unsampled + d
             /\ pc' \notin {"sent", "retried"} \/ pc' = pc => unsent' <= unsent + d

LEMMA PlainPasses ==
  ASSUME Fits, Waking, Waking', Plain
  PROVE  \E d \in 0 .. 2 : Passes(d)
<1> USE DEF Waking
<1>1. /\ alarm_val \in 0 .. 1 /\ link \in {"idle", "waiting", "session"} /\ now \in Time
      /\ unsampled \in -Round .. HistoryMax /\ unsent \in -Round .. HistoryMax
      /\ Round \in Nat /\ HistoryMax \in Nat /\ LinkTime \in {0, 2} /\ Left \in 0 .. 7
  <2>1. Left \in 0 .. 7
    BY LeftType
  <2> QED BY <2>1, HostAssumption DEF CycleTypeOK, LinkTime
<1>2. /\ Left' \in Nat /\ alarm_val' \in 0 .. 1
      /\ unsampled' \in -Round .. HistoryMax /\ unsent' \in -Round .. HistoryMax
  <2>1. alarm_val' \in 0 .. 1
    BY DEF CycleTypeOK
  <2>2. Left' \in Nat
    BY LeftTypeNext
  <2> QED BY <2>1, <2>2 DEF CycleTypeOK
<1>3. now = (now + 0) % TimeMod
  BY <1>1, SelfMinus
<1>4. ASSUME now' = now, unsampled' = unsampled, Left' + 0 <= Left,
             pc' \notin {"sent", "retried"} \/ pc' = pc => unsent' <= unsent
      PROVE  Passes(0)
  <2>1. now' = (now + 0) % TimeMod
    BY <1>3, <1>4
  <2>2. unsampled' <= unsampled + 0
    BY <1>1, <1>4
  <2>3. unsent' <= unsent => unsent' <= unsent + 0
    BY <1>1, <1>2
  <2> QED BY <1>4, <2>1, <2>2, <2>3 DEF Passes
<1>5. ASSUME NEW d \in 0 .. 2, Elapse(d), Left' + d <= Left
      PROVE  Passes(d)
  BY <1>5, ElapseType DEF Passes
<1>6. CASE SampleEnd
  <2>1. PICK d \in {0, 1} : Later(d, IF stale THEN -Round ELSE unsampled, unsent)
    BY <1>6 DEF SampleEnd
  <2> DEFINE u == IF stale THEN -Round ELSE unsampled
  <2>2. u \in -Round .. HistoryMax /\ u <= unsampled
    <3>1. -Round \in -Round .. HistoryMax /\ -Round <= unsampled
      BY <1>1
    <3>2. CASE stale
      BY <3>1, <3>2
    <3>3. CASE ~stale
      BY <1>1, <3>3
    <3> QED BY <3>2, <3>3
  <2> HIDE DEF u
  <2>3. Later(d, u, unsent) /\ d \in 0 .. 2
    BY <2>1 DEF u
  <2>4. now' = (now + d) % TimeMod /\ unsampled' <= u + d /\ unsent' <= unsent + d
        /\ unsampled' \in -Round .. HistoryMax
    BY <1>1, <2>2, <2>3, LaterType
  <2>5. Left' + d <= Left
    BY <1>1, <1>6, <2>1 DEF SampleEnd, Left, LinkTime
  <2>6. unsampled' <= unsampled + d
    BY <1>1, <2>2, <2>3, <2>4
  <2> QED BY <2>3, <2>4, <2>5, <2>6 DEF Passes
<1>7. CASE Send
  <2>1. Left' + 0 <= Left /\ now' = now /\ unsampled' = unsampled /\ pc' = "sent" /\ pc = "send"
    BY <1>1, <1>7 DEF Send, Link!Wake, Left, LinkTime
  <2> QED BY <1>4, <2>1
<1>8. CASE SendSkip
  <2>1. Left' + 0 <= Left
    BY <1>1, <1>8 DEF SendSkip, Left, LinkTime, time
  <2> QED BY <1>1, <1>4, <1>8, <2>1 DEF SendSkip, time
<1>9. CASE SendReturn
  <2>1. ~RetryDue'
    <3>1. Minus(curtime, curtime) = 0
      BY SelfMinus DEF CycleTypeOK
    <3>2. Minus(curtime', last_retry_tried') = 0
      BY <1>9, <3>1 DEF SendReturn
    <3> QED BY <3>2, RetryAssumption DEF RetryDue, Fits
  <2>2. Left' + 0 <= Left
    BY <1>1, <1>9, <2>1 DEF SendReturn, Left, LinkTime
  <2>3. unsent' <= unsent
    BY <1>1, <1>9 DEF SendReturn
  <2> QED BY <1>4, <1>9, <2>2, <2>3 DEF SendReturn
<1>10. CASE Retry
  <2>1. Left' + 0 <= Left /\ now' = now /\ unsampled' = unsampled /\ pc' = "retried" /\ pc = "retry"
    BY <1>1, <1>10 DEF Retry, Link!Wake, Left, LinkTime
  <2> QED BY <1>4, <2>1
<1>11. CASE RetrySkip \/ RetryReturn \/ MonitorStart \/ Return \/ NoAlarm \/ PinWake \/ Ready
  <2>1. UNCHANGED time
    BY <1>11 DEF RetrySkip, RetryReturn, MonitorStart, Return, NoAlarm, PinWake, Ready
  <2>2. Left' + 0 <= Left
    BY <1>1, <1>11 DEF RetrySkip, RetryReturn, MonitorStart, Return, NoAlarm, PinWake, Ready, Link!Ready,
                       Left, LinkTime, time, retry, config
  <2> QED BY <1>1, <1>4, <2>1, <2>2 DEF time
<1>12. CASE UNCHANGED cyclevars
  <2>1. Left' + 0 <= Left
    BY <1>1, <1>12 DEF cyclevars, Left, LinkTime, RetryDue
  <2> QED BY <1>1, <1>4, <1>12, <2>1 DEF cyclevars
<1>13. ASSUME NEW d \in 0 .. 2, Elapse(d),
              \/ FallAsleep /\ d <= 1
              \/ RtcTick /\ d = 1
              \/ GiveUp /\ d >= 1
              \/ SessionEnd /\ d >= 1
       PROVE  Left' + d <= Left
  <2>1. alarm_val' = (IF d = 0 THEN alarm_val ELSE 0)
    BY <1>13, ElapseType
  <2>2. CASE FallAsleep /\ d <= 1
    BY <1>1, <1>13, <2>1, <2>2 DEF FallAsleep, Left, LinkTime
  <2>4. CASE RtcTick /\ d = 1
    BY <1>1, <1>13, <2>1, <2>4 DEF RtcTick, Left, LinkTime
  <2>5. CASE GiveUp /\ d >= 1
    BY <1>1, <1>13, <2>1, <2>5 DEF GiveUp, Link!GiveUp, Left, LinkTime
  <2>3. CASE SessionEnd /\ d >= 1
    BY <1>1, <1>13, <2>1, <2>3 DEF SessionEnd, SessionInv, Link!Finish, Left, LinkTime
  <2> QED BY <1>13, <2>2, <2>3, <2>4, <2>5
<1>14. CASE FallAsleep \/ RtcTick \/ GiveUp \/ SessionEnd
  <2>1. PICK d \in 0 .. 2 :
           /\ Elapse(d)
           /\ \/ FallAsleep /\ d <= 1
              \/ RtcTick /\ d = 1
              \/ GiveUp /\ d >= 1
              \/ SessionEnd /\ d >= 1
    <3>1. CASE FallAsleep
      <4>1. PICK d \in {0, 1} : Elapse(d)
        BY <3>1 DEF FallAsleep
      <4> QED BY <3>1, <4>1
    <3>2. CASE RtcTick
      BY <3>2 DEF RtcTick
    <3>3. CASE GiveUp
      <4>1. PICK d \in {1, 2} : Elapse(d)
        BY <3>3 DEF GiveUp
      <4> QED BY <3>3, <4>1
    <3>4. CASE SessionEnd
      <4>1. PICK d \in {1, 2} : Elapse(d)
        BY <3>4 DEF SessionEnd
      <4> QED BY <3>4, <4>1
    <3> QED BY <1>14, <3>1, <3>2, <3>3, <3>4
  <2>2. Left' + d <= Left
    BY <1>13, <2>1
  <2> QED BY <1>5, <2>1, <2>2
<1> QED BY <1>6, <1>7, <1>8, <1>9, <1>10, <1>11, <1>12, <1>14 DEF Plain

-----------------------------------------------------------------------------
(* How far curtime may be behind the clock, as long as no timesync has come*)
(* since it was read.                                                      *)
TimeInv ==
    /\ pc = "sample" => ~stale /\ curtime = now
    /\ pc = "list" /\ ~stale => Behind + LinkTime <= 2 /\ (Behind = 0 \/ num_retries_remaining = 0)
    /\ pc = "send" /\ ~stale => Behind + LinkTime <= 3 /\ (Behind <= 1 \/ num_retries_remaining = 0)
    /\ pc = "sent" /\ ~stale => Behind + LinkTime <= 5

(* the periodic reports ... *)
SampledInv ==
    /\ pc = "sample" /\ last_periodic_report_taken # Never =>
          unsampled <= Minus(now, last_periodic_report_taken)
    /\ pc = "list" /\ ~stale => unsampled <= Behind
    /\ pc \notin {"sample", "list"} =>
          Kept(now, unsampled, last_periodic_report_taken, Left, ReportBound)

(* ... and the wakes of the link *)
Reading == pc \in {"sample", "list", "send"}

SentInv ==
    /\ Reading /\ last_recordstore_sent # Never => unsent_read <= Minus(curtime, last_recordstore_sent)
    /\ Reading /\ ~stale => unsent <= unsent_read + Behind
    /\ pc = "sent" /\ ~stale => unsent <= Behind
    /\ ~(Reading /\ ~stale) /\ pc # "sent" =>
          Kept(now, unsent, last_recordstore_sent, Left, WakeBound)
    /\ (pc \in {"list", "send"} /\ stale) \/ (pc = "retry" /\ RetryDue) =>
          Soon(now, last_recordstore_sent, Left, WakeBound)

OnTime == Waking /\ TimeInv /\ SampledInv /\ SentInv

LEMMA OnTimeInit == CycleInit => OnTime
<1> SUFFICES ASSUME CycleInit PROVE OnTime
  OBVIOUS
<1>1. TimeInv /\ SampledInv /\ SentInv
  BY DEF CycleInit, TimeInv, SampledInv, SentInv, Reading, Kept, Soon
<1> QED BY <1>1, WakingInit DEF OnTime

(* curtime falls behind as the clock goes on *)
LEMMA FallsBehind ==
  ASSUME Fits, CycleTypeOK, NEW d \in 0 .. 2, Behind <= 5
  PROVE  Minus((now + d) % TimeMod, curtime) = Behind + d /\ Behind \in Nat
<1>1. now \in Time /\ curtime \in Time /\ Behind \in Nat
  BY MinusValue DEF CycleTypeOK, Behind, Time
<1>2. Minus(now, curtime) + d < TimeMod
  BY <1>1, ModAssumption DEF Fits, Behind
<1> QED BY <1>1, <1>2, MinusLater DEF Behind

LEMMA TimeNext == Fits /\ OnTime /\ [CycleNext]_cyclevars => TimeInv'
<1> SUFFICES ASSUME Fits, OnTime, [CycleNext]_cyclevars PROVE TimeInv'
  OBVIOUS
<1> USE DEF OnTime, Waking
<1>1. /\ link \in {"idle", "waiting", "session"} /\ now \in Time /\ curtime \in Time
      /\ LinkTime \in {0, 2} /\ Behind \in Nat /\ alarm_val \in 0 .. 1
  BY MinusValue DEF CycleTypeOK, LinkTime, Behind, Time
<1>2. CASE Alarm
  BY <1>2 DEF Alarm, TimeInv
<1>3. CASE SampleStart \/ SampleSkip
  <2>1. Minus(now, curtime) = 0
    BY <1>1, <1>3, SelfMinus DEF SampleStart, SampleSkip, TimeInv
  <2> QED BY <1>1, <1>3, <2>1 DEF SampleStart, SampleSkip, TimeInv, time, Behind, LinkTime
<1>4. CASE SampleEnd
  <2> SUFFICES ASSUME ~stale'
               PROVE  Behind' + LinkTime' <= 3 /\ (Behind' <= 1 \/ num_retries_remaining' = 0)
    BY <1>4 DEF SampleEnd, TimeInv
  <2>1. PICK d \in {0, 1} : Later(d, IF stale THEN -Round ELSE unsampled, unsent)
    BY <1>4 DEF SampleEnd
  <2>2. ~stale /\ now' = (now + d) % TimeMod /\ d \in 0 .. 2
    BY <2>1 DEF Later
  <2>3. Behind + LinkTime <= 2 /\ (Behind = 0 \/ num_retries_remaining = 0)
    BY <1>4, <2>2 DEF SampleEnd, TimeInv
  <2>4. Minus(now', curtime) = Behind + d
    <3>1. Behind <= 5
      BY <1>1, <2>3
    <3> QED BY <2>2, <3>1, FallsBehind
  <2>5. Behind' = Behind + d /\ LinkTime' = LinkTime
    BY <1>4, <2>4 DEF SampleEnd, Behind, LinkTime
  <2> QED BY <1>1, <1>4, <2>3, <2>5 DEF SampleEnd, retry
<1>5. CASE Send
  <2>1. Behind' = Behind /\ LinkTime' = 2
    BY <1>5 DEF Send, Link!Wake, Behind, LinkTime
  <2>2. ~stale' => Behind <= 3
    BY <1>1, <1>5 DEF Send, TimeInv
  <2> QED BY <1>1, <1>5, <2>1, <2>2 DEF Send, TimeInv
<1>6. CASE SendSkip \/ SendReturn \/ Retry \/ RetrySkip \/ RetryReturn \/ MonitorStart \/ Return
           \/ NoAlarm \/ FallAsleep \/ RtcTick \/ PinWake \/ GiveUp
  BY <1>6 DEF SendSkip, SendReturn, Retry, RetrySkip, RetryReturn, MonitorStart, Return, NoAlarm,
              FallAsleep, RtcTick, PinWake, GiveUp, TimeInv
<1>7. CASE Ready
  <2>1. Behind' = Behind /\ LinkTime' = LinkTime
    BY <1>7 DEF Ready, Link!Ready, Behind, LinkTime, time
  <2> QED BY <1>7, <2>1 DEF Ready, TimeInv, time, retry
<1>8. CASE SessionEnd
  <2>1. PICK d \in {1, 2} : Elapse(d)
    BY <1>8 DEF SessionEnd
  <2>2. now' = (now + d) % TimeMod /\ d \in 0 .. 2 /\ stale' = stale
    BY <2>1 DEF Elapse, Later
  <2>3. LinkTime = 2 /\ LinkTime' = 0
    BY <1>8 DEF SessionEnd, Link!Finish, LinkTime
  <2>4. ASSUME Behind <= 5 PROVE Behind' = Behind + d
    <3>1. Minus(now', curtime) = Behind + d
      BY <2>2, <2>4, FallsBehind
    <3> QED BY <1>8, <3>1 DEF SessionEnd, Behind
  <2>5. CASE pc = "list" /\ ~stale
    <3>1. Behind = 0
      BY <1>1, <2>3, <2>5 DEF TimeInv
    <3> QED BY <1>8, <2>2, <2>3, <2>4, <2>5, <3>1 DEF SessionEnd, TimeInv
  <2>6. CASE pc = "sent" /\ ~stale
    <3>1. Behind <= 3
      BY <1>1, <2>3, <2>6 DEF TimeInv
    <3> QED BY <1>1, <1>8, <2>2, <2>3, <2>4, <2>6, <3>1 DEF SessionEnd, TimeInv
  <2>7. CASE ~(pc \in {"list", "sent"} /\ ~stale)
    <3>1. pc \notin {"sample", "send"}
      BY <1>8 DEF SessionEnd, SessionInv, Link!Finish
    <3> QED BY <1>8, <2>2, <2>7, <3>1 DEF SessionEnd, TimeInv
  <2> QED BY <2>5, <2>6, <2>7
<1>9. CASE Timesync
  <2>1. pc # "sample"
    BY <1>9 DEF Timesync, Receiving, SessionInv
  <2> QED BY <1>9, <2>1 DEF Timesync, TimeInv
<1>10. CASE Configure \/ UNCHANGED cyclevars
  <2>1. Behind' = Behind /\ LinkTime' = LinkTime
    BY <1>10 DEF Configure, cyclevars, Behind, LinkTime
  <2> QED BY <1>10, <2>1 DEF Configure, cyclevars, TimeInv, retry
<1> QED BY <1>2, <1>3, <1>4, <1>5, <1>6, <1>7, <1>8, <1>9, <1>10 DEF CycleNext, Callback

(* The time between reports, and ... *)
LEMMA SampledNext == Fits /\ OnTime /\ Waking' /\ [CycleNext]_cyclevars => SampledInv'
<1> SUFFICES ASSUME Fits, OnTime, Waking', [CycleNext]_cyclevars PROVE SampledInv'
  OBVIOUS
<1> USE DEF OnTime
<1> DEFINE last == last_periodic_report_taken
<1>1. /\ now \in Time /\ curtime \in Time /\ last \in Time /\ Round \in Nat /\ HistoryMax \in Nat
      /\ unsampled \in -Round .. HistoryMax /\ unsampled \in Int /\ Left \in 0 .. 7
      /\ LinkTime \in 0 .. 2 /\ Behind \in Nat
  BY LeftType, HostAssumption, MinusValue DEF Waking, CycleTypeOK, Behind, Time
<1>2. /\ ReportBound \in Nat /\ ReportBound < TimeMod /\ ReportBound >= 7
      /\ ReportBound >= requested_report_interval + 3 /\ requested_report_interval \in Nat
  BY Bounds DEF Waking
<1>3. /\ unsampled' \in Int /\ Left' \in Nat
  <2>1. Left' \in Nat
    BY LeftTypeNext DEF Waking
  <2>2. unsampled' \in -Round .. HistoryMax
    BY DEF Waking, CycleTypeOK
  <2> QED BY <2>1, <2>2, <1>1
<1>4. CASE Alarm
  <2>1. unsampled <= Minus(now, last) \/ last = Never
    BY <1>4 DEF Alarm, SampledInv, Kept
  <2> QED BY <1>4, <2>1 DEF Alarm, SampledInv, lasts
<1>5. CASE SampleStart
  <2>1. Minus(now, now) = 0
    BY <1>1, SelfMinus
  <2>2. curtime = now /\ ~stale
    BY <1>5 DEF SampleStart, TimeInv
  <2>3. Behind' = 0 /\ unsampled' = 0
    BY <1>5, <2>1, <2>2 DEF SampleStart, Behind
  <2> QED BY <1>5, <2>3 DEF SampleStart, SampledInv
<1>6. CASE SampleSkip
  <2>1. curtime = now
    BY <1>6 DEF SampleSkip, TimeInv
  <2>2. Minus(now, last) \in Nat /\ Minus(now, last) < requested_report_interval
    BY <1>1, <1>2, <1>6, <2>1, MinusValue DEF SampleSkip, Due, Time
  <2>3. Kept(now, unsampled, last, 4, ReportBound)
    BY <1>2, <1>6, <2>2 DEF Kept, SampleSkip, SampledInv
  <2>4. Left' = 4 /\ ReportBound' = ReportBound
    BY <1>6 DEF SampleSkip, Left, ReportBound, config
  <2> QED BY <1>6, <2>3, <2>4 DEF SampleSkip, SampledInv, time, lasts
<1>7. CASE SampleEnd
  <2>1. PICK d \in {0, 1} : Later(d, IF stale THEN -Round ELSE unsampled, unsent)
    BY <1>7 DEF SampleEnd
  <2>2. now' = (now + d) % TimeMod /\ d \in 0 .. 2 /\ now' \in Time
    BY <1>1, <2>1, ModAssumption DEF Later, Time
  <2> DEFINE m == Minus(now', curtime)
             u2 == unsampled'
  <2>3. m \in Nat /\ u2 \in Int
    BY <1>1, <1>3, <2>2, MinusValue DEF Time
  <2>4. u2 <= m /\ (m + 4 <= ReportBound \/ u2 + 4 <= 0)
    <3>1. CASE stale
      <4>1. Later(d, -Round, unsent) /\ -Round \in -Round .. HistoryMax
        BY <1>1, <2>1, <3>1
      <4>2. u2 <= -Round + d
        BY <1>1, <2>2, <4>1, LaterType DEF Waking, CycleTypeOK
      <4>3. -Round + d <= -4
        BY <1>1 DEF Fits
      <4> HIDE DEF m, u2
      <4> QED BY <1>1, <2>3, <4>2, <4>3
    <3>2. CASE ~stale
      <4>1. Later(d, unsampled, unsent)
        BY <2>1, <3>2
      <4>2. u2 <= unsampled + d
        BY <1>1, <2>2, <4>1, LaterType DEF Waking, CycleTypeOK
      <4>3. Behind + LinkTime <= 2 /\ unsampled <= Behind
        BY <1>7, <3>2 DEF SampleEnd, TimeInv, SampledInv
      <4>4. Behind <= 5
        BY <1>1, <4>3
      <4>5. m = Behind + d
        BY <2>2, <4>4, FallsBehind DEF Waking
      <4> HIDE DEF m, u2
      <4> QED BY <1>1, <1>2, <2>3, <4>2, <4>3, <4>5
    <3> QED BY <3>1, <3>2
  <2>5. Kept(now', unsampled', curtime, 4, ReportBound)
    BY <2>4 DEF Kept
  <2>6. Left' = 4 /\ ReportBound' = ReportBound
    BY <1>7 DEF SampleEnd, Left, ReportBound, config
  <2> QED BY <1>7, <2>5, <2>6 DEF SampleEnd, SampledInv
<1>8. CASE Plain /\ ~SampleEnd
  <2>1. PICK d \in 0 .. 2 : Passes(d)
    BY <1>8, PlainPasses
  <2>2. UNCHANGED <<last_periodic_report_taken, requested_report_interval, curtime>>
    BY <1>8 DEF Plain, Send, SendSkip, SendReturn, Retry, RetrySkip, RetryReturn, MonitorStart, Return,
                NoAlarm, FallAsleep, RtcTick, PinWake, Ready, GiveUp, SessionEnd, cyclevars, lasts, config
  <2>3. pc \in {"sample", "list"} \/ pc' \in {"sample", "list"} => pc' = pc /\ stale' = stale
    BY <1>8 DEF Plain, Send, SendSkip, SendReturn, Retry, RetrySkip, RetryReturn, MonitorStart, Return,
                NoAlarm, FallAsleep, RtcTick, PinWake, Ready, GiveUp, SessionEnd, cyclevars, time, Elapse, Later
  <2>4. CASE pc = "sample"
    <3>1. UNCHANGED <<now, unsampled>>
      BY <1>8, <2>4 DEF Plain, Send, SendSkip, SendReturn, Retry, RetrySkip, RetryReturn, MonitorStart, Return,
                NoAlarm, FallAsleep, RtcTick, PinWake, Ready, GiveUp, SessionEnd, cyclevars, time,
                SessionInv, Link!Finish, Waking
    <3> QED BY <2>2, <2>3, <2>4, <3>1 DEF SampledInv
  <2>5. CASE pc = "list"
    <3> SUFFICES ASSUME ~stale PROVE unsampled' <= Behind'
      BY <2>3, <2>5 DEF SampledInv
    <3>1. Behind + LinkTime <= 2 /\ unsampled <= Behind
      BY <2>5 DEF TimeInv, SampledInv
    <3>2. Minus((now + d) % TimeMod, curtime) = Behind + d
      <4>1. Behind <= 5
        BY <1>1, <3>1
      <4> QED BY <4>1, FallsBehind DEF Waking
    <3>3. Behind' = Behind + d
      BY <2>1, <2>2, <3>2 DEF Behind, Passes
    <3>4. unsampled' <= unsampled + d
      BY <2>1 DEF Passes
    <3> QED BY <1>1, <1>3, <3>1, <3>2, <3>3, <3>4
  <2>6. CASE pc \notin {"sample", "list"}
    <3>1. Kept(now, unsampled, last, Left, ReportBound)
      BY <2>6 DEF SampledInv
    <3>2. now' = (now + d) % TimeMod /\ unsampled' <= unsampled + d /\ Left' + d <= Left
      BY <2>1 DEF Passes
    <3>3. Kept((now + d) % TimeMod, unsampled', last, Left', ReportBound)
      <4> DEFINE u2 == unsampled'
                 l2 == Left'
      <4>1. u2 \in Int /\ l2 \in Nat /\ u2 <= unsampled + d /\ l2 + d <= Left /\ d \in Nat
        BY <1>3, <3>2
      <4> HIDE DEF u2, l2, last
      <4>2. Kept((now + d) % TimeMod, u2, last, l2, ReportBound)
        BY <1>1, <1>2, <3>1, <4>1, KeepUp
      <4> QED BY <4>2 DEF u2, l2, last
    <3>4. ReportBound' = ReportBound
      BY <2>2 DEF ReportBound
    <3> QED BY <2>2, <2>3, <2>6, <3>2, <3>3, <3>4 DEF SampledInv
  <2> QED BY <2>4, <2>5, <2>6
<1>9. CASE Timesync
  <2>1. pc # "sample"
    BY <1>9 DEF Timesync, Receiving, SessionInv, Waking
  <2>2. now' \in Time /\ last' = now' /\ unsampled' = 0 /\ stale' /\ pc' = pc
    BY <1>9 DEF Timesync, Waking, CycleTypeOK
  <2>3. Minus(now', now') = 0
    BY <2>2, SelfMinus
  <2>4. Left' <= 7
    BY <1>1, <1>9 DEF Timesync, retry, Left, LinkTime, RetryDue, Waking, CycleTypeOK
  <2>5. Kept(now', unsampled', last', Left', ReportBound')
    <3>1. ReportBound' = ReportBound
      BY <1>9 DEF Timesync, ReportBound
    <3>2. 0 + Left' <= ReportBound
      <4> DEFINE l2 == Left'
      <4>1. l2 \in Nat /\ l2 <= 7
        BY <1>3, <2>4
      <4> HIDE DEF l2
      <4>2. 0 + l2 <= ReportBound
        BY <1>2, <4>1
      <4> QED BY <4>2 DEF l2
    <3> QED BY <2>2, <2>3, <3>1, <3>2 DEF Kept
  <2> QED BY <2>1, <2>2, <2>5 DEF SampledInv
<1>10. CASE Configure
  <2>1. pc \notin {"sample", "retry"} /\ pc' = pc /\ stale' = stale
    BY <1>10 DEF Configure, Receiving, SessionInv, Waking
  <2>2. Left' = Left /\ Behind' = Behind
    BY <1>10, <2>1 DEF Configure, Left, LinkTime, Behind
  <2>3. CASE UNCHANGED <<requested_report_interval, last_periodic_report_taken, unsampled>>
    <3>1. ReportBound' = ReportBound /\ now' = now
      BY <1>10, <2>3 DEF Configure, ReportBound
    <3> QED BY <2>1, <2>2, <2>3, <3>1 DEF SampledInv
  <2>4. CASE last' = Never /\ unsampled' = 0
    <3>1. Behind \in Nat
      BY <1>1, MinusValue DEF Behind, Time
    <3> QED BY <2>1, <2>2, <2>4, <3>1 DEF SampledInv, Kept
  <2> QED BY <1>10, <2>3, <2>4 DEF Configure
<1> QED BY <1>4, <1>5, <1>6, <1>7, <1>8, <1>9, <1>10 DEF CycleNext, Callback, Plain

(* ... between wakes of the link.                                          *)
LEMMA SentNext == Fits /\ OnTime /\ Waking' /\ [CycleNext]_cyclevars => SentInv'
<1> SUFFICES ASSUME Fits, OnTime, Waking', [CycleNext]_cyclevars PROVE SentInv'
  OBVIOUS
<1> USE DEF OnTime
<1> DEFINE last == last_recordstore_sent
<1>1. /\ now \in Time /\ curtime \in Time /\ last \in Time /\ Round \in Nat /\ HistoryMax \in Nat
      /\ unsent \in -Round .. HistoryMax /\ unsent \in Int /\ Left \in 0 .. 7
      /\ unsent_read \in Int /\ LinkTime \in 0 .. 2 /\ Behind \in Nat
  BY LeftType, HostAssumption, MinusValue DEF Waking, CycleTypeOK, Behind, Time
<1>2. /\ WakeBound \in Nat /\ WakeBound < TimeMod /\ WakeBound >= 7
      /\ WakeBound >= requested_recordstore_interval + 4 /\ requested_recordstore_interval \in Nat
  BY Bounds DEF Waking
<1>3. /\ unsent' \in Int /\ Left' \in Nat
  <2>1. Left' \in Nat
    BY LeftTypeNext DEF Waking
  <2>2. unsent' \in -Round .. HistoryMax
    BY DEF Waking, CycleTypeOK
  <2> QED BY <2>1, <2>2, <1>1
<1>4. Minus(now, now) = 0
  BY <1>1, SelfMinus
<1>5. (Reading \/ pc = "sent") /\ ~stale => Behind <= 5
  BY <1>1, <1>4 DEF Reading, TimeInv, Behind
<1>6. CASE Alarm
  <2>1. unsent <= Minus(now, last) \/ last = Never
    BY <1>6 DEF Alarm, SentInv, Reading, Kept
  <2>2. Behind' = 0 /\ unsent <= unsent + 0
    BY <1>1, <1>4, <1>6 DEF Alarm, Behind
  <2> QED BY <1>6, <2>1, <2>2 DEF Alarm, SentInv, Reading, lasts
<1>7. CASE SampleStart \/ SampleSkip
  <2>1. UNCHANGED <<Behind, unsent, unsent_read, curtime, last>> /\ ~stale' /\ pc = "sample"
    BY <1>7 DEF SampleStart, SampleSkip, TimeInv, Behind, time, lasts
  <2> QED BY <1>7, <2>1 DEF SampleStart, SampleSkip, SentInv, Reading, TimeInv
<1>8. CASE Send
  <2>1. Behind' \in Nat
    BY <1>1, <1>8 DEF Send, Behind
  <2> QED BY <1>8, <2>1 DEF Send, SentInv, Reading
<1>9. CASE SendSkip
  <2>1. Left' = IF RetryDue THEN 4 ELSE LinkTime + 2
    BY <1>9 DEF SendSkip, Left, LinkTime, RetryDue, retry, config
  <2>2. WakeBound' = WakeBound
    BY <1>9 DEF SendSkip, WakeBound, config
  <2> DEFINE l2 == IF RetryDue THEN 4 ELSE LinkTime + 2
  <2>3. l2 \in 0 .. 4
    BY <1>1
  <2>4. Kept(now, unsent, last, l2, WakeBound) /\ Soon(now, last, l2, WakeBound)
    <3>1. CASE stale
      <4>1. Left = 4
        BY <1>9 DEF SendSkip, Left
      <4>2. Kept(now, unsent, last, 4, WakeBound) /\ Soon(now, last, 4, WakeBound)
        BY <1>9, <3>1, <4>1 DEF SendSkip, SentInv, Reading
      <4> HIDE DEF l2, last
      <4> QED BY <1>1, <1>2, <2>3, <4>2, KeepStill
    <3>2. CASE ~stale
      <4> SUFFICES ASSUME last # Never
                   PROVE  unsent <= Minus(now, last) /\ Minus(now, last) + l2 <= WakeBound
        BY DEF Kept, Soon
      <4> DEFINE m == Minus(curtime, last)
      <4>1. m \in Nat /\ m < requested_recordstore_interval
        BY <1>1, <1>2, <1>9, MinusValue DEF SendSkip, SendDue, Due, Time
      <4>2. unsent <= unsent_read + Behind /\ unsent_read <= m
        BY <1>9, <3>2 DEF SendSkip, SentInv, Reading
      <4>3. Behind + LinkTime <= 3 /\ (Behind <= 1 \/ num_retries_remaining = 0)
        BY <1>9, <3>2 DEF SendSkip, TimeInv
      <4>4. Behind + l2 <= 5 /\ Behind <= 3
        BY <1>1, <4>3 DEF RetryDue
      <4>5. Minus(now, last) = m + Behind
        <5>1. requested_recordstore_interval + 5 <= TimeMod
          BY DEF Fits, Waking, CycleTypeOK
        <5>2. Behind = IF curtime <= now THEN now - curtime ELSE now - curtime + TimeMod
          BY <1>1, MinusValue DEF Behind
        <5>3. m = IF last <= curtime THEN curtime - last ELSE curtime - last + TimeMod
          BY <1>1, MinusValue
        <5>4. Minus(now, last) = IF last <= now THEN now - last ELSE now - last + TimeMod
          BY <1>1, MinusValue
        <5>5. m + Behind < TimeMod
          BY <1>1, <1>2, <4>1, <4>4, <5>1, ModAssumption
        <5> HIDE DEF m
        <5> QED BY <1>1, <5>2, <5>3, <5>4, <5>5, ModAssumption DEF Time
      <4> HIDE DEF m, l2
      <4> QED BY <1>1, <1>2, <2>3, <4>1, <4>2, <4>4, <4>5
    <3> QED BY <3>1, <3>2
  <2> QED BY <1>9, <2>1, <2>2, <2>4 DEF SendSkip, SentInv, Reading, time, lasts
<1>10. CASE SendReturn
  <2>1. ~RetryDue'
    <3>1. Minus(curtime', last_retry_tried') = 0
      BY <1>1, <1>10, SelfMinus DEF SendReturn
    <3> QED BY <3>1, RetryAssumption DEF RetryDue, Fits
  <2>2. Left' = LinkTime + 2 /\ WakeBound' = WakeBound
    BY <1>10, <2>1 DEF SendReturn, Left, LinkTime, WakeBound, config
  <2>3. ASSUME stale PROVE Kept(now, -Round, curtime, LinkTime + 2, WakeBound)
    <3>1. -Round <= Behind /\ -Round + (LinkTime + 2) <= 0
      BY <1>1 DEF Fits
    <3> QED BY <3>1 DEF Kept, Behind
  <2>4. ASSUME ~stale PROVE Kept(now, unsent, curtime, LinkTime + 2, WakeBound)
    <3>1. unsent <= Behind /\ Behind + LinkTime <= 5
      BY <1>10, <2>4 DEF SendReturn, SentInv, TimeInv
    <3>2. Behind + (LinkTime + 2) <= WakeBound
      BY <1>1, <1>2, <3>1
    <3> QED BY <3>1, <3>2 DEF Kept, Behind
  <2>5. Kept(now', unsent', last', Left', WakeBound')
    BY <1>10, <2>2, <2>3, <2>4 DEF SendReturn
  <2> QED BY <1>10, <2>1, <2>5 DEF SendReturn, SentInv, Reading
<1>11. CASE Retry
  <2>1. Left = 4 /\ Left' = 4 /\ WakeBound' = WakeBound
    BY <1>11 DEF Retry, Link!Wake, Left, LinkTime, WakeBound, config
  <2>2. Soon(now, last, 4, WakeBound)
    BY <1>11, <2>1 DEF Retry, SentInv
  <2>3. Kept(now, 0, last, 4, WakeBound)
    <3>1. Minus(now, last) \in Nat
      BY <1>1, MinusValue DEF Time
    <3> QED BY <2>2, <3>1 DEF Kept, Soon
  <2> QED BY <1>11, <2>1, <2>3 DEF Retry, SentInv, Reading, lasts
<1>12. CASE SampleEnd
  <2>1. \E d \in 0 .. 2 : Passes(d) /\ unsent' <= unsent + d
    BY <1>12, PlainPasses DEF Plain, Passes, SampleEnd
  <2>2. PICK d \in 0 .. 2 : Passes(d) /\ unsent' <= unsent + d
    BY <2>1
  <2>3. now' = (now + d) % TimeMod /\ Left' + d <= Left
    BY <2>2 DEF Passes
  <2>4. /\ pc = "list" /\ pc' = "send" /\ stale' = stale /\ WakeBound' = WakeBound
        /\ UNCHANGED <<curtime, last, unsent_read>>
    BY <1>12 DEF SampleEnd, Later, WakeBound, config
  <2>5. CASE ~stale
    <3>1. Behind' = Behind + d
      BY <1>5, <2>3, <2>4, <2>5, FallsBehind DEF Behind, Reading, Waking
    <3>2. unsent <= unsent_read + Behind
      BY <2>4, <2>5 DEF SentInv, Reading
    <3>3. unsent' <= unsent_read + (Behind + d)
      BY <1>1, <1>3, <2>2, <3>2
    <3> QED BY <2>4, <2>5, <3>1, <3>3 DEF SentInv, Reading
  <2>6. CASE stale
    <3>1. Kept(now, unsent, last, Left, WakeBound) /\ Soon(now, last, Left, WakeBound)
      BY <2>4, <2>6 DEF SentInv, Reading
    <3>2. /\ Kept((now + d) % TimeMod, unsent', last, Left', WakeBound)
          /\ Soon((now + d) % TimeMod, last, Left', WakeBound)
      <4> DEFINE u2 == unsent'
                 l2 == Left'
      <4>1. u2 \in Int /\ l2 \in Nat /\ u2 <= unsent + d /\ l2 + d <= Left /\ d \in Nat
        BY <1>3, <2>2, <2>3
      <4> HIDE DEF u2, l2, last
      <4>2. Kept((now + d) % TimeMod, u2, last, l2, WakeBound)
        BY <1>1, <1>2, <3>1, <4>1, KeepUp
      <4>3. Soon((now + d) % TimeMod, last, l2, WakeBound)
        BY <1>1, <1>2, <3>1, <4>1, SoonUp
      <4> QED BY <4>2, <4>3 DEF u2, l2, last
    <3> QED BY <2>3, <2>4, <2>6, <3>2 DEF SentInv, Reading
  <2> QED BY <2>5, <2>6
<1>13. CASE Plain /\ ~(SampleEnd \/ Send \/ SendSkip \/ SendReturn \/ Retry)
  <2>1. PICK d \in 0 .. 2 : Passes(d)
    BY <1>13, PlainPasses
  <2>2. UNCHANGED <<last_recordstore_sent, requested_recordstore_interval, curtime, unsent_read>>
    BY <1>13 DEF Plain, RetrySkip, RetryReturn, MonitorStart, Return, NoAlarm, FallAsleep, RtcTick, PinWake,
                 Ready, GiveUp, SessionEnd, cyclevars, lasts, config, time, Elapse, Later
  <2>3. Reading \/ pc = "sent" \/ pc' \in {"sample", "list", "send", "sent", "retry", "retried"} =>
           pc' = pc /\ stale' = stale
    BY <1>13 DEF Plain, RetrySkip, RetryReturn, MonitorStart, Return, NoAlarm, FallAsleep, RtcTick, PinWake,
                 Ready, GiveUp, SessionEnd, cyclevars, time, Elapse, Later, Reading
  <2>4. now' = (now + d) % TimeMod /\ unsent' <= unsent + d /\ Left' + d <= Left
    BY <2>1, <2>3 DEF Passes
  <2>5. WakeBound' = WakeBound
    BY <2>2 DEF WakeBound
  <2>6. ASSUME Reading \/ pc = "sent", ~stale PROVE Behind' = Behind + d
    BY <1>5, <2>2, <2>4, <2>6, FallsBehind DEF Behind, Waking
  <2>7. CASE Reading /\ ~stale
    <3>1. unsent <= unsent_read + Behind
      BY <2>7 DEF SentInv
    <3>2. unsent' <= unsent_read + (Behind + d)
      BY <1>1, <1>3, <2>4, <3>1
    <3> QED BY <2>2, <2>3, <2>6, <2>7, <3>2 DEF SentInv, Reading
  <2>8. CASE pc = "sent"
    <3> SUFFICES ASSUME ~stale PROVE unsent' <= Behind'
      BY <2>3, <2>8 DEF SentInv, Reading
    <3>1. unsent <= Behind
      BY <2>8 DEF SentInv
    <3>2. unsent' <= Behind + d
      BY <1>1, <1>3, <2>4, <3>1
    <3> QED BY <2>6, <2>8, <3>2
  <2>9. CASE ~(Reading /\ ~stale) /\ pc # "sent"
    <3> DEFINE u2 == unsent'
               l2 == Left'
    <3>1. u2 \in Int /\ l2 \in Nat /\ u2 <= unsent + d /\ l2 + d <= Left /\ d \in Nat
      BY <1>3, <2>4
    <3>2. Kept(now, unsent, last, Left, WakeBound)
      BY <2>9 DEF SentInv
    <3> HIDE DEF u2, l2, last
    <3>3. Kept((now + d) % TimeMod, u2, last, l2, WakeBound)
      BY <1>1, <1>2, <3>1, <3>2, KeepUp
    <3>4. Soon(now, last, Left, WakeBound) => Soon((now + d) % TimeMod, last, l2, WakeBound)
      BY <1>1, <1>2, <3>1, SoonUp
    <3> USE DEF u2, l2, last
    <3>5. pc' = "retry" /\ RetryDue' => pc = "retry" /\ RetryDue
      BY <1>13 DEF Plain, RetrySkip, RetryReturn, MonitorStart, Return, NoAlarm, FallAsleep, RtcTick, PinWake,
                   Ready, GiveUp, SessionEnd, Link!Finish, SessionInv, Waking, cyclevars, RetryDue
    <3>6. Reading' => Reading
      BY <2>3 DEF Reading
    <3>7. (pc' \in {"list", "send"} /\ stale') \/ (pc' = "retry" /\ RetryDue') =>
             Soon(now, last, Left, WakeBound)
      BY <2>3, <3>5 DEF SentInv
    <3>8. Reading' /\ last # Never => unsent_read <= Minus(curtime, last)
      BY <3>6 DEF SentInv
    <3>9. ~(Reading' /\ ~stale') /\ pc' # "sent"
      BY <2>3, <2>9 DEF Reading
    <3> QED BY <2>2, <2>4, <2>5, <3>3, <3>4, <3>7, <3>8, <3>9 DEF SentInv
  <2> QED BY <2>7, <2>8, <2>9
<1>14. CASE Timesync
  <2>1. pc \notin {"sample", "send", "retry"} /\ pc' = pc
    BY <1>14 DEF Timesync, Receiving, SessionInv, Waking
  <2>2. /\ now' \in Time /\ last' = now' /\ unsent' = 0 /\ unsent_read' = 0 /\ stale'
        /\ curtime' = curtime
    BY <1>14 DEF Timesync, Waking, CycleTypeOK
  <2>3. Minus(now', now') = 0
    BY <2>2, SelfMinus
  <2>4. Left' <= 7
    BY <1>1, <1>14 DEF Timesync, retry, Left, LinkTime, RetryDue, Waking, CycleTypeOK
  <2>5. 0 + Left' <= WakeBound
    <3> DEFINE l2 == Left'
    <3>1. l2 \in Nat /\ l2 <= 7
      BY <1>3, <2>4
    <3> HIDE DEF l2
    <3>2. 0 + l2 <= WakeBound
      BY <1>2, <3>1
    <3> QED BY <3>2 DEF l2
  <2>6. WakeBound' = WakeBound
    BY <1>14 DEF Timesync, WakeBound
  <2>7. 0 <= Minus(curtime, now')
    BY <1>1, <2>2, MinusValue DEF Time
  <2> QED BY <2>1, <2>2, <2>3, <2>5, <2>6, <2>7 DEF SentInv, Kept, Soon
<1>15. CASE Configure
  <2>1. pc \notin {"sample", "send", "retry"} /\ UNCHANGED <<pc, stale, now, curtime>>
    BY <1>15 DEF Configure, Receiving, SessionInv, Waking
  <2>2. Left' = Left /\ Behind' = Behind
    BY <1>15, <2>1 DEF Configure, Left, LinkTime, Behind
  <2>3. CASE UNCHANGED <<requested_recordstore_interval, last_recordstore_sent, unsent, unsent_read>>
    <3>1. WakeBound' = WakeBound
      BY <2>3 DEF WakeBound
    <3> QED BY <2>1, <2>2, <2>3, <3>1 DEF SentInv, Reading
  <2>4. CASE last' = Never /\ unsent' = 0 /\ unsent_read' = 0
    <3>1. 0 <= 0 + Behind /\ 0 <= Behind
      BY <1>1
    <3> QED BY <2>1, <2>2, <2>4, <3>1 DEF SentInv, Reading, Kept, Soon
  <2> QED BY <1>15, <2>3, <2>4 DEF Configure
<1> QED BY <1>6, <1>7, <1>8, <1>9, <1>10, <1>11, <1>12, <1>13, <1>14, <1>15 DEF CycleNext, Callback, Plain

LEMMA OnTimeNext == Fits /\ OnTime /\ [CycleNext]_cyclevars => OnTime'
  BY WakingNext, TimeNext, SampledNext, SentNext DEF OnTime

-----------------------------------------------------------------------------
(* rtc_timer_cb passes over the periodic report, or over waking the link,  *)
(* only when less than its interval has gone by (logic.c:240-247): for any *)
(* intervals that fit the clock, any clock and times the host sends, and   *)
(* packets that come anywhere in rtc_timer_cb.                             *)
THEOREM ReportsComeWhenDue ==
  ASSUME Fits
  PROVE  CycleSpec => ReportsWhenDue
<1>1. OnTime /\ [CycleNext]_cyclevars =>
         [curtime # Never => /\ SampleSkip => unsampled < requested_report_interval
                             /\ SendSkip => unsent_read < requested_recordstore_interval]_cyclevars
  <2> SUFFICES ASSUME OnTime, curtime # Never
               PROVE  /\ SampleSkip => unsampled < requested_report_interval
                      /\ SendSkip => unsent_read < requested_recordstore_interval
    OBVIOUS
  <2> USE DEF OnTime, Waking
  <2>1. /\ curtime \in Time /\ last_periodic_report_taken \in Time /\ last_recordstore_sent \in Time
        /\ unsampled \in Int /\ unsent_read \in Int
        /\ requested_report_interval \in Nat /\ requested_recordstore_interval \in Nat
    BY Bounds, HostAssumption DEF CycleTypeOK
  <2>2. ASSUME SampleSkip PROVE unsampled < requested_report_interval
    <3>1. /\ last_periodic_report_taken <= curtime
          /\ Minus(curtime, last_periodic_report_taken) < requested_report_interval
          /\ Minus(curtime, last_periodic_report_taken) \in Nat
      BY <2>1, <2>2, MinusValue DEF SampleSkip, Due, Time
    <3>2. curtime = now
      BY <2>2 DEF SampleSkip, TimeInv
    <3>3. last_periodic_report_taken # Never
      BY <2>1, <3>1, ModAssumption DEF Never, Time
    <3>4. unsampled <= Minus(curtime, last_periodic_report_taken)
      BY <2>2, <3>2, <3>3 DEF SampleSkip, SampledInv
    <3> QED BY <2>1, <3>1, <3>4
  <2>3. ASSUME SendSkip PROVE unsent_read < requested_recordstore_interval
    <3>1. /\ last_recordstore_sent <= curtime
          /\ Minus(curtime, last_recordstore_sent) < requested_recordstore_interval
          /\ Minus(curtime, last_recordstore_sent) \in Nat
      BY <2>1, <2>3, MinusValue DEF SendSkip, SendDue, Due, Time
    <3>2. last_recordstore_sent # Never
      BY <2>1, <3>1, ModAssumption DEF Never, Time
    <3>3. unsent_read <= Minus(curtime, last_recordstore_sent)
      BY <2>3, <3>2 DEF SendSkip, SentInv, Reading
    <3> QED BY <2>1, <3>1, <3>3
  <2> QED BY <2>2, <2>3
<1>2. OnTime /\ [CycleNext]_cyclevars => OnTime'
  BY OnTimeNext
<1> QED BY OnTimeInit, <1>1, <1>2, PTL DEF CycleSpec, ReportsWhenDue
=============================================================================
