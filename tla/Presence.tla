------------------------------ MODULE Presence ------------------------------
(***************************************************************************)
(* The PIR sensor (devices/amn41121.c) over the pin change interrupt       *)
(* (drivers/pcint.c) and the RTC (drivers/rtctimer.c): the share of time   *)
(* the sensor saw somebody, for the periodic reports, and the reports that *)
(* somebody came or went, of the monitor list.  The host configures either,*)
(* both or none (protocol/logic.c), which wakes the sensor or not and puts *)
(* its tasks on the lists or not, and sets the clock.                      *)
(*                                                                         *)
(* The pin moves and the clock runs at any time.  A time is read as seconds*)
(* and the timer's count, one after the other, so that a second which ends *)
(* in between, or whose interrupt has to wait, gives a time far off; the   *)
(* order of the two reads is the compiler's.  Of the 32-bit time the       *)
(* monitor list needs only how long ago somebody came, and whether it is   *)
(* 0, for that is also what stands for nobody being there.                 *)
(***************************************************************************)
EXTENDS Integers

CONSTANTS Second,     \* counts of TCNT2 in a second: 2^8
          Wrap,       \* 2^16: times of the accumulators, in counts, are modulo this
          Release,    \* int_time_before_release
          MaxSyncs    \* bound of the model: timesync packets

ASSUME TimeAssumption == Second \in Nat \ {0} /\ Wrap \in Nat \ {0} /\ Wrap % Second = 0
ASSUME BoundAssumption == Release \in Nat /\ MaxSyncs \in Nat

VARIABLES
    pin,                          \* PIR_OUT_PIN
    lat, flag,                    \* the pin's bits of pcint_latD and pcint_cbflags
    awake,                        \* PIR_VCC, and the callback is registered
    pc,                           \* where pcint_check is
    now,                          \* the clock
    zero,                         \* time_val is 0
    pir_accH, pir_accL, pir_latch,
    int_bitmask,                  \* has "H" for INT_LATCHH; no one reads INT_LATCHL
    since,                        \* seconds since int_interrupt_started; Nobody for 0
    scheduled,                    \* the lists: the tasks of the sensor, and "REPORTING", of all others
    using_monitor_list,
    syncs,
    seen, missed,   \* history: the pin as the callback saw it; a change may have gone by it
    span,           \* history: counts since the accumulators were zeroed; Wrap if the clock
                    \* was set or misread since, or has gone round
    presence,       \* history: the occupancy_state last reported
    zeroed,         \* history: int_interrupt_started is 0 because that was the time read
    repeated        \* history: a report said what the one before it did, and not because of that

port == <<pin, lat, flag, awake, seen, missed>>
share == <<now, zero, pir_accH, pir_accL, pir_latch, span>>
told == <<presence, repeated>>
monitor == <<int_bitmask, since, told, zeroed>>
lists == <<scheduled, using_monitor_list>>
vars == <<port, share, monitor, lists, pc, syncs>>

Nobody == -1
Field == {"OCCUPANCY", "OCCUPANCY_CHANGED"}
Time == 0 .. Wrap - 1
Upto(n, max) == IF n < max THEN n ELSE max

(* (uint16_t)(rtctimer_read() << 8) | rtctimer_read_low() *)
Reading == {now} \cup IF now % Second = 0 THEN {(now - Second) % Wrap, (now + Second - 1) % Wrap} ELSE {}
Reliable(t, n) == IF t = now THEN n ELSE Wrap

-----------------------------------------------------------------------------
(* The tasks that a configuration with the fields f puts on the lists.     *)
Requested(f) == /\ scheduled = f \cup {"REPORTING"}
                /\ using_monitor_list = ("OCCUPANCY_CHANGED" \in f)

(* After board_power_down_devices and the default configuration.  The      *)
(* clock starts at 0, but no list runs in its first second (zero).         *)
Init == /\ pin \in BOOLEAN /\ lat \in BOOLEAN /\ flag = FALSE
        /\ \E f \in SUBSET Field : Requested(f) /\ awake = ("OCCUPANCY" \in f)
        /\ pc = "idle" /\ now = 0 /\ zero = FALSE
        /\ pir_accH = 0 /\ pir_accL = 0 /\ pir_latch = 0
        /\ int_bitmask = {} /\ since = Nobody /\ syncs = 0
        /\ seen = pin /\ missed = (lat # pin) /\ span = 0
        /\ presence = FALSE /\ zeroed = FALSE /\ repeated = FALSE

PinMovesKeepsLatch ==          \* mutant: the interrupt does not update pcint_latD
    /\ pin' = ~pin
    /\ flag' = (flag \/ (awake /\ lat = pin))
    /\ missed' = (missed \/ (awake /\ pc = "clear"))
    /\ UNCHANGED <<lat, awake, seen, share, monitor, lists, pc, syncs>>

(* The pin moves, with the interrupt if it is enabled.                     *)
PinMoves == /\ pin' = ~pin
            /\ lat' = IF awake THEN ~pin ELSE lat
            /\ flag' = (flag \/ (awake /\ lat = pin))
            /\ missed' = (missed \/ (awake /\ pc = "clear"))
            /\ UNCHANGED <<awake, seen, share, monitor, lists, pc, syncs>>

(* The timer counts, and its overflow interrupt counts seconds, of which   *)
(* there are 2^32.                                                         *)
Tick == /\ now' = (now + 1) % Wrap
        /\ zero' \in IF now' = 0 THEN BOOLEAN ELSE {zero /\ now' % Second # 0}
        /\ span' = Upto(span + 1, Wrap)
        /\ since' = IF since # Nobody /\ now' % Second = 0 THEN Upto(since + 1, Release + 1) ELSE since
        /\ UNCHANGED <<port, pir_accH, pir_accL, pir_latch, int_bitmask, told, zeroed, lists, pc, syncs>>

LookNoRollover ==              \* mutant: a clock that has gone round is not corrected
    /\ pc = "idle" /\ flag /\ awake /\ pc' = "clear"
    /\ \E t \in Reading :
          LET tdiff == IF t > pir_latch THEN t - pir_latch ELSE pir_latch - t IN
          /\ pir_accL' = IF pin THEN (pir_accL + tdiff) % Wrap ELSE pir_accL
          /\ pir_accH' = IF pin THEN pir_accH ELSE (pir_accH + tdiff) % Wrap
          /\ pir_latch' = t /\ span' = Reliable(t, span)
    /\ int_bitmask' = IF pin THEN {"H"} ELSE int_bitmask
    /\ seen' = pin /\ missed' = FALSE
    /\ UNCHANGED <<pin, lat, flag, awake, now, zero, since, told, zeroed, lists, syncs>>

(* _pir_pcint_cb, called by pcint_check *)
Look == /\ pc = "idle" /\ flag /\ awake /\ pc' = "clear"
        /\ \E t \in Reading :
              LET tdiff == (t - pir_latch) % Wrap IN
              /\ pir_accL' = IF pin THEN (pir_accL + tdiff) % Wrap ELSE pir_accL
              /\ pir_accH' = IF pin THEN pir_accH ELSE (pir_accH + tdiff) % Wrap
              /\ pir_latch' = t /\ span' = Reliable(t, span)
        /\ int_bitmask' = IF pin THEN {"H"} ELSE int_bitmask
        /\ seen' = pin /\ missed' = FALSE
        /\ UNCHANGED <<pin, lat, flag, awake, now, zero, since, told, zeroed, lists, syncs>>

(* pcint_check clears the flag, also of a change since the callback looked *)
Clear == /\ pc = "clear" /\ pc' = "idle"
         /\ flag' = FALSE
         /\ UNCHANGED <<pin, lat, awake, seen, missed, share, monitor, lists, syncs>>

-----------------------------------------------------------------------------
Zero(t) == /\ pir_accH' = 0 /\ pir_accL' = 0
           /\ pir_latch' = t /\ span' = Reliable(t, 0)
           /\ UNCHANGED <<now, zero>>

(* _pir_reporting_write_report, a task of the periodic list *)
WriteShare == /\ pc = "idle" /\ "OCCUPANCY" \in scheduled
              /\ \E t \in Reading : Zero(t)
              /\ UNCHANGED <<port, monitor, lists, pc, syncs>>

(* rtc_timer_cb runs the monitor list, and the sensor's task is on it.     *)
Monitored == using_monitor_list /\ "OCCUPANCY_CHANGED" \in scheduled

(* rtctimer_read may be reading a time whose bytes change.                 *)
Torn == now % Second = 0

(* int_interrupt_started = curtime: seconds since then, as they will be    *)
(* counted                                                                 *)
Started == {IF zero THEN Nobody ELSE 0} \cup IF Torn THEN {Nobody, Release + 1} ELSE {}

Report(state) == /\ presence' = state
                 /\ repeated' = (repeated \/ (presence = state /\ ~zeroed))

SomebodyMovedAgain ==          \* mutant: told whether somebody is there already or not
    /\ pc = "idle" /\ Monitored
    /\ "H" \in int_bitmask /\ int_bitmask' = {}
    /\ Report(TRUE)
    /\ since' \in Started /\ zeroed' = (since' = Nobody)
    /\ UNCHANGED <<port, share, lists, pc, syncs>>

SomebodyMovedKeepsBits ==      \* mutant: int_bitmask is not zeroed
    /\ pc = "idle" /\ Monitored
    /\ "H" \in int_bitmask /\ int_bitmask' = int_bitmask
    /\ IF since = Nobody THEN Report(TRUE) ELSE UNCHANGED told
    /\ since' \in Started /\ zeroed' = (since' = Nobody)
    /\ UNCHANGED <<port, share, lists, pc, syncs>>

(* _pir_interrupt_write_report, a task of the monitor list: somebody came, *)
(* or moved again, ...                                                     *)
SomebodyMoved == /\ pc = "idle" /\ Monitored
                 /\ "H" \in int_bitmask /\ int_bitmask' = {}
                 /\ IF since = Nobody THEN Report(TRUE) ELSE UNCHANGED told
                 /\ since' \in Started /\ zeroed' = (since' = Nobody)
                 /\ UNCHANGED <<port, share, lists, pc, syncs>>

(* ... or nobody has for long enough *)
NobodyThere == /\ pc = "idle" /\ Monitored
               /\ "H" \notin int_bitmask /\ since # Nobody
               /\ since > Release \/ Torn
               /\ since' = Nobody
               /\ Report(FALSE)
               /\ UNCHANGED <<int_bitmask, zeroed, port, share, lists, pc, syncs>>

-----------------------------------------------------------------------------
(* cmd_configure_sensor_cb: pir_set_interrupt_params forgets what the      *)
(* callback has latched, pir_sleep forgets the flag                        *)
Bits(f) == IF "OCCUPANCY_CHANGED" \in f THEN {} ELSE int_bitmask

(* with the share: pir_wake, of a sensor that may be awake *)
ConfigureShare(f) ==
    /\ "OCCUPANCY" \in f
    /\ \E t \in Reading : Zero(t)
    /\ awake' = TRUE /\ UNCHANGED <<pin, lat, flag>>
    /\ seen' = IF awake THEN seen ELSE pin
    /\ missed' = IF awake THEN missed ELSE lat # pin

(* with the changes only *)
ConfigureChanges(f) == f = {"OCCUPANCY_CHANGED"} /\ UNCHANGED <<port, share>>

(* with neither: pir_sleep *)
ConfigureNone(f) == /\ f = {}
                    /\ awake' = FALSE /\ flag' = FALSE
                    /\ UNCHANGED <<pin, lat, seen, missed, share>>

(* The lists are emptied and filled again, but for a packet that comes     *)
(* while one of them runs, to which scheduler_add_task adds nothing.  The  *)
(* fields of other sensors may be what has changed.                        *)
Configure(f) == /\ pc = "idle"
                /\ ConfigureShare(f) \/ ConfigureChanges(f) \/ ConfigureNone(f)
                /\ int_bitmask' = Bits(f)
                /\ using_monitor_list' = ("OCCUPANCY_CHANGED" \in f)
                /\ \/ scheduled' = f \cup {"REPORTING"}
                   \/ scheduled # {} /\ scheduled' = {}
                /\ UNCHANGED <<since, told, zeroed, pc, syncs>>

(* a packet that leaves the fields as they are, or has intervals only *)
ConfigureKeeps == /\ pc = "idle"
                  /\ using_monitor_list' = FALSE
                  /\ UNCHANGED <<port, share, monitor, scheduled, pc, syncs>>

(* cmd_timesync_cb: rtctimer_write sets the seconds, and does not touch    *)
(* the count of the timer                                                  *)
Timesync == /\ pc = "idle" /\ syncs < MaxSyncs /\ syncs' = syncs + 1
            /\ now' \in {t \in Time : t % Second = now % Second}
            /\ zero' \in IF now' < Second THEN BOOLEAN ELSE {FALSE}
            /\ since' \in IF since = Nobody THEN {Nobody} ELSE 0 .. Release + 1
            /\ span' = Wrap
            /\ UNCHANGED <<port, pir_accH, pir_accL, pir_latch, int_bitmask, told, zeroed, lists, pc>>

Next == \/ PinMoves \/ Tick \/ Look \/ Clear
        \/ WriteShare \/ SomebodyMoved \/ NobodyThere
        \/ Timesync \/ ConfigureKeeps \/ \E f \in SUBSET Field : Configure(f)

(* The main loop checks the pins and runs the monitor list, with the tasks *)
(* that are on it and as long as it is used, and the clock goes on.        *)
Fairness == /\ WF_vars(Clear) /\ WF_vars(Look) /\ WF_vars(SomebodyMoved)
            /\ WF_vars(NobodyThere) /\ WF_vars(Tick)

Spec == Init /\ [][Next]_vars /\ Fairness

-----------------------------------------------------------------------------
TypeOK == /\ pin \in BOOLEAN /\ lat \in BOOLEAN /\ flag \in BOOLEAN /\ awake \in BOOLEAN
          /\ pc \in {"idle", "clear"}
          /\ now \in Time /\ pir_accH \in Time /\ pir_accL \in Time /\ pir_latch \in Time
          /\ int_bitmask \subseteq {"H"}
          /\ since \in Nobody .. Release + 1
          /\ scheduled \subseteq Field \cup {"REPORTING"} /\ using_monitor_list \in BOOLEAN
          /\ syncs \in 0 .. MaxSyncs /\ zero \in BOOLEAN
          /\ seen \in BOOLEAN /\ missed \in BOOLEAN
          /\ span \in 0 .. Wrap /\ presence \in BOOLEAN /\ zeroed \in BOOLEAN /\ repeated \in BOOLEAN

(* The share of a report, pir_accH / (pir_accH + pir_accL) with the sum    *)
(* modulo 2^16, is one at most: the two are no more than the time that has *)
(* passed, although the clock goes round, the pin may have moved several   *)
(* times before the callback looks, and the sensor is woken while awake.   *)
(* Not so if the clock was set or misread since the report before, or the  *)
(* report is 256 s ago.  The time since the last move is not in them.      *)
ShareAtMostOne == span < Wrap => /\ pir_accH + pir_accL <= span
                                 /\ pir_latch = (now - (span - pir_accH - pir_accL)) % Wrap

(* Of the pin's moves those between the callback's look and the clearing   *)
(* of the flag may be lost, and, as pcint_register does not latch the port,*)
(* the first one after the sensor was woken; no other.                     *)
NoOtherMoveMissed == awake /\ ~missed => flag \/ seen = pin

(* Reports that somebody came and that nobody is there alternate, through  *)
(* packets that set the clock, configure the sensor or stop the list while *)
(* somebody is there.  int_interrupt_started is also the time: somebody who*)
(* came at time 0, which the host may set or which is misread when the     *)
(* time's low byte goes from 255 to 0, is told again at the next move.     *)
ReportsAlternate == ~repeated

(* If the sensor sees nobody any more the host is told so in the end, also *)
(* when the sensor has been put to sleep and only the changes are wanted:  *)
(* as long as the list goes on, which any packet that leaves the fields    *)
(* alone stops (logic.c:101), and has its tasks.  Of somebody whose coming *)
(* had the time 0 it is never told.                                        *)
AbsenceTold == <>[](~pin /\ Monitored) => <>[](presence => zeroed)
=============================================================================
