------------------------------ MODULE WiflyLink ------------------------------
(***************************************************************************)
(* motes/wifly.c under the main loop of USF.c: waking the radio, waiting   *)
(* for its CONNECTED pin, the ready callback's session, the timeout, and   *)
(* sending the radio to sleep.  The pins change and the RTC ticks at any   *)
(* time; the pin change interrupt sets a flag that pcint_check looks at,   *)
(* from the main loop and from scheduler_start's loop, and clears after    *)
(* the callback has returned.                                              *)
(*                                                                         *)
(* The clock enters wifly.c only as the time since wifly_wake (try_connect)*)
(* and since wifly_sleep (try_sleep), kept here up to the thresholds they  *)
(* are compared with.  A timesync packet from the host sets the clock, and *)
(* with it both times, to anything; a clock behind try_connect counts as a *)
(* timeout in the code and stands at the largest value here.  What else a  *)
(* packet does concerns logic.c.                                           *)
(***************************************************************************)
EXTENDS Integers

CONSTANTS ConnectTimeout,  \* WIFLY_CONNECT_TIMEOUT
          SleepRetry,      \* 3 s: a radio that is awake this long is told to sleep again
          WakeGaps,       \* seconds between two calls of datalink_wake, as the host configured them
          MacTime,         \* bound of the model: seconds until _wifly_get_MAC gives up
          FailMod          \* 2^8: num_consecutive_Fails counts modulo this

ASSUME TimeAssumption == ConnectTimeout \in Nat /\ SleepRetry \in Nat
                          /\ WakeGaps \subseteq Nat /\ MacTime \in Nat
ASSUME FailAssumption == FailMod \in Nat /\ FailMod > 3

VARIABLES
    pc,             \* where the program is
    CONNECTED,      \* MOTE_CONNECTED_PIN
    ASSOCIATED,     \* MOTE_ASSOCIATED_PIN
    flag,           \* the bit of MOTE_CONNECTED_PCINT in pcint_cbflags
    CONNECT,        \* the output MOTE_CONNECT
    RTSN,           \* MOTE_RX_RTSN = 1
    wake_status,    \* wifly_wake_status
    trying,         \* trying_to_connect
    mac_valid,
    connect_age,    \* curtime - try_connect
    sleep_age,      \* curtime - try_sleep
    fails,          \* num_consecutive_Fails
    return,         \* where the ready callback returns to
    wake_gap,       \* recordstore_interval_sec, one of WakeGaps
    gap,            \* seconds since datalink_wake was called, or a timesync
    late,           \* the lists of this round of the main loop saw the RTC tick
    synced          \* bound of the model: the host has sent its timesync for this wake

pins == <<CONNECTED, ASSOCIATED>>
radio == <<CONNECT, RTSN, wake_status, trying>>
clock == <<connect_age, sleep_age, wake_gap, gap, late, synced>>
vars == <<pc, CONNECTED, ASSOCIATED, flag, CONNECT, RTSN, wake_status, trying,
          mac_valid, connect_age, sleep_age, fails, return, wake_gap, gap, late, synced>>

Upto(n, max) == IF n < max THEN n ELSE max

ConnectAge == 0 .. ConnectTimeout + 1
SleepAge == 0 .. SleepRetry + 1

-----------------------------------------------------------------------------
(* After wifly_init and board_power_down_devices, which sends the radio to *)
(* sleep.                                                                  *)
Init == /\ pc = "pcint"
        /\ CONNECTED \in BOOLEAN /\ ASSOCIATED \in BOOLEAN /\ flag \in BOOLEAN
        /\ CONNECT = FALSE /\ RTSN = TRUE /\ wake_status = FALSE /\ trying = FALSE
        /\ mac_valid \in BOOLEAN
        /\ connect_age \in ConnectAge /\ sleep_age = 0
        /\ fails = 0 /\ return = "clear" /\ late = FALSE /\ synced = FALSE
        /\ wake_gap \in WakeGaps /\ gap = wake_gap

(* d seconds go by *)
Elapse(d) == /\ connect_age' = Upto(connect_age + d, ConnectTimeout + 1)
             /\ sleep_age' = Upto(sleep_age + d, SleepRetry + 1)
             /\ gap' = Upto(gap + d, wake_gap)
             /\ UNCHANGED <<wake_gap, synced>>

(* The pins, and the interrupt of the CONNECTED pin, which wakes the chip. *)
PinChange == /\ \/ CONNECTED' = ~CONNECTED /\ flag' = TRUE /\ UNCHANGED ASSOCIATED
                   /\ pc' = IF pc = "asleep" THEN "wakehook" ELSE pc
                \/ ASSOCIATED' = ~ASSOCIATED /\ UNCHANGED <<pc, CONNECTED, flag>>
             /\ UNCHANGED <<radio, mac_valid, clock, fails, return>>

(* The RTC wakes the chip every second. *)
RtcTick == /\ pc = "asleep" /\ pc' = "wakehook"
           /\ Elapse(1) /\ late' = FALSE
           /\ UNCHANGED <<pins, flag, radio, mac_valid, fails, return>>

-----------------------------------------------------------------------------
SleepKeepsTrying(d) ==     \* mutant: trying_to_connect stays set
    /\ RTSN' = TRUE /\ trying' = trying /\ CONNECT' = FALSE /\ wake_status' = FALSE
    /\ connect_age' = Upto(connect_age + d, ConnectTimeout + 1)
    /\ sleep_age' = 0
    /\ gap' = Upto(gap + d, wake_gap)
    /\ UNCHANGED <<wake_gap, late, synced>>

(* wifly_sleep, which takes d seconds, one of them for the radio to close  *)
(* the connection; sleep_age counts from its end.                          *)
Sleep(d) == /\ RTSN' = TRUE /\ trying' = FALSE /\ CONNECT' = FALSE /\ wake_status' = FALSE
            /\ connect_age' = Upto(connect_age + d, ConnectTimeout + 1)
            /\ sleep_age' = 0
            /\ gap' = Upto(gap + d, wake_gap)
            /\ UNCHANGED <<wake_gap, late, synced>>

TimedOutAssociated ==      \* mutant: waits on for a radio that has no network
    trying /\ ASSOCIATED /\ connect_age > ConnectTimeout
TimedOut == trying /\ connect_age > ConnectTimeout

(* The timeout of wifly_tick.  The clock that wifly_tick read is now       *)
(* behind try_sleep, and the unsigned difference sends a radio that is     *)
(* associated to sleep a second time: the pins are the same, and nothing   *)
(* looks at them or at the times between the two.                          *)
TickTimeout == /\ TimedOut
               /\ fails' = (fails + 1) % FailMod
               /\ \E a \in BOOLEAN : \E d \in IF a THEN 2 .. 4 ELSE 1 .. 2 :
                     ASSOCIATED' = a /\ Sleep(d)
               /\ UNCHANGED mac_valid

(* the radio woke up by itself *)
TickSleep == /\ ~TimedOut
             /\ ~wake_status /\ ASSOCIATED /\ sleep_age > SleepRetry
             /\ \E d \in {1, 2} : Sleep(d)
             /\ UNCHANGED <<ASSOCIATED, mac_valid, fails>>

TickQuiet == /\ ~TimedOut
             /\ ~(~wake_status /\ ASSOCIATED /\ sleep_age > SleepRetry)
             /\ UNCHANGED <<ASSOCIATED, radio, mac_valid, clock, fails>>

(* the same, and a packet of the host sets the clock and starts the        *)
(* interval to the next wake anew                                          *)
TickTimesync == /\ CONNECTED /\ ~synced /\ synced' = TRUE
                /\ ~TimedOut
                /\ ~(~wake_status /\ ASSOCIATED /\ sleep_age > SleepRetry)
                /\ connect_age' \in ConnectAge /\ sleep_age' \in SleepAge
                /\ gap' = 0
                /\ UNCHANGED <<ASSOCIATED, radio, mac_valid, wake_gap, late, fails>>

(* wifly_tick; _wifly_TCP_connect, which it may call, only writes to the   *)
(* radio, and wifly_reset only pulls a pin                                 *)
Tick == /\ TickTimeout \/ TickSleep \/ TickQuiet \/ TickTimesync
        /\ UNCHANGED <<CONNECTED, flag, return>>

-----------------------------------------------------------------------------
(* pcint_check with the flag not set *)
PcintSkip == /\ pc = "pcint" /\ ~flag /\ pc' = "alarm"
             /\ UNCHANGED <<pins, flag, radio, mac_valid, clock, fails, return>>

PcintReadyAlways ==        \* mutant: trying_to_connect is not looked at
    /\ pc = "pcint" /\ flag /\ CONNECTED
    /\ pc' = "session" /\ return' = "clear"
    /\ trying' = FALSE /\ fails' = 0
    /\ UNCHANGED <<pins, flag, CONNECT, RTSN, wake_status, mac_valid, clock>>

(* _wifly_pcint_cb that finds the radio connected: the ready callback *)
PcintReady == /\ pc = "pcint" /\ flag /\ trying /\ CONNECTED
              /\ pc' = "session" /\ return' = "clear"
              /\ trying' = FALSE /\ fails' = 0
              /\ UNCHANGED <<pins, flag, CONNECT, RTSN, wake_status, mac_valid, clock>>

PcintNothing == /\ pc = "pcint" /\ flag /\ ~(trying /\ CONNECTED)
                /\ pc' = "clear"
                /\ UNCHANGED <<pins, flag, radio, mac_valid, clock, fails, return>>

(* pcint_check clears the flag, also of a change since the callback looked *)
PcintClear == /\ pc = "clear" /\ pc' = "alarm"
              /\ flag' = FALSE
              /\ UNCHANGED <<pins, radio, mac_valid, clock, fails, return>>

(* a turn of scheduler_start's loop in rtc_timer_cb, with its pcint_check *)
SchedulerTurn == /\ pc = "alarm" /\ pc' = "pcint"
                 /\ \/ UNCHANGED clock
                    \/ Elapse(1) /\ ~late /\ late' = TRUE
                 /\ UNCHANGED <<pins, flag, radio, mac_valid, fails, return>>

NoAlarm == /\ pc = "alarm" /\ pc' = "tick"
           /\ UNCHANGED <<pins, flag, radio, mac_valid, clock, fails, return>>

(* wifly_wake, called by rtc_timer_cb *)
Wake == /\ pc = "alarm" /\ gap = wake_gap
        /\ gap' = 0 /\ synced' = FALSE
        /\ CONNECT' = TRUE /\ RTSN' = TRUE /\ wake_status' = TRUE
        /\ pc' = IF mac_valid THEN "waking" ELSE "mac"
        /\ UNCHANGED <<pins, flag, trying, mac_valid, connect_age, sleep_age, wake_gap, late, fails, return>>

(* _wifly_get_MAC: _wifly_readline ticks while it waits for a line, and no *)
(* line is a packet of the host meanwhile.  It takes less than the three   *)
(* seconds of TickSleep; a wait of an earlier wake may end here.           *)
MacTick == /\ pc = "mac" /\ pc' = "mac"
           /\ TickTimeout
           /\ UNCHANGED <<CONNECTED, flag, return>>

MacWait == /\ pc = "mac" /\ pc' = "mac"
           /\ gap < MacTime
           /\ Elapse(1) /\ UNCHANGED late
           /\ UNCHANGED <<pins, flag, radio, mac_valid, fails, return>>

MacDone == /\ pc = "mac" /\ pc' = "waking"
           /\ mac_valid' \in BOOLEAN
           /\ UNCHANGED <<pins, flag, radio, clock, fails, return>>

(* the rest of wifly_wake: the radio is connected already ... *)
WakeReady == /\ pc = "waking" /\ CONNECTED
             /\ connect_age' = 0
             /\ pc' = "session" /\ return' = "woken"
             /\ UNCHANGED <<pins, flag, radio, mac_valid, sleep_age, wake_gap, gap, late, synced, fails>>

WakeReturn == /\ pc = "woken" /\ pc' = "tick"
              /\ trying' = FALSE
              /\ UNCHANGED <<pins, flag, CONNECT, RTSN, wake_status, mac_valid, clock, fails, return>>

(* ... or it is not *)
WakeWait == /\ pc = "waking" /\ ~CONNECTED /\ pc' = "tick"
            /\ connect_age' = 0 /\ trying' = TRUE
            /\ UNCHANGED <<pins, flag, CONNECT, RTSN, wake_status, mac_valid, sleep_age, wake_gap, gap, late, synced, fails, return>>

(* send_over_datalink: its loop ticks for half a second ... *)
SessionTick == pc = "session" /\ pc' = pc /\ Tick

(* ... and datalink_sleep ends it *)
SessionEnd == /\ pc = "session" /\ pc' = return
              /\ \E d \in {1, 2} : Sleep(d)
              /\ UNCHANGED <<pins, flag, mac_valid, fails, return>>

(* datalink_tick of the main loop *)
LoopTick == pc = "tick" /\ pc' = "hook" /\ Tick

(* avr_sleep: wifly_sleep_hook, and the chip sleeps *)
SleepHook == /\ pc = "hook" /\ ~RTSN /\ pc' = "hooked"
             /\ RTSN' = TRUE
             /\ UNCHANGED <<pins, flag, CONNECT, wake_status, trying, mac_valid, clock, fails, return>>

SleepHookTick == pc = "hooked" /\ pc' = "asleep" /\ Tick

SleepHookSkip == /\ pc = "hook" /\ RTSN /\ pc' = "asleep"
                 /\ UNCHANGED <<pins, flag, radio, mac_valid, clock, fails, return>>

(* wifly_wake_hook *)
WakeHook == /\ pc = "wakehook" /\ wake_status /\ pc' = "waketick"
            /\ RTSN' = FALSE
            /\ UNCHANGED <<pins, flag, CONNECT, wake_status, trying, mac_valid, clock, fails, return>>

WakeHookTick == pc = "waketick" /\ pc' = "pcint" /\ Tick

WakeHookSkip == /\ pc = "wakehook" /\ ~wake_status /\ pc' = "pcint"
                /\ UNCHANGED <<pins, flag, radio, mac_valid, clock, fails, return>>

-----------------------------------------------------------------------------
Loop == \/ PcintSkip \/ PcintReady \/ PcintNothing \/ PcintClear
        \/ NoAlarm \/ Wake \/ WakeReady \/ WakeReturn \/ WakeWait
        \/ LoopTick \/ SleepHook \/ SleepHookTick \/ SleepHookSkip
        \/ WakeHook \/ WakeHookTick \/ WakeHookSkip

Next == \/ Loop \/ SchedulerTurn
        \/ MacTick \/ MacWait \/ MacDone
        \/ SessionTick \/ SessionEnd
        \/ PinChange \/ RtcTick

(* The program runs; the loops of scheduler_start, of _wifly_get_MAC and   *)
(* of send_over_datalink end; the RTC ticks however often a pin wakes the  *)
(* chip.                                                                   *)
Fairness == /\ WF_vars(Loop) /\ SF_vars(NoAlarm) /\ WF_vars(MacDone) /\ WF_vars(SessionEnd)
            /\ SF_vars(RtcTick)

Spec == Init /\ [][Next]_vars /\ Fairness

-----------------------------------------------------------------------------
TypeOK == /\ pc \in {"pcint", "clear", "alarm", "mac", "waking", "woken", "session",
                     "tick", "hook", "hooked", "asleep", "wakehook", "waketick"}
          /\ CONNECTED \in BOOLEAN /\ ASSOCIATED \in BOOLEAN /\ flag \in BOOLEAN
          /\ CONNECT \in BOOLEAN /\ RTSN \in BOOLEAN
          /\ wake_status \in BOOLEAN /\ trying \in BOOLEAN /\ mac_valid \in BOOLEAN
          /\ connect_age \in ConnectAge /\ sleep_age \in SleepAge
          /\ fails \in 0 .. FailMod - 1
          /\ return \in {"clear", "woken"}
          /\ wake_gap \in WakeGaps /\ gap \in 0 .. wake_gap /\ late \in BOOLEAN /\ synced \in BOOLEAN

linkState == IF pc = "session" THEN "session"
             ELSE IF trying \/ pc \in {"mac", "waking"} THEN "waiting" ELSE "idle"

Link == INSTANCE DataLink WITH state <- linkState

(* The driver is a data link: no session without a wake, one for a wake    *)
(* at most, and none inside another one.                                   *)
OneSessionPerWake == Link!Init /\ [][Link!Next]_linkState

(* The next wake comes later than the timeout, which each wake starts anew *)
(* after it has read the MAC.                                              *)
WakesApart == wake_gap > ConnectTimeout + MacTime + 1

(* And each wake is answered by the ready callback or given up, after      *)
(* which the driver is idle again, if wakes are that far apart.            *)
EveryWakeEnds == WakesApart => Link!Fairness

(* While the driver waits for a connection it asks the radio for one, and  *)
(* when it does not wait and has no session the radio is told to sleep.    *)
(* Not so with wakes closer together: while wifly_wake reads the MAC the   *)
(* wait of an earlier wake may end and switch the radio off, and wifly_wake*)
(* goes on to wait for it.                                                 *)
AsksWhileTrying == WakesApart /\ pc \notin {"mac", "waking", "session", "woken"} =>
                      /\ trying <=> CONNECT
                      /\ CONNECT <=> wake_status
=============================================================================
