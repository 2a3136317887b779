----------------------------- MODULE ReportCycle -----------------------------
(***************************************************************************)
(* protocol/logic.c as it is driven once a second: rtc_timer_cb decides by *)
(* the clock whether to take a periodic report, to wake the link, to retry *)
(* and to run the monitor list, while the host may set the clock and the   *)
(* intervals whenever the link listens, in the middle of rtc_timer_cb too. *)
(*                                                                         *)
(* The link is the abstract one of DataLink.  Times are unsigned numbers   *)
(* as in the code, so the clock wraps and a difference may be huge.  The   *)
(* fields to report are left out: a packet here carries intervals only.    *)
(***************************************************************************)
EXTENDS Integers

CONSTANTS TimeMod,           \* 2^32
          RetryMod,          \* 2^8: num_retries_remaining counts modulo this
          ERROR_RETRY_INTERVAL,
          ERROR_NUM_RETRIES,
          SampleIntervals,   \* what the host configures
          RecordIntervals,
          SyncTimes,         \* the times the host sends
          Round,             \* seconds from one alarm to the next at most
          MaxPackets,        \* bound of the model: packets of the host
          HistoryMax         \* bound of the model: the histories count up to this

ASSUME ModAssumption == TimeMod \in Nat /\ TimeMod > 1 /\ RetryMod \in Nat
ASSUME RetryAssumption == /\ ERROR_RETRY_INTERVAL \in Nat
                          /\ ERROR_NUM_RETRIES \in 1 .. RetryMod - 1
ASSUME HostAssumption == /\ SampleIntervals \subseteq Nat /\ RecordIntervals \subseteq Nat
                         /\ SyncTimes \subseteq 0 .. TimeMod - 1 /\ MaxPackets \in Nat
                         /\ Round \in Nat /\ HistoryMax \in Nat

VARIABLES
    pc,                  \* where rtc_timer_cb and the main loop are
    link,                \* the data link
    now,                 \* time_val of rtctimer.c
    alarm_val,
    curtime,             \* the local variable of rtc_timer_cb
    last_periodic_report_taken,
    last_recordstore_sent,
    last_retry_tried,
    num_retries_remaining,
    requested_report_interval,
    requested_recordstore_interval,
    using_monitor_list,
    packets,             \* how many packets the host has sent
    unsampled, unsent,   \* history: seconds since the latest periodic report (wake of the
                         \* link) or since the host set the clock or the interval; a stale
                         \* clock that becomes the time of the latest one is worth Round
    stale,               \* history: a timesync came after rtc_timer_cb read the clock
    unsent_read,         \* history: unsent when rtc_timer_cb read the clock
    answered             \* history: whether the ready callback came in the latest call of
                         \* datalink_wake or after it, or in a retry's since the latest wake that was none

lasts == <<last_periodic_report_taken, last_recordstore_sent>>
retry == <<last_retry_tried, num_retries_remaining>>
config == <<requested_report_interval, requested_recordstore_interval, using_monitor_list, packets>>
time == <<now, alarm_val, unsampled, unsent, stale, unsent_read>>
cyclevars == <<pc, link, now, alarm_val, curtime, last_periodic_report_taken, last_recordstore_sent,
               last_retry_tried, num_retries_remaining, requested_report_interval,
               requested_recordstore_interval, using_monitor_list, packets,
               unsampled, unsent, stale, unsent_read, answered>>

Link == INSTANCE DataLink WITH state <- link

Time == 0 .. TimeMod - 1
Never == TimeMod - 1                              \* (uint32_t)-1
Minus(a, b) == (a - b) % TimeMod

Upto(n) == IF n < HistoryMax THEN n ELSE HistoryMax

-----------------------------------------------------------------------------
(* After board_setup_reporting has configured the defaults and the alarm   *)
(* is set to one second, because the default fields use the monitor list.  *)
CycleInit ==
    /\ pc = "main" /\ Link!Init
    /\ now = 0 /\ alarm_val = 1 /\ curtime = 0
    /\ last_periodic_report_taken = Never /\ last_recordstore_sent = Never
    /\ last_retry_tried = 0 /\ num_retries_remaining = 0
    /\ requested_report_interval \in SampleIntervals
    /\ requested_recordstore_interval \in RecordIntervals
    /\ using_monitor_list = TRUE
    /\ packets = 0 /\ unsampled = 0 /\ unsent = 0 /\ unsent_read = 0
    /\ stale = FALSE /\ answered = "no"

LaterUnguarded(d, sampled, sent) ==  \* mutant: the alarm is counted down below zero
    /\ now' = (now + d) % TimeMod
    /\ alarm_val' = alarm_val - d
    /\ unsampled' = Upto(sampled + d) /\ unsent' = Upto(sent + d)
    /\ UNCHANGED <<stale, unsent_read>>

(* the RTC's interrupt, d times, counted from the histories' sampled, sent *)
Later(d, sampled, sent) ==
    /\ now' = (now + d) % TimeMod
    /\ alarm_val' = IF alarm_val > d THEN alarm_val - d ELSE 0
    /\ unsampled' = Upto(sampled + d) /\ unsent' = Upto(sent + d)
    /\ UNCHANGED <<stale, unsent_read>>

Elapse(d) == Later(d, unsampled, unsent)

Listening == link # "session"

(* the RTC, or a pin without it, wakes the chip from avr_sleep *)
RtcTick == /\ pc = "asleep" /\ pc' = "main"
           /\ Elapse(1)
           /\ UNCHANGED <<link, curtime, lasts, retry, config, answered>>

PinWake == /\ pc = "asleep" /\ pc' = "main"
           /\ UNCHANGED <<link, time, curtime, lasts, retry, config, answered>>

(* rtctimer_check_alarm calls rtc_timer_cb ... *)
Alarm == /\ pc = "main" /\ Listening /\ alarm_val = 0
         /\ alarm_val' = 1
         /\ curtime' = now /\ unsent_read' = unsent /\ stale' = FALSE
         /\ pc' = "sample"
         /\ UNCHANGED <<link, now, unsampled, unsent, lasts, retry, config, answered>>

NoAlarm == /\ pc = "main" /\ Listening /\ alarm_val # 0
           /\ pc' = "tick"
           /\ UNCHANGED <<link, time, curtime, lasts, retry, config, answered>>

(* ... and after datalink_tick the chip sleeps; a second that ends before  *)
(* it does costs the alarm one                                             *)
FallAsleep == /\ pc = "tick" /\ Listening /\ pc' = "asleep"
              /\ \E d \in {0, 1} : Elapse(d)
              /\ UNCHANGED <<link, curtime, lasts, retry, config, answered>>

DueAfter(last, interval) == curtime >= last + interval   \* mutant: the sum instead of the difference
Due(last, interval) == curtime < last \/ Minus(curtime, last) >= interval

(* the periodic sample list starts ... *)
SampleStart == /\ pc = "sample" /\ Due(last_periodic_report_taken, requested_report_interval)
               /\ pc' = "list" /\ unsampled' = 0
               /\ UNCHANGED <<link, now, alarm_val, unsent, stale, unsent_read, curtime, lasts, retry, config, answered>>

SampleSkip == /\ pc = "sample" /\ ~Due(last_periodic_report_taken, requested_report_interval)
              /\ pc' = "send"
              /\ UNCHANGED <<link, time, curtime, lasts, retry, config, answered>>

SampleEndNow ==                      \* mutant: the clock is read again
    /\ pc = "list" /\ Listening
    /\ \E d \in {0, 1} : Elapse(d)
    /\ last_periodic_report_taken' = now'
    /\ pc' = "send"
    /\ UNCHANGED <<link, curtime, last_recordstore_sent, retry, config, answered>>

(* ... and has ended, within a second *)
SampleEnd == /\ pc = "list" /\ Listening
             /\ last_periodic_report_taken' = curtime
             /\ pc' = "send"
             /\ \E d \in {0, 1} : Later(d, IF stale THEN -Round ELSE unsampled, unsent)
             /\ UNCHANGED <<link, curtime, last_recordstore_sent, retry, config, answered>>

SendDue == Due(last_recordstore_sent, requested_recordstore_interval)

(* datalink_wake, in which the ready callback may come *)
Send == /\ pc = "send" /\ SendDue
        /\ Link!Wake
        /\ pc' = "sent" /\ unsent' = 0 /\ answered' = "no"
        /\ UNCHANGED <<now, alarm_val, unsampled, stale, unsent_read, curtime, lasts, retry, config>>

SendSkip == /\ pc = "send" /\ ~SendDue
            /\ pc' = "retry"
            /\ UNCHANGED <<link, time, curtime, lasts, retry, config, answered>>

(* datalink_wake has returned *)
SendReturn == /\ pc = "sent" /\ Listening
              /\ last_recordstore_sent' = curtime
              /\ num_retries_remaining' = ERROR_NUM_RETRIES /\ last_retry_tried' = curtime
              /\ pc' = "retry"
              /\ unsent' = IF stale THEN -Round ELSE unsent
              /\ UNCHANGED <<link, now, alarm_val, unsampled, stale, unsent_read, curtime, last_periodic_report_taken, config, answered>>

RetryDue == /\ num_retries_remaining > 0
            /\ Minus(curtime, last_retry_tried) >= ERROR_RETRY_INTERVAL
            /\ requested_recordstore_interval > 2 * ERROR_RETRY_INTERVAL

Retry == /\ pc = "retry" /\ RetryDue
         /\ Link!Wake
         /\ pc' = "retried" /\ unsent' = 0
         /\ answered' = IF answered = "in_retry" THEN answered ELSE "no"
         /\ UNCHANGED <<now, alarm_val, unsampled, stale, unsent_read, curtime, lasts, retry, config>>

RetrySkip == /\ pc = "retry" /\ ~RetryDue
             /\ pc' = "monitor"
             /\ UNCHANGED <<link, time, curtime, lasts, retry, config, answered>>

RetryReturn == /\ pc = "retried" /\ Listening
               /\ last_retry_tried' = curtime
               /\ num_retries_remaining' = (num_retries_remaining - 1) % RetryMod
               /\ pc' = "monitor"
               /\ UNCHANGED <<link, time, curtime, lasts, config, answered>>

MonitorStart == /\ pc = "monitor" /\ using_monitor_list
                /\ pc' = "monitoring"
                /\ UNCHANGED <<link, time, curtime, lasts, retry, config, answered>>

Return == /\ \/ pc = "monitor" /\ ~using_monitor_list
             \/ pc = "monitoring" /\ Listening
          /\ pc' = "tick"
          /\ UNCHANGED <<link, time, curtime, lasts, retry, config, answered>>

-----------------------------------------------------------------------------
(* the ready callback: datalink_wake, or later pcint_check in the main     *)
(* loop or in scheduler_start, finds the link connected                    *)
Ready == /\ pc \in {"sent", "retried", "main", "list", "monitoring"}
         /\ Link!Ready
         /\ answered' = CASE pc = "sent" -> "in_wake" [] pc = "retried" -> "in_retry" [] OTHER -> "later"
         /\ UNCHANGED <<pc, time, curtime, lasts, retry, config>>

(* the link gives up and goes to sleep, which takes it a second or more *)
GiveUp == /\ pc = "tick" /\ pc' = "asleep"
          /\ Link!GiveUp
          /\ \E d \in {1, 2} : Elapse(d)
          /\ UNCHANGED <<curtime, lasts, retry, config, answered>>

SessionEndKeepsRetries ==            \* mutant: the retries are not cancelled
    /\ Link!Finish
    /\ \E d \in {1, 2} : Elapse(d)
    /\ UNCHANGED <<pc, curtime, lasts, retry, config, answered>>

(* _datalink_rdy_cb: after half a second of ticks and a second of going to *)
(* sleep the retries are cancelled                                         *)
SessionEnd == /\ Link!Finish
              /\ num_retries_remaining' = 0
              /\ \E d \in {1, 2} : Elapse(d)
              /\ UNCHANGED <<pc, curtime, lasts, last_retry_tried, config, answered>>

(* wifly_tick hands packets over in the main loop and in a session *)
Receiving == packets < MaxPackets /\ (link = "session" \/ pc = "tick")

(* cmd_timesync_cb *)
Timesync == /\ Receiving /\ packets' = packets + 1
            /\ \E t \in SyncTimes : now' = t
            /\ last_periodic_report_taken' = now' /\ last_recordstore_sent' = now'
            /\ unsampled' = 0 /\ unsent' = 0 /\ unsent_read' = 0 /\ stale' = TRUE
            /\ UNCHANGED <<pc, link, alarm_val, curtime, retry, requested_report_interval,
                           requested_recordstore_interval, using_monitor_list, answered>>

(* cmd_configure_sensor_cb, after the first time and with the same fields  *)
Configure ==
    /\ Receiving /\ packets' = packets + 1
    /\ \/ UNCHANGED <<requested_report_interval, last_periodic_report_taken, unsampled>>
       \/ /\ requested_report_interval' \in SampleIntervals \ {requested_report_interval}
          /\ last_periodic_report_taken' = Never /\ unsampled' = 0
    /\ \/ UNCHANGED <<requested_recordstore_interval, last_recordstore_sent, unsent, unsent_read>>
       \/ /\ requested_recordstore_interval' \in RecordIntervals
          /\ last_recordstore_sent' = Never /\ unsent' = 0 /\ unsent_read' = 0
    /\ using_monitor_list' = FALSE
    /\ UNCHANGED <<pc, link, now, alarm_val, stale, curtime, retry, answered>>

Callback == \/ Alarm \/ SampleStart \/ SampleSkip \/ SampleEnd
            \/ Send \/ SendSkip \/ SendReturn \/ Retry \/ RetrySkip \/ RetryReturn
            \/ MonitorStart \/ Return

CycleNext == \/ Callback \/ NoAlarm \/ FallAsleep \/ RtcTick \/ PinWake
             \/ Ready \/ GiveUp \/ SessionEnd \/ Timesync \/ Configure

(* The program runs, the lists and the sessions end, and the RTC ticks     *)
(* however often a pin wakes the chip.                                     *)
Fairness == /\ WF_cyclevars(Callback) /\ WF_cyclevars(NoAlarm) /\ WF_cyclevars(FallAsleep)
            /\ WF_cyclevars(SessionEnd) /\ SF_cyclevars(RtcTick)

CycleSpec == CycleInit /\ [][CycleNext]_cyclevars /\ Fairness

-----------------------------------------------------------------------------
CycleTypeOK ==
    /\ pc \in {"main", "tick", "asleep", "sample", "list", "send", "sent", "retry",
            "retried", "monitor", "monitoring"}
    /\ link \in {"idle", "waiting", "session"}
    /\ now \in Time /\ curtime \in Time /\ alarm_val \in 0 .. 1 /\ stale \in BOOLEAN
    /\ last_periodic_report_taken \in Time /\ last_recordstore_sent \in Time
    /\ last_retry_tried \in Time /\ num_retries_remaining \in 0 .. RetryMod - 1
    /\ requested_report_interval \in SampleIntervals
    /\ requested_recordstore_interval \in RecordIntervals
    /\ using_monitor_list \in BOOLEAN
    /\ packets \in 0 .. MaxPackets
    /\ {unsampled, unsent, unsent_read} \subseteq -Round .. HistoryMax
    /\ answered \in {"no", "in_wake", "in_retry", "later"}

(* rtc_timer_cb passes over the periodic report only when less than the    *)
(* interval has gone by since the latest report, timesync or change of the *)
(* interval, and over waking the link likewise, by the clock as it has read*)
(* it: whatever packets did to the clock, the intervals and the last times,*)
(* and wherever in rtc_timer_cb they did it.  If the host set the clock    *)
(* during the latest list, a report may be late by a round of the main     *)
(* loop; and in the one second in 2^32 that the clock stands at the value  *)
(* for "never" it may wait for the next.                                   *)
ReportsWhenDue ==
    [][curtime # Never => /\ SampleSkip => unsampled < requested_report_interval
                          /\ SendSkip => unsent_read < requested_recordstore_interval]_cyclevars

(* There is always another periodic report, and another wake of the link,  *)
(* once the host's packets end.                                            *)
KeepsReporting == []<>(pc = "list") /\ []<>(pc = "sent")

(* When the ready callback comes after datalink_wake has returned, no      *)
(* retry follows: the answer cancels them.  And there are no more than     *)
(* ERROR_NUM_RETRIES, but if a retry is answered before its datalink_wake  *)
(* returns: then rtc_timer_cb decrements the zero (logic.c:257).           *)
RetriesStop ==
    [][pc = "retry" /\ pc' = "retried" =>
           /\ answered # "later"
           /\ num_retries_remaining <= ERROR_NUM_RETRIES \/ answered = "in_retry"]_cyclevars
=============================================================================
