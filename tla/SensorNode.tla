------------------------------ MODULE SensorNode ------------------------------
(***************************************************************************)
(* The way of a report through the node: rtc_timer_cb (protocol/logic.c)   *)
(* runs a list of the scheduler, whose tasks begin a report, fill it in,   *)
(* insert it into the record store and pop it; when the link is woken and  *)
(* connects, the ready callback hands the store to the host and takes the  *)
(* host's packets.  The callback also runs inside a list, between two of   *)
(* its tasks, and a packet then meets a running scheduler.                 *)
(*                                                                         *)
(* When something is due is left open (ReportCycle has the clock), the     *)
(* link is DataLink (which WiflyLink implements), the store keeps records  *)
(* whole (RecordStore shows that it may be thought to), and a list is the  *)
(* set of fields it was set up for.                                        *)
(***************************************************************************)
EXTENDS ReportQueue, Sequences

CONSTANTS Fields,       \* sets of fields the host may request
          Changes,      \* those with a field that is watched by the monitor list
          StoreRoom,    \* bound of the model: records that fit into the store
          MaxReports,   \* bound of the model: reports taken
          MaxPackets    \* bound of the model: packets of the host

ASSUME FieldsAssumption == Changes \subseteq Fields
ASSUME BoundAssumption == StoreRoom \in Nat /\ MaxReports \in Nat /\ MaxPackets \in Nat

VARIABLES
    pc,                      \* where the main loop and rtc_timer_cb are
    stage,                   \* where scheduler_start is
    lists,                   \* the fields each list has tasks for
    report_fields_requested,
    using_monitor_list,
    link,
    dumped,                  \* the session has sent the store
    store,                   \* the records, as the times of their reports
    taken,                   \* reports begun; a report's time is its number
    reported, dropped,       \* history: reports inserted, and those lost by a full store or a timesync
    host,                    \* history: the reports the host has received
    packets

List == {"SCHEDULER_PERIODIC_SAMPLE_LIST", "SCHEDULER_MONITOR_LIST"}
Periodic == "SCHEDULER_PERIODIC_SAMPLE_LIST"
Monitor == "SCHEDULER_MONITOR_LIST"

config == <<lists, report_fields_requested, using_monitor_list, packets>>
records == <<store, taken, reported, dropped, host>>
where == <<pc, stage>>
connection == <<link, dumped>>
vars == <<queue, config, records, where, connection>>

Link == INSTANCE DataLink WITH state <- link

None == "none"      \* the fields of an empty list and of a new report
Stopped == "stopped"
Report == [time : 0 .. MaxReports, fields : Fields \cup {None}]

-----------------------------------------------------------------------------
Init == /\ ReportInit([time |-> 0, fields |-> None])
        /\ pc = "main" /\ stage = Stopped
        /\ report_fields_requested \in Fields
        /\ lists = [l \in List |-> report_fields_requested]
        /\ using_monitor_list = (report_fields_requested \in Changes)
        /\ Link!Init /\ dumped = FALSE
        /\ store = << >> /\ taken = 0 /\ reported = {} /\ dropped = {} /\ host = << >>
        /\ packets = 0

Running == stage # Stopped
Listening == link # "session"
TheList == IF pc = "sample" THEN Periodic ELSE Monitor

(* what follows pc in rtc_timer_cb and in the main loop *)
After == [sample |-> "send", send |-> "retry", retry |-> "monitor", monitor |-> "tick"]

(* rtctimer_check_alarm *)
Alarm == /\ pc = "main" /\ Listening /\ pc' = "sample"
         /\ UNCHANGED <<queue, config, records, stage, connection>>

NoAlarm == /\ pc = "main" /\ Listening /\ pc' = "tick"
           /\ UNCHANGED <<queue, config, records, stage, connection>>

(* the end of the main loop and of the sleep in it *)
NextRound == /\ pc = "tick" /\ Listening /\ pc' = "main"
             /\ UNCHANGED <<queue, config, records, stage, connection>>

(* not due, not configured, or an empty list *)
Skip == /\ pc \in DOMAIN After /\ ~Running /\ Listening
        /\ pc = "monitor" => lists[Monitor] = None \/ ~using_monitor_list \/ taken = MaxReports
        /\ pc' = After[pc]
        /\ UNCHANGED <<queue, config, records, stage, connection>>

(* scheduler_start: the tasks at time 0, task_begin_report among them *)
StartList == /\ pc \in {"sample", "monitor"} /\ ~Running /\ Listening
             /\ lists[TheList] # None /\ taken < MaxReports
             /\ pc = "monitor" => using_monitor_list
             /\ taken' = taken + 1
             /\ ReportNew([time |-> taken + 1, fields |-> None])
             /\ stage' = "doze"
             /\ UNCHANGED <<config, store, reported, dropped, host, pc, connection>>

(* the loop of scheduler_start after pcint_check: the sensors' tasks; the  *)
(* tasks of the monitor list report changes only                           *)
Fill(next) ==
    /\ stage = "doze" /\ Listening /\ lists[TheList] # None
    /\ SetFields(lists[TheList]) \/ (TheList = Monitor /\ UNCHANGED queue)
    /\ stage' = next
    /\ UNCHANGED <<config, records, pc, connection>>

(* a packet has emptied the lists: scheduler_start ends *)
CutShort == /\ stage = "doze" /\ Listening /\ lists[TheList] = None
            /\ stage' = Stopped /\ pc' = After[pc]
            /\ UNCHANGED <<queue, config, records, connection>>

Times(s) == {s[i] : i \in DOMAIN s}

FullStore == Len(store) >= StoreRoom

(* recordstore_insert of the current report *)
Insert == /\ reported' = reported \cup {Current.time}
          /\ IF FullStore THEN store' = store /\ dropped' = dropped \cup {Current.time}
             ELSE store' = Append(store, Current.time) /\ dropped' = dropped

LastEventsNoPop ==                 \* mutant: report_poplast is not among the tasks
    /\ stage = "last"
    /\ IF TheList = Periodic \/ Current.fields # None THEN Insert
       ELSE UNCHANGED <<store, reported, dropped>>
    /\ UNCHANGED queue
    /\ stage' = Stopped /\ pc' = After[pc]
    /\ UNCHANGED <<config, taken, host, connection>>

(* the SCHEDULER_LAST_EVENTS: task_send_report or task_check_send_report,  *)
(* and report_poplast                                                      *)
LastEvents == /\ stage = "last"
              /\ IF TheList = Periodic \/ Current.fields # None THEN Insert
                 ELSE UNCHANGED <<store, reported, dropped>>
              /\ ReportPopLast
              /\ stage' = Stopped /\ pc' = After[pc]
              /\ UNCHANGED <<config, taken, host, connection>>

-----------------------------------------------------------------------------
(* datalink_wake: a transmission or a retry is due *)
Wake == /\ pc \in {"send", "retry"} /\ Listening
        /\ Link!Wake
        /\ UNCHANGED <<queue, config, records, where, dumped>>

(* the ready callback, in datalink_wake or in pcint_check *)
Ready == /\ pc \in {"main", "send", "retry"} \/ stage = "doze"
         /\ Link!Ready /\ dumped' = FALSE
         /\ UNCHANGED <<queue, config, records, where>>

GiveUp == /\ pc = "tick" /\ Link!GiveUp
          /\ UNCHANGED <<queue, config, records, where, dumped>>

DumpNothing ==                     \* mutant: the store is neither sent nor cleared
    /\ link = "session" /\ ~dumped /\ dumped' = TRUE
    /\ UNCHANGED <<queue, config, records, where, link>>

DumpLost ==                        \* mutant: the store is cleared before it is sent
    /\ link = "session" /\ ~dumped /\ dumped' = TRUE
    /\ host' = host /\ store' = << >>
    /\ UNCHANGED <<queue, config, taken, reported, dropped, where, link>>

(* send_over_datalink: the store goes to the host and is cleared; the      *)
(* records of the device's ID and configuration go with it                 *)
Dump == /\ link = "session" /\ ~dumped /\ dumped' = TRUE
        /\ host' = host \o store /\ store' = << >>
        /\ UNCHANGED <<queue, config, taken, reported, dropped, where, link>>

SessionEnd == /\ dumped /\ Link!Finish /\ dumped' = FALSE
              /\ UNCHANGED <<queue, config, records, where>>

Receiving == /\ packets < MaxPackets /\ packets' = packets + 1
             /\ dumped \/ (pc = "tick" /\ Listening)

(* cmd_timesync_cb *)
Timesync == /\ Receiving
            /\ dropped' = dropped \cup Times(store) /\ store' = << >>
            /\ UNCHANGED <<queue, lists, report_fields_requested, using_monitor_list, taken, reported,
                           host, where, connection>>

(* cmd_configure_sensor_cb with other fields: scheduler_reset, and a       *)
(* running scheduler refuses the tasks that are added                      *)
ConfigureFields ==
    /\ Receiving
    /\ \E f \in Fields \ {report_fields_requested} :
          /\ report_fields_requested' = f
          /\ lists' = [l \in List |-> IF Running THEN None ELSE f]
          /\ using_monitor_list' = (f \in Changes)
    /\ UNCHANGED <<queue, records, where, connection>>

(* with the same fields, or only intervals *)
ConfigureIntervals ==
    /\ Receiving
    /\ using_monitor_list' = FALSE
    /\ UNCHANGED <<queue, lists, report_fields_requested, records, where, connection>>

Program == Alarm \/ NoAlarm \/ NextRound \/ Skip \/ StartList \/ Fill("last") \/ CutShort \/ LastEvents \/ Dump \/ SessionEnd

Next == Program \/ Fill("doze") \/ Wake \/ Ready \/ GiveUp \/ Timesync \/ ConfigureFields \/ ConfigureIntervals

(* The program runs, the alarm and the lists' ends come, and so do the     *)
(* times to wake the link (see ReportCycle); a radio that is woken again   *)
(* and again connects.                                                     *)
Fairness == /\ WF_vars(Program) /\ SF_vars(Alarm) /\ SF_vars(Fill("last"))
            /\ SF_vars(Wake) /\ SF_vars(Ready)

Spec == Init /\ [][Next]_vars /\ Fairness

-----------------------------------------------------------------------------
TypeOK == /\ report_list \in [ReportIndex -> Report]
          /\ report_list_insert \in ReportIndex /\ report_list_remove \in ReportIndex
          /\ report_current_index \in ReportIndex \cup {-1}
          /\ pc \in {"main", "sample", "send", "retry", "monitor", "tick"}
          /\ stage \in {Stopped, "doze", "last"}
          /\ lists \in [List -> Fields \cup {None}]
          /\ report_fields_requested \in Fields /\ using_monitor_list \in BOOLEAN
          /\ link \in {"idle", "waiting", "session"} /\ dumped \in BOOLEAN
          /\ store \in Seq(1 .. MaxReports) /\ host \in Seq(1 .. MaxReports)
          /\ taken \in 0 .. MaxReports /\ packets \in 0 .. MaxPackets
          /\ reported \subseteq 1 .. taken /\ dropped \subseteq 1 .. taken

(* A task that fills in or sends report_current() finds one, and it is the *)
(* report that this run of the list has begun: whatever runs were cut      *)
(* short before and left their reports in the ring, overflown or not.      *)
CurrentIsOurs == Running => report_current_index # -1 /\ Current.time = taken

(* Every report that was inserted has been received by the host or is in   *)
(* the store, once and in the order of time, unless the store was full or  *)
(* a timesync cleared it.                                                  *)
Kept == host \o store
Ascending(s) == \A i, j \in DOMAIN s : i < j => s[i] < s[j]
ExactlyOnce == Times(Kept) = reported \ dropped /\ Ascending(Kept)

(* A run that is cut short leaves its report in the ring, once and for     *)
(* all, so there are as many as packets that can have done it; otherwise   *)
(* every report begun is popped.                                           *)
FewLeftOver == ~Running => ReportCount <= packets

(* What is in the store leaves it.                                         *)
Leaves == \A t \in 1 .. MaxReports : t \in Times(store) ~> t \notin Times(store)

(* The configuration that packet_construct_current_configuration tells the *)
(* host of (logic.c:307) is the one the lists hold.                        *)
ConfigurationHolds == ~Running => \A l \in List : lists[l] = report_fields_requested
=============================================================================
