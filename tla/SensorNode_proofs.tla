-------------------------- MODULE SensorNode_proofs --------------------------
(***************************************************************************)
(* The node's types; that the tasks of a list find the report that their   *)
(* run began; that every report is at the host or in the store once; and   *)
(* that only packets leave reports in the ring.                            *)
(***************************************************************************)
EXTENDS SensorNode, SequenceTheorems, TLAPS

LEMMA MembershipIsBoolean == \A f, S : (f \in S) \in BOOLEAN
OBVIOUS

LEMMA IndexNext == \A i \in ReportIndex : NextIndex(i) \in ReportIndex
BY MaxReportsAssumption DEF ReportIndex, NextIndex

(* The types of the ring, apart from those of the rest of the node.        *)
QueueOK == /\ report_list \in [ReportIndex -> Report]
           /\ report_list_insert \in ReportIndex /\ report_list_remove \in ReportIndex
           /\ report_current_index \in ReportIndex \cup {-1}

LEMMA NewQueueOK ==
    ASSUME QueueOK, NEW r \in Report, ReportNew(r)
    PROVE  QueueOK' /\ report_current_index' \in ReportIndex /\ Current' = r
<1>1. NextIndex(report_list_insert) \in ReportIndex /\ NextIndex(report_list_remove) \in ReportIndex
      BY IndexNext DEF QueueOK
<1> QED  BY <1>1 DEF QueueOK, ReportNew, Current

LEMMA PopQueueOK ==
    ASSUME QueueOK, ReportPopLast
    PROVE  QueueOK'
<1>1. NextIndex(report_list_remove) \in ReportIndex  BY IndexNext DEF QueueOK
<1> QED  BY <1>1 DEF QueueOK, ReportPopLast

LEMMA SetQueueOK ==
    ASSUME QueueOK, NEW f \in Fields \cup {None}, SetFields(f)
    PROVE  QueueOK'
<1>1. \A i \in ReportIndex : [report_list[i] EXCEPT !.fields = f] \in Report
      BY DEF QueueOK, Report
<1>2. report_list' \in [ReportIndex -> Report]
      BY <1>1 DEF QueueOK, SetFields
<1> QED  BY <1>2 DEF QueueOK, SetFields

LEMMA SetKeepsTime ==
    ASSUME QueueOK, NEW f \in Fields \cup {None}, SetFields(f), report_current_index \in ReportIndex
    PROVE  Current'.time = Current.time
<1>1. report_list[report_current_index] \in Report  BY DEF QueueOK
<1> QED  BY <1>1 DEF QueueOK, SetFields, Current, Report

-----------------------------------------------------------------------------
(* The types of the records; reports carry times that have been taken.     *)
RecordsOK == /\ store \in Seq(1 .. MaxReports) /\ host \in Seq(1 .. MaxReports)
             /\ taken \in 0 .. MaxReports
             /\ reported \subseteq 1 .. taken /\ dropped \subseteq 1 .. taken

(* Where a list is in the middle of its tasks, and when it is.             *)
Listed == Running => /\ pc \in {"sample", "monitor"}
                     /\ report_current_index \in ReportIndex
                     /\ Current.time = taken /\ taken \in 1 .. MaxReports

(* What a session may have left in the store has been taken before.        *)
StoreTaken == \A i \in DOMAIN store : store[i] \in 1 .. taken

Rest == /\ pc \in {"main", "sample", "send", "retry", "monitor", "tick"}
        /\ stage \in {Stopped, "doze", "last"}
        /\ lists \in [List -> Fields \cup {None}]
        /\ report_fields_requested \in Fields /\ using_monitor_list \in BOOLEAN
        /\ link \in {"idle", "waiting", "session"} /\ dumped \in BOOLEAN
        /\ packets \in 0 .. MaxPackets

IInv == QueueOK /\ RecordsOK /\ Listed /\ StoreTaken /\ Rest

LEMMA IInvImplies == IInv => TypeOK /\ CurrentIsOurs
BY MaxReportsAssumption
   DEF IInv, QueueOK, RecordsOK, Listed, Rest, TypeOK, CurrentIsOurs, ReportIndex

LEMMA InitInv == Init => IInv
<1> SUFFICES ASSUME Init PROVE IInv  OBVIOUS
<1>1. 0 \in ReportIndex  BY MaxReportsAssumption DEF ReportIndex
<1>2. [time |-> 0, fields |-> None] \in Report  BY BoundAssumption DEF Report
<1>3. QueueOK  BY <1>1, <1>2 DEF Init, ReportInit, QueueOK
<1>4. RecordsOK /\ StoreTaken  BY BoundAssumption DEF Init, RecordsOK, StoreTaken
<1>5. Listed  BY DEF Init, Listed, Running
<1>6. Rest
      <2>1. 0 \in 0 .. MaxPackets  BY BoundAssumption
      <2>2. using_monitor_list \in BOOLEAN  BY MembershipIsBoolean, Zenon DEF Init
      <2> QED  BY <2>1, <2>2 DEF Init, Rest, Link!Init
<1> QED  BY <1>3, <1>4, <1>5, <1>6 DEF IInv

(* Most steps leave the ring and the records alone.                        *)
LEMMA Untouched ==
    ASSUME IInv, UNCHANGED <<queue, records>>
    PROVE  QueueOK' /\ RecordsOK' /\ StoreTaken'
BY DEF IInv, queue, records, QueueOK, RecordsOK, StoreTaken

LEMMA UntouchedList ==
    ASSUME IInv, UNCHANGED <<queue, records, where>>
    PROVE  Listed'
BY DEF IInv, queue, records, where, Listed, Running, Current

LEMMA Followed == \A p \in DOMAIN After : After[p] \in {"send", "retry", "monitor", "tick"}
BY DEF After

LEMMA NextInv == IInv /\ [Next]_vars => IInv'
<1> SUFFICES ASSUME IInv, [Next]_vars PROVE IInv'  OBVIOUS
<1> USE DEF List, Periodic, Monitor
<1>1. CASE Alarm \/ NoAlarm \/ NextRound
      <2>1. UNCHANGED <<queue, records>>  BY <1>1 DEF Alarm, NoAlarm, NextRound
      <2>2. Listed'  BY <1>1, <2>1 DEF IInv, Listed, Alarm, NoAlarm, NextRound, Running
      <2>3. Rest'  BY <1>1 DEF IInv, Rest, Alarm, NoAlarm, NextRound, config, connection
      <2> QED  BY <2>1, <2>2, <2>3, Untouched DEF IInv
<1>2. CASE Skip
      <2>1. UNCHANGED <<queue, records>>  BY <1>2 DEF Skip
      <2>2. Listed'  BY <1>2, <2>1 DEF Skip, Listed, Running
      <2>3. pc' \in {"send", "retry", "monitor", "tick"}  BY <1>2, Followed DEF Skip
      <2>4. Rest'  BY <1>2, <2>3 DEF IInv, Rest, Skip, config, connection
      <2> QED  BY <2>1, <2>2, <2>4, Untouched DEF IInv
<1>3. CASE StartList
      <2> DEFINE r == [time |-> taken + 1, fields |-> None]
      <2>1. taken + 1 \in 1 .. MaxReports /\ taken' = taken + 1
            BY <1>3, BoundAssumption DEF StartList, IInv, RecordsOK
      <2>2. r \in Report  BY <2>1 DEF Report
      <2>3. QueueOK' /\ report_current_index' \in ReportIndex /\ Current' = r
            BY <1>3, <2>2, NewQueueOK DEF StartList, IInv
      <2>4. RecordsOK' /\ StoreTaken'
            BY <1>3, <2>1 DEF StartList, IInv, RecordsOK, StoreTaken
      <2>5. Listed'  BY <1>3, <2>1, <2>3 DEF StartList, Listed
      <2>6. Rest'  BY <1>3 DEF IInv, Rest, StartList, config, connection
      <2> QED  BY <2>3, <2>4, <2>5, <2>6 DEF IInv
<1>4. ASSUME NEW next \in {"doze", "last"}, Fill(next) PROVE IInv'
      <2>1. lists[TheList] \in Fields \cup {None}  BY DEF IInv, Rest, TheList
      <2>2. CASE SetFields(lists[TheList])
            <3>1. report_current_index \in ReportIndex  BY <1>4 DEF Fill, IInv, Listed, Running, Stopped
            <3>2. QueueOK'  BY <2>1, <2>2, SetQueueOK DEF IInv
            <3>3. Current'.time = Current.time  BY <2>1, <2>2, <3>1, SetKeepsTime DEF IInv
            <3>4. Listed'  BY <1>4, <2>2, <3>1, <3>3 DEF Fill, IInv, Listed, SetFields, records, Running, Stopped
            <3>5. RecordsOK' /\ StoreTaken' /\ Rest'
                  BY <1>4 DEF Fill, IInv, RecordsOK, StoreTaken, Rest, records, config, connection
            <3> QED  BY <3>2, <3>4, <3>5 DEF IInv
      <2>3. CASE UNCHANGED queue
            <3>1. QueueOK' /\ RecordsOK' /\ StoreTaken'  BY <1>4, <2>3, Untouched DEF Fill
            <3>2. Listed'
                  BY <1>4, <2>3 DEF Fill, IInv, Listed, Current, queue, records, Running, Stopped
            <3>3. Rest'  BY <1>4 DEF Fill, IInv, Rest, config, connection
            <3> QED  BY <3>1, <3>2, <3>3 DEF IInv
      <2> QED  BY <1>4, <2>2, <2>3 DEF Fill
<1>5. CASE CutShort
      <2>1. UNCHANGED <<queue, records>>  BY <1>5 DEF CutShort
      <2>2. Listed'  BY <1>5 DEF CutShort, Listed, Running
      <2>3. pc \in DOMAIN After
            BY <1>5 DEF CutShort, IInv, Listed, Running, Stopped, After
      <2>4. Rest'  BY <1>5, <2>3, Followed DEF IInv, Rest, CutShort, config, connection
      <2> QED  BY <2>1, <2>2, <2>4, Untouched DEF IInv
<1>6. CASE LastEvents
      <2>1. Running  BY <1>6 DEF LastEvents, Running, Stopped
      <2>2. Current.time = taken /\ taken \in 1 .. MaxReports /\ pc \in {"sample", "monitor"}
            BY <2>1 DEF IInv, Listed
      <2>3. QueueOK'  BY <1>6, PopQueueOK DEF LastEvents, IInv
      <2>4. taken' = taken /\ host' = host  BY <1>6 DEF LastEvents
      <2>5. RecordsOK' /\ StoreTaken'
            <3>1. CASE Insert /\ FullStore
                  <4>1. taken \in 1 .. taken  BY <2>2
                  <4>2. store' = store  BY <3>1 DEF Insert
                  <4>3. reported' \subseteq 1 .. taken /\ dropped' \subseteq 1 .. taken
                        BY <2>2, <3>1, <4>1 DEF Insert, IInv, RecordsOK
                  <4> QED  BY <2>4, <4>2, <4>3 DEF IInv, RecordsOK, StoreTaken
            <3>2. CASE Insert /\ ~FullStore
                  <4>1. store' = Append(store, taken)  BY <2>2, <3>2 DEF Insert
                  <4>2. store' \in Seq(1 .. MaxReports)  BY <2>2, <4>1 DEF IInv, RecordsOK
                  <4>3. \A i \in DOMAIN store' : store'[i] \in 1 .. taken
                        <5> TAKE i \in DOMAIN store'
                        <5>1. CASE i = Len(store) + 1  BY <2>2, <4>1, <5>1 DEF IInv, RecordsOK
                        <5>2. CASE i # Len(store) + 1
                              <6>1. i \in DOMAIN store  BY <4>1, <5>2 DEF IInv, RecordsOK
                              <6> QED  BY <4>1, <6>1 DEF IInv, RecordsOK, StoreTaken
                        <5> QED  BY <5>1, <5>2
                  <4>4. reported' \subseteq 1 .. taken /\ dropped' \subseteq 1 .. taken
                        <5>1. taken \in 1 .. taken  BY <2>2
                        <5> QED  BY <2>2, <3>2, <5>1 DEF Insert, IInv, RecordsOK
                  <4> QED  BY <2>4, <4>2, <4>3, <4>4 DEF IInv, RecordsOK, StoreTaken
            <3>3. CASE UNCHANGED <<store, reported, dropped>>
                  BY <2>4, <3>3 DEF IInv, RecordsOK, StoreTaken
            <3> QED  BY <1>6, <3>1, <3>2, <3>3 DEF LastEvents
      <2>6. Listed'  BY <1>6 DEF LastEvents, Listed, Running
      <2>7. pc \in DOMAIN After  BY <2>2 DEF After
      <2>8. Rest'  BY <1>6, <2>7, Followed DEF IInv, Rest, LastEvents, config, connection
      <2> QED  BY <2>3, <2>5, <2>6, <2>8 DEF IInv
<1>7. CASE Dump
      <2>1. RecordsOK' /\ StoreTaken'  BY <1>7 DEF Dump, IInv, RecordsOK, StoreTaken
      <2>2. QueueOK' /\ Listed'
            BY <1>7 DEF Dump, IInv, QueueOK, Listed, Current, queue, where, Running
      <2>3. Rest'  BY <1>7 DEF Dump, IInv, Rest, config, where
      <2> QED  BY <2>1, <2>2, <2>3 DEF IInv
<1>8. CASE SessionEnd \/ Wake \/ Ready \/ GiveUp
      <2>1. UNCHANGED <<queue, records, where, config>>
            BY <1>8 DEF SessionEnd, Wake, Ready, GiveUp
      <2>2. link' \in {"idle", "waiting", "session"} /\ dumped' \in BOOLEAN
            BY <1>8 DEF SessionEnd, Wake, Ready, GiveUp, Link!Finish, Link!Wake, Link!Ready,
                        Link!GiveUp, IInv, Rest
      <2>3. Rest'  BY <2>1, <2>2 DEF IInv, Rest, config, where
      <2> QED  BY <2>1, <2>3, Untouched, UntouchedList DEF IInv
<1>9. CASE Timesync
      <2>1. RecordsOK' /\ StoreTaken'
            <3>1. Times(store) \subseteq 1 .. taken  BY DEF IInv, StoreTaken, Times
            <3>2. dropped' \subseteq 1 .. taken  BY <1>9, <3>1 DEF Timesync, IInv, RecordsOK
            <3> QED  BY <1>9, <3>2 DEF Timesync, IInv, RecordsOK, StoreTaken
      <2>2. QueueOK' /\ Listed'
            BY <1>9 DEF Timesync, IInv, QueueOK, Listed, Current, queue, where, Running
      <2>3. packets' \in 0 .. MaxPackets
            BY <1>9, BoundAssumption DEF Timesync, Receiving, IInv, Rest
      <2>4. Rest'  BY <1>9, <2>3 DEF Timesync, IInv, Rest, where, connection
      <2> QED  BY <2>1, <2>2, <2>4 DEF IInv
<1>10. CASE ConfigureFields \/ ConfigureIntervals
      <2>1. UNCHANGED <<queue, records, where>>  BY <1>10 DEF ConfigureFields, ConfigureIntervals
      <2>2. packets' \in 0 .. MaxPackets
            BY <1>10, BoundAssumption DEF ConfigureFields, ConfigureIntervals, Receiving, IInv, Rest
      <2>3. /\ lists' \in [List -> Fields \cup {None}]
            /\ report_fields_requested' \in Fields
            /\ using_monitor_list' \in BOOLEAN
            <3>1. CASE ConfigureFields
                  <4>1. PICK f \in Fields : /\ report_fields_requested' = f
                                            /\ lists' = [l \in List |-> IF Running THEN None ELSE f]
                                            /\ using_monitor_list' = (f \in Changes)
                        BY <3>1 DEF ConfigureFields
                  <4>2. using_monitor_list' \in BOOLEAN  BY <4>1, MembershipIsBoolean, Zenon
                  <4> QED  BY <4>1, <4>2
            <3>2. CASE ConfigureIntervals  BY <3>2 DEF ConfigureIntervals, IInv, Rest
            <3> QED  BY <1>10, <3>1, <3>2
      <2>4. Rest'  BY <1>10, <2>1, <2>2, <2>3 DEF ConfigureFields, ConfigureIntervals, IInv, Rest, where, connection
      <2> QED  BY <2>1, <2>4, Untouched, UntouchedList DEF IInv
<1>11. CASE UNCHANGED vars
      <2>1. UNCHANGED <<queue, records, where>>  BY <1>11 DEF vars
      <2>2. Rest'  BY <1>11 DEF vars, IInv, Rest, config, where, connection
      <2> QED  BY <2>1, <2>2, Untouched, UntouchedList DEF IInv
<1> QED  BY <1>1, <1>2, <1>3, <1>4, <1>5, <1>6, <1>7, <1>8, <1>9, <1>10, <1>11 DEF Next, Program

(* Every reachable state has the types TypeOK gives it, the ring's indices *)
(* among them.                                                             *)
THEOREM Typing == Spec => []TypeOK
BY InitInv, NextInv, IInvImplies, PTL DEF Spec

(* A task that fills in or sends a report finds the one its run began.     *)
THEOREM TasksFindTheirReport == Spec => []CurrentIsOurs
BY InitInv, NextInv, IInvImplies, PTL DEF Spec

-----------------------------------------------------------------------------
(* Facts about the sequences of times.                                     *)
LEMMA TimesOfAppend ==
    ASSUME NEW S, NEW s \in Seq(S), NEW e \in S
    PROVE  Times(Append(s, e)) = Times(s) \cup {e}
<1>1. /\ DOMAIN Append(s, e) = 1 .. Len(s) + 1 /\ DOMAIN s = 1 .. Len(s) /\ Len(s) \in Nat
      /\ \A i \in 1 .. Len(s) : Append(s, e)[i] = s[i]
      /\ Append(s, e)[Len(s) + 1] = e
      BY AppendProperties
<1>2. ASSUME NEW i \in DOMAIN Append(s, e) PROVE Append(s, e)[i] \in Times(s) \cup {e}
      <2>1. i = Len(s) + 1 \/ i \in 1 .. Len(s)  BY <1>1
      <2> QED  BY <1>1, <2>1 DEF Times
<1>3. Times(s) \subseteq Times(Append(s, e))
      <2>1. \A i \in DOMAIN s : i \in DOMAIN Append(s, e) /\ s[i] = Append(s, e)[i]  BY <1>1
      <2> QED  BY <2>1 DEF Times
<1>4. e \in Times(Append(s, e))
      <2>1. Len(s) + 1 \in DOMAIN Append(s, e)  BY <1>1
      <2> QED  BY <1>1, <2>1 DEF Times
<1> QED  BY <1>2, <1>3, <1>4 DEF Times

(* An index past the first m of m + n is one of the last n.                *)
LEMMA IndexPast ==
    ASSUME NEW m \in Nat, NEW n \in Nat, NEW k \in 1 .. m + n, k \notin 1 .. m
    PROVE  k - m \in 1 .. n /\ m + (k - m) = k
OBVIOUS

LEMMA AscendingAppend ==
    ASSUME NEW s \in Seq(Nat), NEW e \in Nat, Ascending(s), \A t \in Times(s) : t < e
    PROVE  Ascending(Append(s, e))
<1>1. \A i \in DOMAIN s : s[i] < e  BY DEF Times
<1> QED  BY <1>1 DEF Ascending

LEMMA ConcatAppend ==
    ASSUME NEW S, NEW h \in Seq(S), NEW s \in Seq(S), NEW e \in S
    PROVE  h \o Append(s, e) = Append(h \o s, e)
<1>1. Append(s, e) = s \o <<e>> /\ <<e>> \in Seq(S)  BY AppendIsConcat
<1>2. h \o (s \o <<e>>) = (h \o s) \o <<e>>  BY <1>1, ConcatAssociative
<1>3. h \o s \in Seq(S)  BY ConcatProperties
<1>4. (h \o s) \o <<e>> = Append(h \o s, e)  BY <1>3, AppendIsConcat
<1> QED  BY <1>1, <1>2, <1>4

(* What precedes s in an ascending sequence is all that is not in s.       *)
LEMMA PrefixOfAscending ==
    ASSUME NEW h \in Seq(Nat), NEW s \in Seq(Nat), Ascending(h \o s)
    PROVE  Ascending(h) /\ Times(h) = Times(h \o s) \ Times(s) /\ Times(s) \subseteq Times(h \o s)
<1> DEFINE all == h \o s
<1>1. /\ Len(h) \in Nat /\ Len(s) \in Nat /\ DOMAIN h = 1 .. Len(h) /\ DOMAIN s = 1 .. Len(s)
      /\ DOMAIN all = 1 .. Len(h) + Len(s) /\ all \in Seq(Nat)
      BY ConcatProperties
<1>2. /\ \A i \in 1 .. Len(h) : i \in DOMAIN all /\ all[i] = h[i]
      /\ \A i \in 1 .. Len(s) : Len(h) + i \in DOMAIN all /\ all[Len(h) + i] = s[i]
      BY <1>1, ConcatProperties
<1> HIDE DEF all
<1>3. \A i, j \in DOMAIN all : i < j => all[i] < all[j]  BY DEF Ascending, all
<1>4. Ascending(h)  BY <1>1, <1>2, <1>3 DEF Ascending
<1>5. ASSUME NEW i \in DOMAIN h PROVE h[i] \in Times(all) \ Times(s)
      <2>1. h[i] \in Times(all)  BY <1>1, <1>2 DEF Times
      <2>2. ASSUME NEW j \in DOMAIN s PROVE h[i] # s[j]
            <3>1. i \in 1 .. Len(h) /\ j \in 1 .. Len(s) /\ i < Len(h) + j  BY <1>1
            <3>2. i \in DOMAIN all /\ Len(h) + j \in DOMAIN all  BY <1>2, <3>1
            <3>3. all[i] < all[Len(h) + j]  BY <1>3, <3>1, <3>2
            <3>4. h[i] < s[j]  BY <1>2, <3>1, <3>3
            <3>5. h[i] \in Nat /\ s[j] \in Nat  BY ElementOfSeq, <1>1, <3>1
            <3> QED  BY <3>4, <3>5
      <2> QED  BY <2>1, <2>2 DEF Times
<1>6. ASSUME NEW k \in DOMAIN all, all[k] \notin Times(s) PROVE all[k] \in Times(h)
      <2>1. CASE k \in 1 .. Len(h)  BY <1>1, <1>2, <2>1 DEF Times
      <2>2. CASE k \notin 1 .. Len(h)
            <3>0. k \in 1 .. Len(h) + Len(s)  BY <1>1
            <3>1. k - Len(h) \in 1 .. Len(s) /\ Len(h) + (k - Len(h)) = k  BY <1>1, <2>2, <3>0, IndexPast
            <3>2. all[k] = s[k - Len(h)]  BY <1>2, <3>1
            <3> QED  BY <1>1, <1>6, <3>1, <3>2 DEF Times
      <2> QED  BY <2>1, <2>2
<1>7. Times(s) \subseteq Times(all)  BY <1>1, <1>2 DEF Times
<1> QED  BY <1>4, <1>5, <1>6, <1>7 DEF all, Times

-----------------------------------------------------------------------------
OnceInv == /\ IInv /\ ExactlyOnce
           /\ dropped \subseteq reported
           /\ Running => taken \notin reported

LEMMA InitOnce == Init => OnceInv
<1> SUFFICES ASSUME Init PROVE OnceInv  OBVIOUS
<1>1. Kept = << >>  BY DEF Init, Kept
<1>2. Times(<< >>) = {} /\ Ascending(<< >>)  BY DEF Times, Ascending
<1> QED  BY <1>1, <1>2, InitInv DEF Init, OnceInv, ExactlyOnce, Running

LEMMA NextOnce == OnceInv /\ [Next]_vars => OnceInv'
<1> SUFFICES ASSUME OnceInv, [Next]_vars PROVE OnceInv'  OBVIOUS
<1>0. IInv /\ IInv'  BY NextInv DEF OnceInv
<1>T. store \in Seq(1 .. MaxReports) /\ host \in Seq(1 .. MaxReports) /\ MaxReports \in Nat
      BY <1>0, BoundAssumption DEF IInv, RecordsOK
<1>S. store \in Seq(Nat) /\ host \in Seq(Nat) /\ Kept \in Seq(Nat) /\ Kept \in Seq(1 .. MaxReports)
      BY <1>T, ConcatProperties DEF Kept
<1>U. ASSUME UNCHANGED <<store, host, reported, dropped>>, Running' => Running /\ taken' = taken
      PROVE  OnceInv'
      BY <1>0, <1>U DEF OnceInv, ExactlyOnce, Kept
<1>1. CASE StartList
      <2>1. taken + 1 \notin reported
            BY <1>0 DEF IInv, RecordsOK
      <2>2. UNCHANGED <<store, host, reported, dropped>> /\ taken' = taken + 1  BY <1>1 DEF StartList
      <2> QED  BY <1>0, <2>1, <2>2 DEF OnceInv, ExactlyOnce, Kept
<1>2. CASE LastEvents
      <2>1. /\ Running /\ Current.time = taken /\ taken \in 1 .. MaxReports /\ taken \notin reported
            BY <1>0, <1>2 DEF LastEvents, OnceInv, IInv, Listed, Running, Stopped
      <2>2. ~Running' /\ host' = host  BY <1>2 DEF LastEvents, Running
      <2>3. CASE UNCHANGED <<store, reported, dropped>>  BY <1>U, <2>2, <2>3
      <2>4. CASE Insert /\ FullStore
            <3>1. store' = store /\ reported' = reported \cup {taken} /\ dropped' = dropped \cup {taken}
                  BY <2>1, <2>4 DEF Insert
            <3>2. reported' \ dropped' = reported \ dropped  BY <2>1, <3>1 DEF OnceInv
            <3> QED  BY <1>0, <2>2, <3>1, <3>2 DEF OnceInv, ExactlyOnce, Kept
      <2>5. CASE Insert /\ ~FullStore
            <3>1. store' = Append(store, taken) /\ reported' = reported \cup {taken} /\ dropped' = dropped
                  BY <2>1, <2>5 DEF Insert
            <3>2. Kept' = Append(Kept, taken)  BY <1>T, <2>1, <2>2, <3>1, ConcatAppend DEF Kept
            <3>0. Kept \in Seq(Nat) /\ taken \in Nat  BY <1>S, <2>1
            <3>3. Times(Kept') = Times(Kept) \cup {taken}  BY <3>0, <3>2, TimesOfAppend
            <3>4. \A t \in Times(Kept) : t < taken
                  <4>1. Times(Kept) \subseteq reported /\ reported \subseteq 1 .. taken
                        BY <1>0 DEF OnceInv, ExactlyOnce, IInv, RecordsOK
                  <4>2. \A t \in 1 .. taken : t # taken => t < taken  BY <2>1
                  <4> QED  BY <2>1, <4>1, <4>2
            <3>5. Ascending(Kept')
                  BY <1>S, <2>1, <3>2, <3>4, AscendingAppend DEF OnceInv, ExactlyOnce
            <3>6. reported' \ dropped' = (reported \ dropped) \cup {taken}
                  BY <2>1, <3>1 DEF OnceInv
            <3> QED  BY <1>0, <2>2, <3>1, <3>3, <3>5, <3>6 DEF OnceInv, ExactlyOnce
      <2> QED  BY <1>2, <2>3, <2>4, <2>5 DEF LastEvents
<1>3. CASE Dump
      <2>1. Kept' = Kept
            <3>1. Kept' = (host \o store) \o << >>  BY <1>3 DEF Dump, Kept
            <3> QED  BY <1>S, <3>1, ConcatEmptySeq DEF Kept
      <2>2. UNCHANGED <<reported, dropped, taken, stage>>  BY <1>3 DEF Dump, where
      <2> QED  BY <1>0, <2>1, <2>2 DEF OnceInv, ExactlyOnce, Running
<1>4. CASE Timesync
      <2>1. Kept' = host
            <3>1. Kept' = host \o << >>  BY <1>4 DEF Timesync, Kept
            <3> QED  BY <1>T, <3>1, ConcatEmptySeq
      <2>2. /\ Ascending(host) /\ Times(host) = Times(Kept) \ Times(store)
            /\ Times(store) \subseteq Times(Kept)
            BY <1>S, PrefixOfAscending DEF Kept, OnceInv, ExactlyOnce
      <2>3. dropped' = dropped \cup Times(store) /\ UNCHANGED <<reported, taken, stage>>
            BY <1>4 DEF Timesync, where
      <2>4. reported' \ dropped' = Times(host)  BY <2>2, <2>3 DEF OnceInv, ExactlyOnce
      <2>5. dropped' \subseteq reported'  BY <2>2, <2>3 DEF OnceInv, ExactlyOnce
      <2> QED  BY <1>0, <2>1, <2>2, <2>3, <2>4, <2>5 DEF OnceInv, ExactlyOnce, Running
<1>5. CASE Alarm \/ NoAlarm \/ NextRound \/ Skip \/ CutShort
      BY <1>U, <1>5 DEF Alarm, NoAlarm, NextRound, Skip, CutShort, records, Running
<1>6. CASE Fill("last") \/ Fill("doze")
      BY <1>U, <1>6 DEF Fill, records, Running, Stopped
<1>7. CASE SessionEnd \/ Wake \/ Ready \/ GiveUp \/ ConfigureFields \/ ConfigureIntervals
      BY <1>U, <1>7 DEF SessionEnd, Wake, Ready, GiveUp, ConfigureFields, ConfigureIntervals,
                        records, where, Running
<1>8. CASE UNCHANGED vars  BY <1>U, <1>8 DEF vars, records, where, Running
<1> QED  BY <1>1, <1>2, <1>3, <1>4, <1>5, <1>6, <1>7, <1>8 DEF Next, Program

(* Every report that was inserted is at the host or in the store, once and *)
(* in the order of time, unless it was dropped: for any number of reports, *)
(* records, packets and sets of fields.                                    *)
THEOREM ReportsExactlyOnce == Spec => []ExactlyOnce
<1>1. OnceInv => ExactlyOnce  BY DEF OnceInv
<1> QED  BY <1>1, InitOnce, NextOnce, PTL DEF Spec

-----------------------------------------------------------------------------
(* How full the ring is: with each new report it holds one more, or is     *)
(* full and loses one; report_poplast takes one, if there is any.          *)
LEMMA RemainderIs ==
    \A k \in 0 .. MAX_REPORTS - 1 : k % MAX_REPORTS = k /\ (k - MAX_REPORTS) % MAX_REPORTS = k
BY MaxReportsAssumption

LEMMA CountIs ==
    \A i, r \in ReportIndex :
       (i - r) % MAX_REPORTS = (IF i >= r THEN i - r ELSE i - r + MAX_REPORTS)
<1> TAKE i, r \in ReportIndex
<1>1. MAX_REPORTS \in Nat /\ i \in 0 .. MAX_REPORTS - 1 /\ r \in 0 .. MAX_REPORTS - 1
      BY MaxReportsAssumption DEF ReportIndex
<1>2. CASE i >= r  BY <1>1, <1>2, RemainderIs
<1>3. CASE ~(i >= r)
      <2>1. i - r + MAX_REPORTS \in 0 .. MAX_REPORTS - 1
            /\ (i - r + MAX_REPORTS) - MAX_REPORTS = i - r
            BY <1>1, <1>3
      <2> QED  BY <1>3, <2>1, RemainderIs
<1> QED  BY <1>2, <1>3

LEMMA NextIs == \A i \in ReportIndex : NextIndex(i) = IF i = MAX_REPORTS - 1 THEN 0 ELSE i + 1
<1> TAKE i \in ReportIndex
<1>1. i \in 0 .. MAX_REPORTS - 1 /\ MAX_REPORTS \in Nat  BY MaxReportsAssumption DEF ReportIndex
<1>2. CASE i = MAX_REPORTS - 1
      <2>1. (i + 1) - MAX_REPORTS = 0 /\ i + 1 = MAX_REPORTS  BY <1>1, <1>2
      <2>2. MAX_REPORTS % MAX_REPORTS = 0  BY MaxReportsAssumption
      <2> QED  BY <1>2, <2>1, <2>2 DEF NextIndex
<1>3. CASE i # MAX_REPORTS - 1
      <2>1. i + 1 \in 0 .. MAX_REPORTS - 1  BY <1>1, <1>3
      <2> QED  BY <1>3, <2>1, RemainderIs DEF NextIndex
<1> QED  BY <1>2, <1>3

LEMMA NewCount ==
    ASSUME QueueOK, NEW r, ReportNew(r)
    PROVE  ReportCount' <= ReportCount + 1
<1>1. /\ report_list_insert \in ReportIndex /\ report_list_remove \in ReportIndex
      /\ report_list_insert' \in ReportIndex /\ report_list_remove' \in ReportIndex
      /\ MAX_REPORTS \in Nat
      BY IndexNext, MaxReportsAssumption DEF QueueOK, ReportNew
<1>2. /\ report_list_insert' = NextIndex(report_list_insert)
      /\ report_list_remove' = IF NextIndex(report_list_insert) = report_list_remove
                               THEN NextIndex(report_list_remove) ELSE report_list_remove
      BY DEF ReportNew, Overflow
<1>3. ReportCount = IF report_list_insert >= report_list_remove THEN report_list_insert - report_list_remove
                    ELSE report_list_insert - report_list_remove + MAX_REPORTS
      BY <1>1, CountIs DEF ReportCount
<1>4. ReportCount' = IF report_list_insert' >= report_list_remove' THEN report_list_insert' - report_list_remove'
                     ELSE report_list_insert' - report_list_remove' + MAX_REPORTS
      BY <1>1, CountIs DEF ReportCount
<1> QED  BY <1>1, <1>2, <1>3, <1>4, NextIs, MaxReportsAssumption DEF ReportIndex

LEMMA PopCount ==
    ASSUME QueueOK, ReportPopLast
    PROVE  ReportCount' = IF ReportCount = 0 THEN 0 ELSE ReportCount - 1
<1>1. /\ report_list_insert \in ReportIndex /\ report_list_remove \in ReportIndex
      /\ report_list_insert' = report_list_insert /\ report_list_remove' \in ReportIndex
      /\ MAX_REPORTS \in Nat
      BY IndexNext, MaxReportsAssumption DEF QueueOK, ReportPopLast
<1>2. report_list_remove' = IF report_list_remove = report_list_insert THEN report_list_remove
                            ELSE NextIndex(report_list_remove)
      BY DEF ReportPopLast
<1>3. ReportCount = IF report_list_insert >= report_list_remove THEN report_list_insert - report_list_remove
                    ELSE report_list_insert - report_list_remove + MAX_REPORTS
      BY <1>1, CountIs DEF ReportCount
<1>4. ReportCount' = IF report_list_insert >= report_list_remove' THEN report_list_insert - report_list_remove'
                     ELSE report_list_insert - report_list_remove' + MAX_REPORTS
      BY <1>1, CountIs DEF ReportCount
<1> QED  BY <1>1, <1>2, <1>3, <1>4, NextIs, MaxReportsAssumption DEF ReportIndex

(* A run has one report of its own in the ring; when a packet has emptied  *)
(* its list that packet accounts for it.                                   *)
Emptied == lists[TheList] = None
LeftInv == /\ IInv
           /\ (~Running \/ Emptied) => ReportCount <= packets
           /\ ReportCount <= packets + 1

LEMMA CountType == \A i, r \in ReportIndex : (i - r) % MAX_REPORTS \in Nat
BY CountIs, MaxReportsAssumption DEF ReportIndex

LEMMA InitLeft == Init => LeftInv
<1> SUFFICES ASSUME Init PROVE LeftInv  OBVIOUS
<1>1. 0 \in ReportIndex /\ report_list_insert = 0 /\ report_list_remove = 0 /\ packets = 0
      BY MaxReportsAssumption DEF Init, ReportInit, ReportIndex
<1>2. ReportCount = 0  BY <1>1, CountIs DEF ReportCount
<1> QED  BY <1>1, <1>2, InitInv DEF LeftInv

LEMMA NextLeft == LeftInv /\ [Next]_vars => LeftInv'
<1> SUFFICES ASSUME LeftInv, [Next]_vars PROVE LeftInv'  OBVIOUS
<1>0. IInv /\ IInv' /\ QueueOK /\ QueueOK' /\ packets \in Nat
      BY NextInv, BoundAssumption DEF LeftInv, IInv, Rest
<1>1. ReportCount \in Nat /\ ReportCount' \in Nat  BY <1>0, CountType DEF QueueOK, ReportCount
(* Steps that leave the ring alone.                                        *)
<1>A. ASSUME UNCHANGED <<report_list_insert, report_list_remove>>
      PROVE  ReportCount' = ReportCount
      BY <1>A DEF ReportCount
<1>B. ASSUME ReportCount' = ReportCount, packets' = packets,
             ~Running' \/ Emptied' => ~Running \/ Emptied
      PROVE  LeftInv'
      BY <1>0, <1>1, <1>B DEF LeftInv
<1>C. ASSUME ReportCount' = ReportCount, packets' = packets + 1
      PROVE  LeftInv'
      BY <1>0, <1>1, <1>C DEF LeftInv
<1>2. CASE StartList
      <2>1. PICK r : ReportNew(r)  BY <1>2 DEF StartList
      <2>2. ReportCount' <= ReportCount + 1  BY <1>0, <2>1, NewCount
      <2>3. packets' = packets /\ ~Running /\ ~Emptied'
            BY <1>2 DEF StartList, config, Emptied, TheList
      <2>4. Running'  BY <1>2 DEF StartList, Running, Stopped
      <2> QED  BY <1>0, <1>1, <2>2, <2>3, <2>4 DEF LeftInv
<1>3. CASE LastEvents
      <2>1. ReportCount' = IF ReportCount = 0 THEN 0 ELSE ReportCount - 1
            BY <1>0, <1>3, PopCount DEF LastEvents
      <2>2. packets' = packets  BY <1>3 DEF LastEvents, config
      <2>3. ReportCount <= packets + 1  BY DEF LeftInv
      <2>4. ReportCount' <= packets'  BY <1>0, <1>1, <2>1, <2>2, <2>3
      <2> QED  BY <1>0, <1>1, <2>2, <2>4 DEF LeftInv
<1>4. CASE CutShort
      <2>1. Emptied /\ packets' = packets  BY <1>4 DEF CutShort, Emptied, config
      <2>2. ReportCount' = ReportCount  BY <1>4, <1>A DEF CutShort, queue
      <2> QED  BY <1>B, <2>1, <2>2
<1>5. CASE Alarm \/ NoAlarm \/ NextRound \/ Skip
      <2>1. ~Running /\ ~Running'
            BY <1>0, <1>5 DEF Alarm, NoAlarm, NextRound, Skip, Running, IInv, Listed
      <2>2. packets' = packets  BY <1>5 DEF Alarm, NoAlarm, NextRound, Skip, config
      <2>3. ReportCount' = ReportCount
            BY <1>5, <1>A DEF Alarm, NoAlarm, NextRound, Skip, queue
      <2> QED  BY <1>B, <2>1, <2>2, <2>3
<1>6. CASE Fill("last") \/ Fill("doze")
      <2>1. Running /\ Running'  BY <1>6 DEF Fill, Running, Stopped
      <2>2. packets' = packets /\ Emptied' = Emptied  BY <1>6 DEF Fill, config, Emptied, TheList
      <2>3. ReportCount' = ReportCount  BY <1>6, <1>A DEF Fill, SetFields, queue
      <2> QED  BY <1>B, <2>1, <2>2, <2>3
<1>7. CASE Dump \/ SessionEnd \/ Wake \/ Ready \/ GiveUp
      <2>1. UNCHANGED <<queue, config, where>>
            BY <1>7 DEF Dump, SessionEnd, Wake, Ready, GiveUp
      <2>2. Running' = Running /\ Emptied' = Emptied /\ packets' = packets
            BY <2>1 DEF Running, Emptied, TheList, config, where
      <2>3. ReportCount' = ReportCount  BY <2>1, <1>A DEF queue
      <2> QED  BY <1>B, <2>2, <2>3
<1>8. CASE Timesync \/ ConfigureFields \/ ConfigureIntervals
      <2>1. packets' = packets + 1  BY <1>8 DEF Timesync, ConfigureFields, ConfigureIntervals, Receiving
      <2>2. ReportCount' = ReportCount
            BY <1>8, <1>A DEF Timesync, ConfigureFields, ConfigureIntervals, queue
      <2> QED  BY <1>C, <2>1, <2>2
<1>9. CASE UNCHANGED vars
      <2>1. UNCHANGED <<queue, config, where>>  BY <1>9 DEF vars
      <2>2. Running' = Running /\ Emptied' = Emptied /\ packets' = packets
            BY <2>1 DEF Running, Emptied, TheList, config, where
      <2>3. ReportCount' = ReportCount  BY <2>1, <1>A DEF queue
      <2> QED  BY <1>B, <2>2, <2>3
<1> QED  BY <1>2, <1>3, <1>4, <1>5, <1>6, <1>7, <1>8, <1>9 DEF Next, Program

(* No more reports stay in the ring than packets came: only a run that a   *)
(* configure packet cuts short leaves one (scheduler_reset, logic.c:105).  *)
THEOREM LeftOversAreFew == Spec => []FewLeftOver
<1>1. LeftInv => FewLeftOver  BY DEF LeftInv, FewLeftOver
<1> QED  BY <1>1, InitLeft, NextLeft, PTL DEF Spec
=============================================================================
