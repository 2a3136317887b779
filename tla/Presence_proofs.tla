--------------------------- MODULE Presence_proofs ---------------------------
(***************************************************************************)
(* For any clock, release time and number of timesyncs: what the PIR       *)
(* sensor's accumulators hold, which moves of its pin may be missed, and   *)
(* that reports of changes alternate.  The sum of the accumulators is      *)
(* bound to the latched time, as the next difference of times is taken     *)
(* from there (ShareAtMostOne says so); that no other move is missed needs *)
(* to know where the port's latch stands (Latched); that no report repeats *)
(* the one before, what int_interrupt_started says of it (Told).           *)
(***************************************************************************)
EXTENDS Presence, TLAPS

(* Remainders of numbers at most one turn away.                            *)
LEMMA ModSmall == ASSUME NEW x \in Time PROVE x % Wrap = x
BY TimeAssumption DEF Time

LEMMA ModBelow == ASSUME NEW x \in -Wrap .. -1 PROVE x % Wrap = x + Wrap
BY TimeAssumption

LEMMA ModType == ASSUME NEW x \in Int PROVE x % Wrap \in Time
BY TimeAssumption DEF Time

(* A truth value is a Boolean.                                             *)
LEMMA Truth ==
    /\ \A x, S : (x \in S) \in BOOLEAN
    /\ \A a, b \in BOOLEAN : (a \/ b) \in BOOLEAN /\ (a /\ b) \in BOOLEAN /\ (a # b) \in BOOLEAN
                            /\ (a = b) \in BOOLEAN
OBVIOUS

(* A time d counts back differs from now by d, ...                         *)
LEMMA Ago ==
    ASSUME NEW n \in Time, NEW d \in Time, NEW l, l = (n - d) % Wrap
    PROVE  (n - l) % Wrap = d
<1>1. CASE d <= n
      <2>1. n - d \in Time  BY <1>1, TimeAssumption DEF Time
      <2>2. l = n - d  BY <2>1, ModSmall
      <2>3. n - l = d  BY <2>1, <2>2, TimeAssumption DEF Time
      <2>4. d % Wrap = d  BY ModSmall
      <2> QED  BY <2>3, <2>4
<1>2. CASE ~(d <= n)
      <2>1. n - d \in -Wrap .. -1  BY <1>2, TimeAssumption DEF Time
      <2>2. l = n - d + Wrap  BY <2>1, ModBelow
      <2>3. n - l = d - Wrap /\ d - Wrap \in -Wrap .. -1  BY <2>1, <2>2, TimeAssumption DEF Time
      <2>4. (d - Wrap) % Wrap = d - Wrap + Wrap  BY <2>3, ModBelow
      <2> QED  BY <2>3, <2>4, TimeAssumption DEF Time
<1> QED  BY <1>1, <1>2 DEF Time

(* ... and a count later it is d + 1 back.                                 *)
LEMMA CountOn ==
    ASSUME NEW n \in Time, NEW d \in Time, d + 1 < Wrap
    PROVE  (((n + 1) % Wrap) - (d + 1)) % Wrap = (n - d) % Wrap
<1>1. CASE n + 1 < Wrap
      <2>1. n + 1 \in Time  BY <1>1, TimeAssumption DEF Time
      <2>2. ((n + 1) % Wrap) - (d + 1) = n - d  BY <2>1, ModSmall, TimeAssumption DEF Time
      <2> QED  BY <2>2
<1>2. CASE n + 1 = Wrap
      <2>1. (n + 1) % Wrap = 0  BY <1>2, TimeAssumption
      <2>2. n - d \in Time /\ -(d + 1) \in -Wrap .. -1 /\ n - d = -(d + 1) + Wrap
            BY <1>2, TimeAssumption DEF Time
      <2>3. (0 - (d + 1)) % Wrap = n - d
            <3>1. 0 - (d + 1) = -(d + 1)  BY DEF Time
            <3> QED  BY <2>2, <3>1, ModBelow
      <2> QED  BY <2>1, <2>2, <2>3, ModSmall
<1> QED  BY <1>1, <1>2, TimeAssumption DEF Time

(* What is left of s counts when a and b of them are accounted for.        *)
LEMMA Rest ==
    ASSUME NEW a \in Time, NEW b \in Time, NEW s \in Time, a + b <= s
    PROVE  /\ s - a - b \in Time /\ a + (s - a - b) \in Time /\ b + (s - a - b) \in Time
           /\ a + (s - a - b) + b = s /\ a + (b + (s - a - b)) = s
           /\ a + b = s => s - a - b = 0
BY TimeAssumption DEF Time

(* Every reading of the clock is a time.                                   *)
LEMMA ReadingType == ASSUME now \in Time, NEW t \in Reading PROVE t \in Time
<1>1. /\ now - Second \in Int /\ now + Second - 1 \in Int  BY TimeAssumption DEF Time
<1> QED  BY <1>1, ModType DEF Reading

(* The port's latch follows the pin, but for a sensor just woken, and when *)
(* the flag is about to be cleared the callback has seen the pin as it is, *)
(* unless it has moved since.                                              *)
Latched == /\ ~awake => ~flag
           /\ awake /\ (flag \/ ~missed) => lat = pin
           /\ pc = "clear" => awake /\ (missed \/ seen = pin)

(* Somebody who was told to be there has a time of coming that is not 0,   *)
(* unless it was read as 0.                                                *)
Told == (presence <=> since # Nobody \/ zeroed) /\ (zeroed => since = Nobody)

IInv == TypeOK /\ ShareAtMostOne /\ NoOtherMoveMissed /\ Latched /\ Told /\ ReportsAlternate

LEMMA InitInv == Init => IInv
<1> SUFFICES ASSUME Init PROVE IInv  OBVIOUS
<1>1. 0 \in Time /\ 0 \in 0 .. Wrap /\ 0 \in 0 .. MaxSyncs /\ Nobody \in Nobody .. Release + 1 /\ Nobody = Nobody
      BY TimeAssumption, BoundAssumption DEF Time, Nobody
<1>2. (0 - (0 - 0 - 0)) % Wrap = 0  BY <1>1, ModSmall
<1>3. TypeOK
      <2>1. missed \in BOOLEAN  BY Truth, Zenon DEF Init
      <2>2. PICK f \in SUBSET Field : Requested(f) /\ awake = ("OCCUPANCY" \in f)  BY DEF Init
      <2>3. awake \in BOOLEAN /\ using_monitor_list \in BOOLEAN  BY <2>2, Truth, Zenon DEF Requested
      <2>4. scheduled \subseteq Field \cup {"REPORTING"}  BY <2>2 DEF Requested
      <2> QED  BY <1>1, <2>1, <2>3, <2>4 DEF Init, TypeOK
<1>4. ShareAtMostOne  BY <1>2 DEF Init, ShareAtMostOne
<1> QED  BY <1>3, <1>4 DEF Init, IInv, NoOtherMoveMissed, Latched, Told, ReportsAlternate

-----------------------------------------------------------------------------
(* The accumulators start anew.                                            *)
LEMMA ZeroInv ==
    ASSUME IInv, NEW t \in Reading, Zero(t)
    PROVE  /\ now' \in Time /\ pir_accH' \in Time /\ pir_accL' \in Time /\ pir_latch' \in Time
           /\ span' \in 0 .. Wrap /\ ShareAtMostOne'
<1>1. t \in Time /\ 0 \in Time /\ now \in Time /\ now' = now
      BY ReadingType, TimeAssumption DEF IInv, TypeOK, Time, Zero
<1>2. span' \in 0 .. Wrap  BY TimeAssumption DEF Zero, Reliable
<1>3. ASSUME span' < Wrap PROVE t = now /\ span' = 0  BY <1>3, TimeAssumption DEF Zero, Reliable
<1>4. (now - (0 - 0 - 0)) % Wrap = now
      <2>1. now - (0 - 0 - 0) = now  BY <1>1 DEF Time
      <2> QED  BY <1>1, <2>1, ModSmall
<1>5. ShareAtMostOne'
      BY <1>1, <1>3, <1>4 DEF ShareAtMostOne, Zero
<1> QED  BY <1>1, <1>2, <1>5 DEF Zero

(* The callback adds the time since the latch to one of them.              *)
LEMMA LookShare ==
    ASSUME IInv, Look
    PROVE  /\ now' \in Time /\ pir_accH' \in Time /\ pir_accL' \in Time /\ pir_latch' \in Time
           /\ span' \in 0 .. Wrap /\ ShareAtMostOne'
<1> DEFINE tdiff(t) == (t - pir_latch) % Wrap
<1>0. /\ now \in Time /\ pir_accH \in Time /\ pir_accL \in Time /\ pir_latch \in Time
      /\ span \in 0 .. Wrap
      BY DEF IInv, TypeOK
<1>1. PICK t \in Reading :
          /\ pir_accL' = IF pin THEN (pir_accL + tdiff(t)) % Wrap ELSE pir_accL
          /\ pir_accH' = IF pin THEN pir_accH ELSE (pir_accH + tdiff(t)) % Wrap
          /\ pir_latch' = t /\ span' = Reliable(t, span)
      BY DEF Look
<1>2. now' = now  BY DEF Look
<1>3. t \in Time  BY <1>0, ReadingType
<1>4. tdiff(t) \in Time
      <2>1. t - pir_latch \in Int  BY <1>0, <1>3 DEF Time
      <2> QED  BY <2>1, ModType
<1>5. (pir_accL + tdiff(t)) % Wrap \in Time /\ (pir_accH + tdiff(t)) % Wrap \in Time
      <2>1. pir_accL + tdiff(t) \in Int /\ pir_accH + tdiff(t) \in Int
            <3> HIDE DEF tdiff
            <3> QED  BY <1>0, <1>4 DEF Time
      <2> QED  BY <2>1, ModType
<1>6. /\ pir_accH' \in Time /\ pir_accL' \in Time /\ span' \in 0 .. Wrap
      BY <1>0, <1>1, <1>5, TimeAssumption DEF Reliable
<1>7. ASSUME span' < Wrap
      PROVE  pir_accH' + pir_accL' <= span' /\ pir_latch' = (now' - (span' - pir_accH' - pir_accL')) % Wrap
      <2>1. t = now /\ span' = span  BY <1>1, <1>7, TimeAssumption DEF Reliable
      <2> DEFINE d == span - pir_accH - pir_accL
      <2>2. pir_accH + pir_accL <= span /\ pir_latch = (now - d) % Wrap
            BY <1>7, <2>1 DEF IInv, ShareAtMostOne
      <2>3. span \in Time
            <3>1. span < Wrap  BY <1>7, <2>1
            <3> QED  BY <1>0, <3>1, TimeAssumption DEF Time
      <2>4. /\ d \in Time /\ pir_accH + d \in Time /\ pir_accL + d \in Time
            /\ pir_accH + d + pir_accL = span /\ pir_accH + (pir_accL + d) = span
            BY <1>0, <2>2, <2>3, Rest
      <2> HIDE DEF d
      <2>5. tdiff(t) = d  BY <1>0, <2>1, <2>2, <2>4, Ago
      <2> HIDE DEF tdiff
      <2>6. (pir_accL + d) % Wrap = pir_accL + d /\ (pir_accH + d) % Wrap = pir_accH + d
            BY <2>4, ModSmall
      <2>7. pir_accH' + pir_accL' = span
            <3>1. CASE pin  BY <1>1, <2>4, <2>5, <2>6, <3>1
            <3>2. CASE ~pin  BY <1>1, <2>4, <2>5, <2>6, <3>2
            <3> QED  BY <3>1, <3>2
      <2>8. span - pir_accH' - pir_accL' = 0 /\ pir_accH' + pir_accL' <= span
            <3>1. span <= span  BY <1>0
            <3>2. pir_accH' + pir_accL' <= span  BY <2>7, <3>1
            <3>3. pir_accH' \in Time /\ pir_accL' \in Time  BY <1>6
            <3>4. pir_accH' + pir_accL' = span => span - pir_accH' - pir_accL' = 0
                  BY <2>3, <3>2, <3>3, Rest
            <3> QED  BY <2>7, <3>2, <3>4
      <2>9. (now' - 0) % Wrap = now  BY <1>0, <1>2, ModSmall DEF Time
      <2> QED  BY <1>1, <1>2, <2>1, <2>8, <2>9
<1> QED  BY <1>0, <1>1, <1>2, <1>3, <1>6, <1>7 DEF ShareAtMostOne

(* The clock counts.                                                       *)
LEMMA TickShare ==
    ASSUME IInv, Tick
    PROVE  now' \in Time /\ span' \in 0 .. Wrap /\ ShareAtMostOne'
<1>0. /\ now \in Time /\ pir_accH \in Time /\ pir_accL \in Time /\ span \in 0 .. Wrap /\ Wrap \in Nat \ {0}
      BY TimeAssumption DEF IInv, TypeOK
<1>1. now' \in Time
      <2>1. now + 1 \in Int  BY <1>0 DEF Time
      <2> QED  BY <2>1, ModType DEF Tick
<1>2. span' \in 0 .. Wrap  BY <1>0 DEF Tick, Upto
<1>3. ASSUME span' < Wrap
      PROVE  pir_accH + pir_accL <= span' /\ pir_latch = (now' - (span' - pir_accH - pir_accL)) % Wrap
      <2>1. span' = span + 1 /\ span + 1 < Wrap  BY <1>0, <1>3 DEF Tick, Upto
      <2> DEFINE d == span - pir_accH - pir_accL
      <2>2. pir_accH + pir_accL <= span /\ pir_latch = (now - d) % Wrap
            BY <1>0, <2>1 DEF IInv, ShareAtMostOne
      <2>3. d \in Time /\ d + 1 < Wrap /\ span' - pir_accH - pir_accL = d + 1
            BY <1>0, <2>1, <2>2 DEF Time
      <2> HIDE DEF d
      <2>4. (((now + 1) % Wrap) - (d + 1)) % Wrap = (now - d) % Wrap  BY <1>0, <2>3, CountOn
      <2>5. UNCHANGED <<pir_accH, pir_accL, pir_latch>> /\ now' = (now + 1) % Wrap  BY DEF Tick
      <2>6. pir_accH + pir_accL <= span'
            BY <1>0, <2>1, <2>2 DEF Time
      <2> QED  BY <2>2, <2>3, <2>4, <2>5, <2>6
<1> QED  BY <1>1, <1>2, <1>3 DEF Tick, ShareAtMostOne

-----------------------------------------------------------------------------
LEMMA NextInv == IInv /\ [Next]_vars => IInv'
<1> SUFFICES ASSUME IInv, [Next]_vars PROVE IInv'  OBVIOUS
<1> USE DEF IInv
<1>S. /\ Started \subseteq Nobody .. Release + 1 /\ Nobody \in Nobody .. Release + 1
      /\ Nobody \notin 0 .. Release + 1
      BY BoundAssumption DEF Started, Nobody
<1>1. CASE PinMoves
      <2>0. pin' \in BOOLEAN /\ lat' \in BOOLEAN /\ flag' \in BOOLEAN /\ missed' \in BOOLEAN
            BY <1>1, Truth, Zenon DEF PinMoves, TypeOK
      <2>1. TypeOK'  BY <1>1, <2>0 DEF PinMoves, TypeOK, share, monitor, told, lists
      <2>2. NoOtherMoveMissed' /\ Latched'
            BY <1>1 DEF PinMoves, TypeOK, NoOtherMoveMissed, Latched
      <2> QED  BY <1>1, <2>1, <2>2 DEF PinMoves, ShareAtMostOne, Told, ReportsAlternate, share, monitor, told
<1>2. CASE Tick
      <2>1. since' \in Nobody .. Release + 1 /\ (since' = Nobody <=> since = Nobody)
            BY <1>2, BoundAssumption DEF Tick, TypeOK, Upto, Nobody
      <2>2. zero' \in BOOLEAN
            <3>1. (zero /\ now' % Second # 0) \in BOOLEAN  BY Zenon
            <3>2. zero' \in BOOLEAN \/ zero' = (zero /\ now' % Second # 0)
                  BY <1>2, Zenon DEF Tick
            <3> QED  BY <3>1, <3>2, Zenon
      <2> QED  BY <1>2, <2>1, <2>2, TickShare
               DEF Tick, TypeOK, NoOtherMoveMissed, Latched, Told, ReportsAlternate, port, told, lists
<1>3. CASE Look
      <2>1. int_bitmask' \subseteq {"H"}  BY <1>3 DEF Look, TypeOK
      <2> QED  BY <1>3, <2>1, LookShare
               DEF Look, TypeOK, NoOtherMoveMissed, Latched, Told, ReportsAlternate, told, lists
<1>4. CASE Clear
      <2>1. TypeOK' /\ NoOtherMoveMissed' /\ Latched'
            BY <1>4 DEF Clear, TypeOK, NoOtherMoveMissed, Latched, share, monitor, told, lists
      <2> QED  BY <1>4, <2>1 DEF Clear, ShareAtMostOne, Told, ReportsAlternate, share, monitor, told
<1>5. CASE WriteShare
      <2>1. PICK t \in Reading : Zero(t)  BY <1>5 DEF WriteShare
      <2>2. zero' = zero  BY <2>1 DEF Zero
      <2> QED  BY <1>5, <2>1, <2>2, ZeroInv
               DEF WriteShare, TypeOK, NoOtherMoveMissed, Latched, Told, ReportsAlternate, port, monitor, told, lists
<1>6. CASE SomebodyMoved
      <2>1. since' \in Nobody .. Release + 1  BY <1>6, <1>S DEF SomebodyMoved
      <2>2. zeroed' \in BOOLEAN  BY <1>6, Truth, Zenon DEF SomebodyMoved
      <2>3. zeroed' <=> since' = Nobody  BY <1>6 DEF SomebodyMoved
      <2>4. presence' = TRUE /\ ~repeated'
            <3>1. CASE since = Nobody  BY <1>6, <3>1 DEF SomebodyMoved, Report, Told, ReportsAlternate
            <3>2. CASE since # Nobody  BY <1>6, <3>2 DEF SomebodyMoved, Told, ReportsAlternate, told, TypeOK
            <3> QED  BY <3>1, <3>2
      <2>5. repeated' \in BOOLEAN
            <3>1. repeated' = (repeated \/ (presence = TRUE /\ ~zeroed)) \/ repeated' = repeated
                  BY <1>6, Zenon DEF SomebodyMoved, Report, told
            <3> QED  BY <3>1, Zenon DEF TypeOK
      <2>6. int_bitmask' = {} /\ UNCHANGED <<port, share, lists, pc, syncs>>  BY <1>6 DEF SomebodyMoved
      <2>7. TypeOK'  BY <2>1, <2>2, <2>4, <2>5, <2>6 DEF TypeOK, port, share, lists
      <2>8. Told' /\ ReportsAlternate'  BY <2>3, <2>4 DEF Told, ReportsAlternate
      <2> QED  BY <2>6, <2>7, <2>8 DEF ShareAtMostOne, NoOtherMoveMissed, Latched, port, share
<1>7. CASE NobodyThere
      <2>1. since # Nobody /\ presence /\ ~zeroed /\ ~repeated
            BY <1>7 DEF NobodyThere, Told, ReportsAlternate
      <2>2. since' = Nobody /\ presence' = FALSE /\ zeroed' = zeroed
            /\ repeated' = (repeated \/ (presence = FALSE /\ ~zeroed))
            BY <1>7, Zenon DEF NobodyThere, Report
      <2>3. repeated' = FALSE  BY <2>1, <2>2, Zenon
      <2>4. UNCHANGED <<int_bitmask, port, share, lists, pc, syncs>>  BY <1>7 DEF NobodyThere
      <2>5. TypeOK'  BY <1>S, <2>2, <2>3, <2>4 DEF TypeOK, port, share, lists
      <2>6. Told' /\ ReportsAlternate'  BY <2>1, <2>2, <2>3 DEF Told, ReportsAlternate
      <2> QED  BY <2>4, <2>5, <2>6 DEF ShareAtMostOne, NoOtherMoveMissed, Latched, port, share
<1>8. ASSUME NEW f \in SUBSET Field, Configure(f) PROVE IInv'
      <2>1. int_bitmask' \subseteq {"H"} /\ scheduled' \subseteq Field \cup {"REPORTING"}
            BY <1>8 DEF Configure, Bits, TypeOK
      <2>2. using_monitor_list' \in BOOLEAN  BY <1>8, Truth, Zenon DEF Configure
      <2>3. CASE ConfigureShare(f)
            <3>1. PICK t \in Reading : Zero(t)  BY <2>3 DEF ConfigureShare
            <3>2. zero' = zero  BY <3>1 DEF Zero
            <3> QED  BY <1>8, <2>1, <2>2, <2>3, <3>1, <3>2, ZeroInv
                     DEF Configure, ConfigureShare, TypeOK, NoOtherMoveMissed, Latched, Told, ReportsAlternate, told
      <2>4. CASE ConfigureChanges(f)
            BY <1>8, <2>1, <2>2, <2>4
            DEF Configure, ConfigureChanges, TypeOK, ShareAtMostOne, NoOtherMoveMissed, Latched, Told,
                ReportsAlternate, port, share, told
      <2>5. CASE ConfigureNone(f)
            BY <1>8, <2>1, <2>2, <2>5
            DEF Configure, ConfigureNone, TypeOK, ShareAtMostOne, NoOtherMoveMissed, Latched, Told,
                ReportsAlternate, share, told
      <2> QED  BY <1>8, <2>3, <2>4, <2>5 DEF Configure
<1>9. CASE ConfigureKeeps
      BY <1>9 DEF ConfigureKeeps, TypeOK, ShareAtMostOne, NoOtherMoveMissed, Latched, Told,
                  ReportsAlternate, port, share, monitor, told
<1>10. CASE Timesync
      <2>1. since' \in Nobody .. Release + 1 /\ (since' = Nobody <=> since = Nobody)
            BY <1>10, BoundAssumption DEF Timesync, Nobody, TypeOK
      <2>2. syncs' \in 0 .. MaxSyncs  BY <1>10, BoundAssumption DEF Timesync, TypeOK
      <2>3. span' = Wrap /\ Wrap \in 0 .. Wrap /\ ~(Wrap < Wrap)  BY <1>10, TimeAssumption DEF Timesync
      <2>4. zero' \in BOOLEAN  BY <1>10, Zenon DEF Timesync
      <2> QED  BY <1>10, <2>1, <2>2, <2>3, <2>4
               DEF Timesync, TypeOK, ShareAtMostOne, NoOtherMoveMissed, Latched, Told, ReportsAlternate, port, told, lists
<1>11. CASE UNCHANGED vars
      BY <1>11 DEF vars, port, share, monitor, told, lists, TypeOK, ShareAtMostOne, NoOtherMoveMissed, Latched, Told,
                   ReportsAlternate
<1> QED  BY <1>1, <1>2, <1>3, <1>4, <1>5, <1>6, <1>7, <1>8, <1>9, <1>10, <1>11 DEF Next

LEMMA AlwaysInv == Spec => []IInv
BY InitInv, NextInv, PTL DEF Spec

(* Every reachable state has the types TypeOK gives it.                    *)
THEOREM Typing == Spec => []TypeOK
<1>1. IInv => TypeOK  BY DEF IInv
<1> QED  BY <1>1, AlwaysInv, PTL

(* The accumulators hold no more than the time that has passed, so a share *)
(* is one at most, as long as the clock is neither set nor misread and     *)
(* less than a turn of it has passed.                                      *)
THEOREM ShareIsAShare == Spec => []ShareAtMostOne
<1>1. IInv => ShareAtMostOne  BY DEF IInv
<1> QED  BY <1>1, AlwaysInv, PTL

(* A move of the pin is missed only while the callback's flag is about to  *)
(* be cleared, or as the first one after the sensor was woken.             *)
THEOREM MovesAreSeen == Spec => []NoOtherMoveMissed
<1>1. IInv => NoOtherMoveMissed  BY DEF IInv
<1> QED  BY <1>1, AlwaysInv, PTL

(* The host is never told again what it was told last, unless the time at  *)
(* which somebody came was read as 0 (amn41121.c:99).                      *)
THEOREM Alternation == Spec => []ReportsAlternate
<1>1. IInv => ReportsAlternate  BY DEF IInv
<1> QED  BY <1>1, AlwaysInv, PTL
=============================================================================
