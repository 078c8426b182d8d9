---------------------- MODULE DiagnosticsManagerProofs ----------------------
(***************************************************************************)
(* ManagerInvariant is inductive, for any number of calls and any bounds.  *)
(* EventPayloadsProofs has the theorems about the whole.                   *)
(***************************************************************************)
EXTENDS DiagnosticsManager, TLAPS
-----------------------------------------------------------------------------
\* What is in a sequence after an Append.
LEMMA ToSetOfAppend ==
  ASSUME NEW S, NEW s \in Seq(S), NEW x \in S
  PROVE  ToSet(Append(s, x)) = ToSet(s) \cup {x}
<1>1. DOMAIN Append(s, x) = 1 .. (Len(s) + 1) /\ DOMAIN s = 1 .. Len(s)
  OBVIOUS
<1>2. /\ \A i \in 1 .. Len(s) : Append(s, x)[i] = s[i]
      /\ Append(s, x)[Len(s) + 1] = x
  OBVIOUS
<1> QED
  BY <1>1, <1>2 DEF ToSet

\* A manager that has just been made has reported nothing.
LEMMA ManagerInitEstablishes == ManagerInit => ManagerInvariant
<1> SUFFICES ASSUME ManagerInit PROVE ManagerInvariant
  OBVIOUS
<1>1. ManagerTypeOK
  BY ManagerAssumption DEF ManagerInit, ManagerTypeOK, Time, StatsEvent, NoEventYet
<1>2. ToSet(streamInits) = {} /\ DOMAIN recordedAt = {} /\ DOMAIN reports = {} /\ reports = << >>
  BY DEF ManagerInit, ToSet
<1>3. ListIsSinceLastEvent /\ NothingFromTheFuture /\ EventIsOfTheList
  BY <1>2 DEF ManagerInit, ListIsSinceLastEvent, NothingFromTheFuture, EventIsOfTheList
<1>4. ReportsAreOfCalls /\ StreamInitsReportedOnce /\ IntervalsFit
  BY <1>2 DEF ReportsAreOfCalls, StreamInitsReportedOnce, IntervalsFit
<1> QED
  BY <1>1, <1>3, <1>4 DEF ManagerInvariant

\* A call of RecordStreamInit: it is new, and later than everything reported.
LEMMA RecordStreamInitPreserves ==
  ASSUME ManagerInvariant, NEW i \in Inits, RecordStreamInit(i)
  PROVE  ManagerInvariant'
<1>1. /\ i \notin DOMAIN recordedAt /\ creating = "no"
      /\ streamInits' = Append(streamInits, i)
      /\ recordedAt' = [j \in DOMAIN recordedAt \cup {i} |-> IF j = i THEN now ELSE recordedAt[j]]
      /\ UNCHANGED <<dataSinceTime, creating, statsEvent, now, setBack, reports>>
  BY DEF RecordStreamInit, Unlocked
<1>2. ToSet(streamInits') = ToSet(streamInits) \cup {i}
  BY <1>1, ToSetOfAppend DEF ManagerInvariant, ManagerTypeOK
<1>3. /\ DOMAIN recordedAt' = DOMAIN recordedAt \cup {i}
      /\ recordedAt'[i] = now
      /\ \A j \in DOMAIN recordedAt : recordedAt'[j] = recordedAt[j]
  BY <1>1
<1>4. ManagerTypeOK'
  BY <1>1, <1>3 DEF ManagerInvariant, ManagerTypeOK
<1>5. ListIsSinceLastEvent' /\ NothingFromTheFuture' /\ EventIsOfTheList'
  BY <1>1, <1>2, <1>3
  DEF ManagerInvariant, ManagerTypeOK, Time, Interval, ListIsSinceLastEvent,
      NothingFromTheFuture, EventIsOfTheList
<1>6. ReportsAreOfCalls'
  BY <1>1, <1>3 DEF ManagerInvariant, ReportsAreOfCalls
<1>7. StreamInitsReportedOnce'
  <2>1. /\ StreamInitsReportedOnce
        /\ \A k \in DOMAIN reports : i \notin ToSet(reports[k].streamInits)
    BY <1>1 DEF ManagerInvariant, ReportsAreOfCalls
  <2>2. \A j \in DOMAIN recordedAt' :
          \/ j \in ToSet(streamInits')
          \/ \E k \in DOMAIN reports : j \in ToSet(reports[k].streamInits)
    BY <1>2, <1>3, <2>1 DEF StreamInitsReportedOnce
  <2>3. \A k \in DOMAIN reports :
          ToSet(reports[k].streamInits) \cap ToSet(streamInits') = {}
    BY <1>2, <2>1 DEF StreamInitsReportedOnce
  <2> QED
    BY <1>1, <2>1, <2>2, <2>3 DEF StreamInitsReportedOnce
<1>8. IntervalsFit'
  BY <1>1, <1>3 DEF ManagerInvariant, ReportsAreOfCalls, IntervalsFit
<1> QED
  BY <1>4, <1>5, <1>6, <1>7, <1>8 DEF ManagerInvariant

\* Taking the lock and making the event change nothing that was reported.
LEMMA MakingTheEventPreserves ==
  ASSUME ManagerInvariant, BeginStats \/ BuildStats
  PROVE  ManagerInvariant'
<1>1. UNCHANGED <<streamInits, dataSinceTime, now, setBack, recordedAt, reports>>
  BY DEF BeginStats, BuildStats
<1>2. ManagerTypeOK'
  BY <1>1 DEF BeginStats, BuildStats, ManagerInvariant, ManagerTypeOK, StatsEvent
<1>3. NothingFromTheFuture' /\ EventIsOfTheList'
  <2>1. CASE BeginStats
    BY <1>1, <2>1
    DEF BeginStats, EventIsOfTheList, NothingFromTheFuture, Interval, ManagerInvariant
  <2>2. CASE BuildStats
    <3>1. /\ creating = "locked" /\ creating' = "built"
          /\ statsEvent' = [dataSinceDate |-> dataSinceTime, creationDate |-> now,
                            streamInits |-> streamInits]
      BY <2>2 DEF BuildStats
    <3>2. Len(reports) + 1 \notin setBack => \A i \in ToSet(streamInits) : recordedAt[i] <= now
      BY <3>1 DEF ManagerInvariant, NothingFromTheFuture, Interval
    <3>3. now \in Nat
      BY DEF ManagerInvariant, ManagerTypeOK, Time
    <3> QED
      BY <1>1, <3>1, <3>2, <3>3 DEF EventIsOfTheList, NothingFromTheFuture, Interval
  <2> QED
    BY <2>1, <2>2
<1>4. ListIsSinceLastEvent' /\ ReportsAreOfCalls'
  BY <1>1 DEF ManagerInvariant, ListIsSinceLastEvent, ReportsAreOfCalls
<1>5. StreamInitsReportedOnce' /\ IntervalsFit'
  BY <1>1 DEF ManagerInvariant, StreamInitsReportedOnce, IntervalsFit
<1> QED
  BY <1>2, <1>3, <1>4, <1>5 DEF ManagerInvariant

\* The event becomes the last of reports as the list becomes empty.
LEMMA ResetStatsPreserves ==
  ASSUME ManagerInvariant, ResetStats
  PROVE  ManagerInvariant'
<1> DEFINE n == Len(reports)
<1>1. /\ creating = "built" /\ creating' = "no"
      /\ streamInits' = << >> /\ dataSinceTime' = statsEvent.creationDate
      /\ reports' = Append(reports, statsEvent) /\ statsEvent' = NoEventYet
      /\ UNCHANGED <<now, setBack, recordedAt>>
  BY DEF ResetStats, SinceTheEvent
<1>2. ManagerTypeOK
  BY DEF ManagerInvariant
<1>3. /\ n \in Nat /\ DOMAIN reports = 1 .. n /\ DOMAIN reports' = 1 .. (n + 1)
      /\ Len(reports') = n + 1
      /\ \A k \in 1 .. n : reports'[k] = reports[k]
      /\ reports'[n + 1] = statsEvent
  BY <1>1, <1>2 DEF ManagerTypeOK
<1>4. ToSet(streamInits') = {}
  BY <1>1 DEF ToSet
<1>5. /\ statsEvent.streamInits = streamInits /\ statsEvent.dataSinceDate = dataSinceTime
      /\ n + 2 \notin setBack => statsEvent.creationDate <= now
      /\ \A i \in ToSet(streamInits) :
           /\ i \in DOMAIN recordedAt
           /\ n + 1 \notin setBack =>
                dataSinceTime <= recordedAt[i] /\ recordedAt[i] <= statsEvent.creationDate
      /\ n > 0 => dataSinceTime = reports[n].creationDate
  <2>1. n > 0 => reports # << >>
    BY <1>2 DEF ManagerTypeOK
  <2> QED
    BY <1>1, <2>1
    DEF ManagerInvariant, EventIsOfTheList, ListIsSinceLastEvent, NothingFromTheFuture, Interval
<1>6. ManagerTypeOK'
  <2>1. statsEvent \in StatsEvent /\ NoEventYet \in StatsEvent
    BY <1>2, ManagerAssumption DEF ManagerTypeOK, StatsEvent, NoEventYet, Time
  <2>2. statsEvent.creationDate \in Time
    BY <2>1 DEF StatsEvent
  <2>3. reports' \in Seq(StatsEvent)
    BY <1>1, <1>2, <2>1 DEF ManagerTypeOK
  <2> QED
    BY <1>1, <1>2, <2>1, <2>2, <2>3 DEF ManagerTypeOK
<1>7. ListIsSinceLastEvent' /\ NothingFromTheFuture' /\ EventIsOfTheList'
  <2>1. ListIsSinceLastEvent' /\ EventIsOfTheList'
    BY <1>1, <1>3, <1>4 DEF ListIsSinceLastEvent, EventIsOfTheList
  <2>2. Interval' = n + 2
    BY <1>1, <1>3 DEF Interval
  <2>3. NothingFromTheFuture'
    BY <1>1, <1>4, <1>5, <2>2 DEF NothingFromTheFuture
  <2> QED
    BY <2>1, <2>3
<1>8. ReportsAreOfCalls'
  <2> SUFFICES ASSUME NEW k \in 1 .. (n + 1)
               PROVE  ToSet(reports'[k].streamInits) \subseteq DOMAIN recordedAt
    BY <1>1, <1>3 DEF ReportsAreOfCalls
  <2>1. CASE k = n + 1
    BY <1>3, <1>5, <2>1
  <2>2. CASE k \in 1 .. n
    BY <1>3, <2>2 DEF ManagerInvariant, ReportsAreOfCalls
  <2> QED
    BY <1>3, <2>1, <2>2
<1>9. StreamInitsReportedOnce'
  <2>1. \A i \in DOMAIN recordedAt :
          \E k \in 1 .. (n + 1) : i \in ToSet(reports'[k].streamInits)
    <3> SUFFICES ASSUME NEW i \in DOMAIN recordedAt
                 PROVE  \E k \in 1 .. (n + 1) : i \in ToSet(reports'[k].streamInits)
      OBVIOUS
    <3>1. CASE i \in ToSet(streamInits)
      BY <1>3, <1>5, <3>1
    <3>2. CASE \E k \in 1 .. n : i \in ToSet(reports[k].streamInits)
      BY <1>3, <3>2
    <3> QED
      BY <1>3, <3>1, <3>2 DEF ManagerInvariant, StreamInitsReportedOnce
  <2>2. ASSUME NEW k \in 1 .. (n + 1), NEW l \in 1 .. (n + 1), k # l
        PROVE  ToSet(reports'[k].streamInits) \cap ToSet(reports'[l].streamInits) = {}
    <3>1. CASE k \in 1 .. n /\ l \in 1 .. n
      BY <1>3, <2>2, <3>1 DEF ManagerInvariant, StreamInitsReportedOnce
    <3>2. CASE k = n + 1 /\ l \in 1 .. n
      BY <1>3, <1>5, <3>2 DEF ManagerInvariant, StreamInitsReportedOnce
    <3>3. CASE k \in 1 .. n /\ l = n + 1
      BY <1>3, <1>5, <3>3 DEF ManagerInvariant, StreamInitsReportedOnce
    <3> QED
      BY <1>3, <2>2, <3>1, <3>2, <3>3
  <2> QED
    BY <1>1, <1>3, <1>4, <2>1, <2>2 DEF StreamInitsReportedOnce
<1>10. IntervalsFit'
  <2>1. ASSUME NEW k \in 1 .. (n + 1), k \notin setBack, NEW i \in ToSet(reports'[k].streamInits)
        PROVE  reports'[k].dataSinceDate <= recordedAt[i] /\ recordedAt[i] <= reports'[k].creationDate
    <3>1. CASE k = n + 1
      BY <1>3, <1>5, <2>1, <3>1
    <3>2. CASE k \in 1 .. n
      BY <1>3, <2>1, <3>2 DEF ManagerInvariant, IntervalsFit
    <3> QED
      BY <1>3, <3>1, <3>2
  <2>2. ASSUME NEW k \in 1 .. (n + 1), k > 1
        PROVE  reports'[k].dataSinceDate = reports'[k - 1].creationDate
    <3>1. CASE k = n + 1
      BY <1>3, <1>5, <2>2, <3>1
    <3>2. CASE k \in 1 .. n
      BY <1>3, <2>2, <3>2 DEF ManagerInvariant, IntervalsFit
    <3> QED
      BY <1>3, <3>1, <3>2
  <2> QED
    BY <1>1, <1>3, <2>1, <2>2 DEF IntervalsFit
<1> QED
  BY <1>6, <1>7, <1>8, <1>9, <1>10 DEF ManagerInvariant

\* Time passes, or the clock is set back.
LEMMA ClockPreserves ==
  ASSUME ManagerInvariant, Clock \/ ClockSetBack
  PROVE  ManagerInvariant'
<1>1. /\ now' \in Time /\ setBack \subseteq setBack'
      /\ now' \in Nat /\ now \in Nat
      /\ UNCHANGED <<streamInits, dataSinceTime, creating, statsEvent, recordedAt, reports>>
  BY ManagerAssumption DEF Clock, ClockSetBack, ManagerInvariant, ManagerTypeOK, Time
<1>2. Interval' = Interval /\ Interval \in Nat
  BY <1>1 DEF Interval, ManagerInvariant, ManagerTypeOK
<1>3. setBack' \subseteq Nat /\ (Interval \notin setBack' => now <= now')
  BY <1>1, <1>2 DEF Clock, ClockSetBack, ManagerInvariant, ManagerTypeOK
<1>4. ManagerTypeOK'
  BY <1>1, <1>3 DEF ManagerInvariant, ManagerTypeOK
<1>5. /\ dataSinceTime \in Nat /\ statsEvent.creationDate \in Nat
      /\ \A i \in ToSet(streamInits) : recordedAt[i] \in Nat
  BY DEF ManagerInvariant, ManagerTypeOK, ListIsSinceLastEvent, StatsEvent, Time
<1>6. NothingFromTheFuture'
  BY <1>1, <1>2, <1>3, <1>5 DEF ManagerInvariant, NothingFromTheFuture
<1>7. ListIsSinceLastEvent' /\ EventIsOfTheList'
  BY <1>1 DEF ManagerInvariant, ListIsSinceLastEvent, EventIsOfTheList
<1>8. ReportsAreOfCalls' /\ StreamInitsReportedOnce' /\ IntervalsFit'
  BY <1>1 DEF ManagerInvariant, ReportsAreOfCalls, StreamInitsReportedOnce, IntervalsFit
<1> QED
  BY <1>4, <1>6, <1>7, <1>8 DEF ManagerInvariant

\* Every step of the manager, and every step of others, preserves the invariant.
LEMMA ManagerNextPreserves ==
  ASSUME ManagerInvariant, [ManagerNext]_managerVars
  PROVE  ManagerInvariant'
<1>1. CASE UNCHANGED managerVars
  BY <1>1 DEF managerVars, ManagerInvariant, ManagerTypeOK, ListIsSinceLastEvent,
              NothingFromTheFuture, Interval, EventIsOfTheList, ReportsAreOfCalls,
              StreamInitsReportedOnce, IntervalsFit
<1>2. CASE \E i \in Inits : RecordStreamInit(i)
  BY <1>2, RecordStreamInitPreserves
<1>3. CASE BeginStats \/ BuildStats
  BY <1>3, MakingTheEventPreserves
<1>4. CASE ResetStats
  BY <1>4, ResetStatsPreserves
<1>5. CASE Clock \/ ClockSetBack
  BY <1>5, ClockPreserves
<1> QED
  BY <1>1, <1>2, <1>3, <1>4, <1>5 DEF ManagerNext, CreateStatsEventAndReset
-----------------------------------------------------------------------------
(* The refinement.                                                         *)

\* A manager that has just been made is an empty log.
LEMMA LogInit == ManagerInit => Log!Init
  BY DEF ManagerInit, Log!Init

\* Each step of the manager is an operation of the log, or none: the event that
\* ResetStats makes public is about the list that it empties.
LEMMA LogNext ==
  ASSUME ManagerInvariant, [ManagerNext]_managerVars
  PROVE  [Log!Next]_(Log!vars)
<1>1. ASSUME NEW i \in Inits, RecordStreamInit(i)
      PROVE  Log!Next
  BY <1>1 DEF RecordStreamInit, Log!Next, Log!Record
<1>2. CASE ResetStats
  <2> DEFINE time == statsEvent.creationDate
  <2>1. /\ creating = "built" /\ streamInits' = << >> /\ dataSinceTime' = time
        /\ reports' = Append(reports, statsEvent)
    BY <1>2 DEF ResetStats, SinceTheEvent
  <2>2. time \in Time
    BY DEF ManagerInvariant, ManagerTypeOK, StatsEvent
  <2>3. statsEvent = [dataSinceDate |-> dataSinceTime, creationDate |-> time,
                      streamInits |-> streamInits]
    BY <2>1 DEF ManagerInvariant, ManagerTypeOK, StatsEvent, EventIsOfTheList
  <2> HIDE DEF time
  <2>4. Log!Report(time)
    BY <2>1, <2>3 DEF Log!Report
  <2> QED
    BY <2>2, <2>4 DEF Log!Next
<1>3. CASE BeginStats \/ BuildStats \/ Clock \/ ClockSetBack \/ UNCHANGED managerVars
  BY <1>3 DEF BeginStats, BuildStats, Clock, ClockSetBack, managerVars, Log!vars
<1> QED
  BY <1>1, <1>2, <1>3 DEF ManagerNext, CreateStatsEventAndReset
=============================================================================
