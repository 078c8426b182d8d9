------------------------- MODULE DiagnosticsManager -------------------------
(***************************************************************************)
(* The state of DiagnosticsManager (diagnostic_events.go), shared by the   *)
(* goroutines that connect streams and the dispatcher.  A call of          *)
(* RecordStreamInit is a member of Inits; it stands for the timestamp,     *)
(* result and duration it records.  What the dispatcher counts itself, and *)
(* what becomes of the event, is in EventDispatcher.                       *)
(***************************************************************************)
EXTENDS Naturals, SequencesExt

CONSTANTS Inits,       \* the calls of RecordStreamInit
          MaxTime,     \* bound on the clock
          MaxReports   \* bound on the number of statistics events

ASSUME ManagerAssumption == MaxTime \in Nat /\ MaxReports \in Nat

VARIABLES streamInits, dataSinceTime,
          creating,     \* where CreateStatsEventAndReset is; it holds the lock unless "no"
          statsEvent,   \* the event it has made
          now,          \* ldtime.UnixMillisNow, a wall clock
          setBack,      \* history: the intervals in which it was set back
          recordedAt,   \* history: the times of the calls of RecordStreamInit so far
          reports       \* history: the events made

managerVars == <<streamInits, dataSinceTime, creating, statsEvent, now, setBack, recordedAt,
                reports>>

Time == 0 .. MaxTime
StatsEvent == [dataSinceDate : Time, creationDate : Time, streamInits : Seq(Inits)]
NoEventYet == [dataSinceDate |-> 0, creationDate |-> 0, streamInits |-> << >>]

ManagerTypeOK ==
  /\ streamInits \in Seq(Inits)
  /\ dataSinceTime \in Time
  /\ creating \in {"no", "locked", "built"}
  /\ statsEvent \in StatsEvent
  /\ now \in Time /\ setBack \subseteq Nat
  /\ DOMAIN recordedAt \subseteq Inits /\ recordedAt \in [DOMAIN recordedAt -> Time]
  /\ reports \in Seq(StatsEvent)

ManagerInit ==
  /\ streamInits = << >> /\ dataSinceTime = 0
  /\ creating = "no" /\ statsEvent = NoEventYet
  /\ now = 0 /\ setBack = {}
  /\ recordedAt = [i \in {} |-> 0] /\ reports = << >>
-----------------------------------------------------------------------------
\* The lock is free.  (Faulty: nobody looks.)
NotLocked == TRUE
Unlocked == creating = "no"

RecordStreamInit(i) ==
  /\ i \notin DOMAIN recordedAt /\ Unlocked
  /\ streamInits' = Append(streamInits, i)
  /\ recordedAt' = [j \in DOMAIN recordedAt \cup {i} |-> IF j = i THEN now ELSE recordedAt[j]]
  /\ UNCHANGED <<dataSinceTime, creating, statsEvent, now, setBack, reports>>

\* CreateStatsEventAndReset, in three steps: the lock, the event, the reset.
BeginStats ==
  /\ creating = "no" /\ Len(reports) < MaxReports
  /\ creating' = "locked"
  /\ UNCHANGED <<streamInits, dataSinceTime, statsEvent, now, setBack, recordedAt, reports>>

BuildStats ==
  /\ creating = "locked"
  /\ statsEvent' = [dataSinceDate |-> dataSinceTime, creationDate |-> now,
                    streamInits |-> streamInits]
  /\ creating' = "built"
  /\ UNCHANGED <<streamInits, dataSinceTime, now, setBack, recordedAt, reports>>

\* (Faulty: the next interval begins when the reset is done.)
SinceTheReset == now
SinceTheEvent == statsEvent.creationDate

ResetStats ==
  /\ creating = "built"
  /\ streamInits' = << >>
  /\ dataSinceTime' = SinceTheEvent
  /\ reports' = Append(reports, statsEvent)
  /\ creating' = "no" /\ statsEvent' = NoEventYet
  /\ UNCHANGED <<now, setBack, recordedAt>>

CreateStatsEventAndReset == BeginStats \/ BuildStats \/ ResetStats

Clock ==
  /\ now < MaxTime
  /\ now' = now + 1
  /\ UNCHANGED <<streamInits, dataSinceTime, creating, statsEvent, setBack, recordedAt, reports>>

\* The interval in which the next reading of the clock falls: that of the event to be
\* made, or the one after it if the time of that event has been taken.
Interval == Len(reports) + (IF creating = "built" THEN 2 ELSE 1)

\* The clock is not a monotonic one.
ClockSetBack ==
  /\ \E time \in Time : time < now /\ now' = time
  /\ setBack' = setBack \cup {Interval}
  /\ UNCHANGED <<streamInits, dataSinceTime, creating, statsEvent, recordedAt, reports>>

ManagerNext ==
  \/ \E i \in Inits : RecordStreamInit(i)
  \/ CreateStatsEventAndReset
  \/ Clock \/ ClockSetBack
-----------------------------------------------------------------------------
\* Every call of RecordStreamInit is in exactly one place, an event or the list from
\* which the next one is made: a call while CreateStatsEventAndReset runs is neither
\* lost by the reset nor reported by two events.
StreamInitsReportedOnce ==
  /\ \A i \in DOMAIN recordedAt :
       \/ i \in ToSet(streamInits)
       \/ \E k \in DOMAIN reports : i \in ToSet(reports[k].streamInits)
  /\ \A k \in DOMAIN reports :
       /\ ToSet(reports[k].streamInits) \cap ToSet(streamInits) = {}
       /\ \A l \in DOMAIN reports :
            k # l => ToSet(reports[k].streamInits) \cap ToSet(reports[l].streamInits) = {}

\* What a statistics event says of itself is true: its interval begins where that of
\* the event before it ended, and the stream inits in it were recorded between its
\* dataSinceDate and its creationDate unless the clock was set back between the two; a
\* clock set back in another interval does no harm to this one.
IntervalsFit ==
  /\ \A k \in DOMAIN reports \ setBack : \A i \in ToSet(reports[k].streamInits) :
       reports[k].dataSinceDate <= recordedAt[i] /\ recordedAt[i] <= reports[k].creationDate
  /\ \A k \in DOMAIN reports :
       k > 1 => reports[k].dataSinceDate = reports[k - 1].creationDate

\* RecordStreamInit and CreateStatsEventAndReset happen as a whole, the second when it
\* resets the list: the event it has made before is still the right one, whatever the
\* other goroutines and the clock did in between.
Log ==
  INSTANCE DiagnosticsLog WITH recorded <- streamInits, since <- dataSinceTime, events <- reports

OperationsAreAtomic == Log!Spec

\* The inductive invariant of the proofs.  What is in the list, and what is in the
\* event being made, was recorded since the last event and is in no event yet.
ListIsSinceLastEvent ==
  /\ \A i \in ToSet(streamInits) : i \in DOMAIN recordedAt
  /\ reports # << >> => dataSinceTime = reports[Len(reports)].creationDate
  /\ Len(reports) + 1 \notin setBack =>
       \A i \in ToSet(streamInits) : dataSinceTime <= recordedAt[i]

NothingFromTheFuture ==
  Interval \notin setBack =>
    IF creating = "built" THEN statsEvent.creationDate <= now
    ELSE /\ dataSinceTime <= now
         /\ \A i \in ToSet(streamInits) : recordedAt[i] <= now

EventIsOfTheList ==
  creating = "built" =>
    /\ statsEvent.streamInits = streamInits
    /\ statsEvent.dataSinceDate = dataSinceTime
    /\ Len(reports) + 1 \notin setBack =>
         \A i \in ToSet(streamInits) : recordedAt[i] <= statsEvent.creationDate

ReportsAreOfCalls ==
  \A k \in DOMAIN reports : ToSet(reports[k].streamInits) \subseteq DOMAIN recordedAt

ManagerInvariant ==
  /\ ManagerTypeOK
  /\ ListIsSinceLastEvent
  /\ NothingFromTheFuture
  /\ EventIsOfTheList
  /\ ReportsAreOfCalls
  /\ StreamInitsReportedOnce
  /\ IntervalsFit
=============================================================================
