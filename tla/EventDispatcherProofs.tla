------------------------ MODULE EventDispatcherProofs -----------------------
(***************************************************************************)
(* Proofs about the dispatcher, for all events, callers and workers.  The  *)
(* inductive invariant is SafetyInvariant; it has one lemma per goroutine. *)
(***************************************************************************)
EXTENDS EventDispatcherProperties, LruCacheProofs, FiniteSetTheorems
-----------------------------------------------------------------------------
(* The operators the actions are built from.                               *)

\* Every constructor of messages makes messages.
LEMMA MessageTypes ==
  /\ NoMessage \in Message
  /\ \A e \in Events : EventMessage(e) \in Message
  /\ \A c \in Callers \cup {NoCaller}, b \in BOOLEAN : FlushMessage(c, b) \in Message
  /\ \A c \in Callers : SyncMessage(c) \in Message /\ ShutdownMessage(c) \in Message
  BY DEF NoMessage, EventMessage, FlushMessage, SyncMessage, ShutdownMessage, Message

\* Every constructor of payloads makes payloads of its kind.
LEMMA PayloadTypes ==
  /\ NoPayload \in Payload /\ NoPayload.kind = "none"
  /\ \A stats \in Stats : /\ DiagnosticPayload(stats) \in Payload
                          /\ DiagnosticPayload(stats).kind = "diagnostic"
  /\ ProcessingTypeOK => AnalyticsPayload \in Payload /\ AnalyticsPayload.kind = "analytics"
<1>1. NoStats \in Stats
  BY DEF NoStats, Stats
<1>2. NoPayload \in Payload /\ NoPayload.kind = "none"
  BY <1>1 DEF NoPayload, Payload
<1>3. ASSUME NEW stats \in Stats
      PROVE  DiagnosticPayload(stats) \in Payload /\ DiagnosticPayload(stats).kind = "diagnostic"
  BY DEF DiagnosticPayload, Payload
<1>4. ASSUME ProcessingTypeOK
      PROVE  AnalyticsPayload \in Payload /\ AnalyticsPayload.kind = "analytics"
  BY <1>1, <1>4 DEF AnalyticsPayload, Payload, ProcessingTypeOK
<1> QED
  BY <1>2, <1>3, <1>4

\* The count that triggerFlush passes on is a natural number.
LEMMA EventCountType == \A p \in Payload : EventCount(p) \in Nat
  BY DEF Payload, EventCount

\* Every result a worker may get is well-formed.
LEMMA ResultTypes ==
  ASSUME serverTime \in Nat
  PROVE  NoResult \in Result /\ \A r \in Results : r \in Result
<1>1. ASSUME NEW r \in Results
      PROVE  \/ r = [mustShutDown |-> TRUE, timeFromServer |-> 0]
             \/ r = [mustShutDown |-> FALSE, timeFromServer |-> 0]
             \/ r = [mustShutDown |-> FALSE, timeFromServer |-> serverTime]
  BY <1>1 DEF Results
<1> QED
  <2>1. NoResult \in Result
    BY DEF Result, NoResult
  <2>2. ASSUME NEW b \in BOOLEAN, NEW t \in Nat
        PROVE  [mustShutDown |-> b, timeFromServer |-> t] \in Result
    BY DEF Result
  <2> QED
    BY <1>1, <2>1, <2>2

\* Clearing the outbox leaves nothing in it.
LEMMA ClearedOutboxEmpty ==
  ASSUME ProcessingTypeOK
  PROVE  /\ ClearedOutbox \in [events : Seq(Output), summary : SUBSET Events, droppedEvents : Nat]
         /\ Len(ClearedOutbox.events) = 0
         /\ Carried(ClearedOutbox) = {}
<1>1. outbox \in [events : Seq(Output), summary : SUBSET Events, droppedEvents : Nat]
  BY DEF ProcessingTypeOK
<1>2. ClearedOutbox = [events |-> << >>, summary |-> {}, droppedEvents |-> outbox.droppedEvents]
  BY DEF ClearedOutbox
<1>3. ToSet(<< >>) = {}
  BY DEF ToSet
<1> QED
  BY <1>1, <1>2, <1>3 DEF Carried

\* addEvent takes as many of the output events as there is room for.
LEMMA FittingBound ==
  ASSUME ProcessingTypeOK, NEW outs \in Seq(Output)
  PROVE  Fitting(outs) \in 0 .. Len(outs) /\ Fitting(outs) <= Capacity - Len(outbox.events)
<1>1. /\ Len(outs) \in Nat /\ Len(outbox.events) \in Nat /\ Capacity \in Nat
      /\ Len(outbox.events) <= Capacity
  BY ProcessingAssumption DEF ProcessingTypeOK
<1>2. CASE Len(outs) <= Capacity - Len(outbox.events)
  <2>1. Fitting(outs) = Len(outs)
    BY <1>2 DEF Fitting
  <2> QED
    BY <1>1, <1>2, <2>1
<1>3. CASE ~(Len(outs) <= Capacity - Len(outbox.events))
  <2>1. Fitting(outs) = Capacity - Len(outbox.events)
    BY <1>3 DEF Fitting
  <2> QED
    BY <1>1, <1>3, <2>1
<1> QED
  BY <1>2, <1>3

\* addEvent keeps the outbox within its capacity.
LEMMA AddToOutboxType ==
  ASSUME ProcessingTypeOK, NEW outs \in Seq(Output), NEW counted \in SUBSET Events,
         AddToOutbox(outs, counted)
  PROVE  /\ outbox' \in [events : Seq(Output), summary : SUBSET Events, droppedEvents : Nat]
         /\ Len(outbox'.events) <= Capacity
         /\ dropped' \subseteq Output
<1>0. /\ Input \in [Events -> InputType]
      /\ Capacity \in Nat /\ UserKeysCapacity \in Nat
  BY ProcessingAssumption
<1> DEFINE n == Fitting(outs)
           kept == SubSeq(outs, 1, n)
<1>1. /\ outbox.events \in Seq(Output) /\ outbox.summary \subseteq Events
      /\ outbox.droppedEvents \in Nat /\ Len(outbox.events) <= Capacity
  BY DEF ProcessingTypeOK
<1>2. n \in 0 .. Len(outs) /\ n <= Capacity - Len(outbox.events)
  BY FittingBound
<1> HIDE DEF n
<1>3. kept \in Seq(Output) /\ Len(kept) = n /\ ToSet(kept) \subseteq Output
  BY <1>0, <1>2 DEF ToSet
<1>4. /\ outbox' = [events        |-> outbox.events \o kept,
                    summary       |-> outbox.summary \cup counted,
                    droppedEvents |-> outbox.droppedEvents + (Len(outs) - n)]
      /\ dropped' = dropped \cup {outs[i] : i \in (n + 1) .. Len(outs)}
  BY DEF AddToOutbox, n
<1> HIDE DEF kept
<1>5. /\ outbox.events \o kept \in Seq(Output)
      /\ Len(outbox.events \o kept) = Len(outbox.events) + n
  BY <1>1, <1>3
<1>6. outbox' \in [events : Seq(Output), summary : SUBSET Events, droppedEvents : Nat]
  BY <1>0, <1>1, <1>2, <1>4, <1>5
<1>7. Len(outbox'.events) <= Capacity
  BY <1>0, <1>1, <1>2, <1>4, <1>5
<1>8. dropped' \subseteq Output
  BY <1>2, <1>4 DEF ProcessingTypeOK
<1> QED
  BY <1>6, <1>7, <1>8

\* processEvent keeps the dispatcher's own state well-formed.
LEMMA ProcessEventType ==
  ASSUME ProcessingTypeOK, NEW e \in Events, ProcessEvent(e)
  PROVE  ProcessingTypeOK' /\ UNCHANGED disabled
<1>0. /\ Input \in [Events -> InputType]
      /\ Capacity \in Nat /\ UserKeysCapacity \in Nat
  BY ProcessingAssumption
<1>1. \A o : o \in Output => AddIf(TRUE, o) \in Seq(Output)
  BY DEF AddIf
<1>2. \A b \in BOOLEAN, o \in Output : AddIf(b, o) \in Seq(Output)
  BY DEF AddIf
<1>3. FullEvent(e) \in Output /\ CountedInSummary(e) \subseteq Events
  BY <1>0 DEF FullEvent, Output, OutputKinds, InputType, Kinds, CountedInSummary
<1>4. Input[e].context \in Contexts
  BY <1>0 DEF InputType
<1>5. CASE UNCHANGED processingVars
  BY <1>5 DEF processingVars, ProcessingTypeOK
<1>6. CASE ProcessPlainEvent(e) /\ UNCHANGED <<eventsInLastBatch, lastKnownPastTime, disabled>>
  <2>1. PICK sampled \in BOOLEAN : AddToOutbox(AddIf(sampled, FullEvent(e)), {})
    BY <1>6 DEF ProcessPlainEvent, Sample
  <2>2. /\ outbox' \in [events : Seq(Output), summary : SUBSET Events, droppedEvents : Nat]
        /\ Len(outbox'.events) <= Capacity
        /\ dropped' \subseteq Output
    BY <1>2, <1>3, <2>1, AddToOutboxType
  <2> QED
    BY <1>6, <2>2 DEF ProcessPlainEvent, ProcessingTypeOK
<1>7. CASE ProcessContextEvent(e) /\ UNCHANGED <<eventsInLastBatch, lastKnownPastTime, disabled>>
  <2>1. PICK outs \in Seq(Output) : AddToOutbox(outs, CountedInSummary(e))
    <3>1. PICK now \in ClientTimes, full \in Sample(Ratio(e)), debug \in Sample(Ratio(e)) :
            AddToOutbox(AddIf(MayIndex(e) /\ ~Seen(userKeys, Input[e].context),
                              [event |-> e, kind |-> "index"])
                          \o AddIf(WillAddFullEvent(e) /\ full, FullEvent(e))
                          \o AddIf(ShouldDebugEvent(e, now) /\ debug,
                                   [event |-> e, kind |-> "debug"]),
                        CountedInSummary(e))
      BY <1>7 DEF ProcessContextEvent
    <3>2. [event |-> e, kind |-> "index"] \in Output /\ [event |-> e, kind |-> "debug"] \in Output
      BY DEF Output, OutputKinds
    <3>3. /\ AddIf(MayIndex(e) /\ ~Seen(userKeys, Input[e].context),
                   [event |-> e, kind |-> "index"]) \in Seq(Output)
          /\ AddIf(WillAddFullEvent(e) /\ full, FullEvent(e)) \in Seq(Output)
          /\ AddIf(ShouldDebugEvent(e, now) /\ debug, [event |-> e, kind |-> "debug"]) \in Seq(Output)
      BY <1>3, <3>2 DEF AddIf
    <3>4. \A s, t, u \in Seq(Output) : s \o t \o u \in Seq(Output)
      OBVIOUS
    <3> QED
      BY <3>1, <3>3, <3>4
  <2>2. /\ outbox' \in [events : Seq(Output), summary : SUBSET Events, droppedEvents : Nat]
        /\ Len(outbox'.events) <= Capacity
        /\ dropped' \subseteq Output
    BY <1>3, <2>1, AddToOutboxType
  <2>3. IsCache(UserKeysCapacity, userKeys', Contexts)
    <3>1. userKeys' = Add(UserKeysCapacity, userKeys, Input[e].context)
      BY <1>7 DEF ProcessContextEvent
    <3>2. IsCache(UserKeysCapacity, userKeys, Contexts)
      BY DEF ProcessingTypeOK
    <3>3. IsCache(UserKeysCapacity, Add(UserKeysCapacity, userKeys, Input[e].context), Contexts)
      BY <1>0, <1>4, <3>2, AddIsCache
    <3> QED
      BY <3>1, <3>3
  <2>4. deduplicatedContexts' \in Nat /\ introducers' \subseteq Events
    BY <1>7 DEF ProcessContextEvent, ProcessingTypeOK
  <2> QED
    BY <1>7, <2>2, <2>3, <2>4 DEF ProcessingTypeOK
<1> QED
  BY <1>5, <1>6, <1>7 DEF ProcessEvent, processingVars
-----------------------------------------------------------------------------
(* The workers.                                                            *)

BusyStates == {"sending", "posting", "finishing"}

\* What the step of one worker does to the set of busy workers.
LEMMA BusyChange ==
  ASSUME TypeOK, NEW w \in Workers, NEW s \in WorkerStates,
         workerState' = [workerState EXCEPT ![w] = s]
  PROVE  /\ IsFiniteSet(Busy) /\ Cardinality(Busy) \in Nat
         /\ s \in BusyStates /\ w \in Busy => Busy' = Busy
         /\ s \in BusyStates /\ w \notin Busy => Cardinality(Busy') = Cardinality(Busy) + 1
         /\ s \notin BusyStates /\ w \in Busy => Cardinality(Busy') = Cardinality(Busy) - 1
         /\ s \notin BusyStates /\ w \notin Busy => Busy' = Busy
<1>1. Busy \subseteq Workers /\ IsFiniteSet(Workers)
  BY DispatcherAssumption DEF Busy
<1>2. IsFiniteSet(Busy) /\ Cardinality(Busy) \in Nat
  BY <1>1, FS_Subset, FS_CardinalityType
<1>3. workerState \in [Workers -> WorkerStates]
  BY DEF TypeOK
<1>4. s \in BusyStates => Busy' = Busy \cup {w}
  BY <1>3 DEF Busy, BusyStates
<1>5. s \notin BusyStates => Busy' = Busy \ {w}
  BY <1>3 DEF Busy, BusyStates
<1>6. w \notin Busy => Cardinality(Busy \cup {w}) = Cardinality(Busy) + 1
  BY <1>2, FS_AddElement
<1>7. w \in Busy => Cardinality(Busy \ {w}) = Cardinality(Busy) - 1
  BY <1>2, FS_RemoveElement
<1> QED
  BY <1>2, <1>4, <1>5, <1>6, <1>7

\* The busy workers are finitely many, and none of them is busy if their number is 0.
LEMMA BusyFinite ==
  /\ IsFiniteSet(Busy) /\ Cardinality(Busy) \in Nat
  /\ Cardinality(Busy) = 0 => Busy = {}
<1>1. Busy \subseteq Workers /\ IsFiniteSet(Workers)
  BY DispatcherAssumption DEF Busy
<1> QED
  BY <1>1, FS_Subset, FS_CardinalityType, FS_EmptySet

\* A worker that takes, sends, posts, finishes or exits preserves the invariant.
LEMMA WorkerStepPreserves ==
  ASSUME SafetyInvariant, NEW w \in Workers, WorkerStep(w)
  PROVE  SafetyInvariant'
<1>1. /\ TypeOK /\ WorkersGroupExact /\ ShutdownQuiescent /\ DisabledStaysQuiet
      /\ PendingOnlyInHandoff /\ RepliesHaveCallers
  BY DEF SafetyInvariant
<1>2. /\ flushCh \in Seq(Payload) /\ Len(flushCh) <= 1 /\ senderResultCh \in Seq(Result)
      /\ Len(senderResultCh) <= MaxFlushWorkers /\ workersGroup \in Nat
      /\ workerState \in [Workers -> WorkerStates] /\ workerPayload \in [Workers -> Payload]
      /\ workerResult \in [Workers -> Result] /\ serverTime \in Nat
  BY <1>1 DEF TypeOK
<1>3. MaxFlushWorkers \in Nat
  BY DispatcherAssumption, FS_CardinalityType DEF MaxFlushWorkers
<1>4. WorkerStates = {"idle", "exited"} \cup BusyStates
  BY DEF WorkerStates, BusyStates
<1>5. ASSUME UNCHANGED <<processingVars, dispatcherVars, callerVars, inbox>>
      PROVE  /\ ProcessingTypeOK' /\ DisabledStaysQuiet' /\ PendingOnlyInHandoff'
             /\ RepliesHaveCallers'
  BY <1>1, <1>5 DEF processingVars, dispatcherVars, callerVars, TypeOK, ProcessingTypeOK,
                    DisabledStaysQuiet, PendingOnlyInHandoff, RepliesHaveCallers, Carried
<1>6. CASE TakePayload(w)
  <2> USE <1>6 DEF TakePayload
  <2>1. w \notin Busy
    BY DEF Busy
  <2>2. Cardinality(Busy') = Cardinality(Busy) + 1 /\ Cardinality(Busy) \in Nat
    BY <1>1, <1>4, <2>1, BusyChange DEF BusyStates
  <2>3. flushCh' \in Seq(Payload) /\ Len(flushCh') = Len(flushCh) - 1 /\ Head(flushCh) \in Payload
    BY <1>2
  <2>4. TypeOK'
    BY <1>1, <1>2, <1>5, <2>3 DEF TypeOK, WorkerStates, dispatcherVars, callerVars, senderVars
  <2>5. WorkersGroupExact'
    BY <1>1, <1>2, <2>2, <2>3 DEF WorkersGroupExact, dispatcherVars
  <2>6. ShutdownQuiescent'
    BY <1>1 DEF ShutdownQuiescent
  <2> QED
    BY <1>5, <2>4, <2>5, <2>6 DEF SafetyInvariant
<1>7. CASE SendReturns(w)
  <2> USE <1>7 DEF SendReturns
  <2> DEFINE p == workerPayload[w]
  <2>1. w \in Busy /\ p \in Payload /\ p.stats.droppedEvents \in Nat
    BY <1>2 DEF Busy, Payload, Stats
  <2>2. PICK s \in {"posting", "finishing"} : workerState' = [workerState EXCEPT ![w] = s]
    OBVIOUS
  <2>3. Busy' = Busy
    BY <1>1, <1>4, <2>1, <2>2, BusyChange DEF BusyStates
  <2>4. PICK r \in Result : workerResult' = [workerResult EXCEPT ![w] = r]
    BY <1>2, ResultTypes
  <2>5. attempted' \subseteq [event : Events, kind : OutputKinds \cup {"summary"}]
    <3>1. Carried(p) \subseteq [event : Events, kind : OutputKinds \cup {"summary"}]
      <4>1. ToSet(p.events) \subseteq Output /\ p.summary \subseteq Events
        BY <2>1 DEF ToSet, Payload
      <4>2. Output \subseteq [event : Events, kind : OutputKinds \cup {"summary"}]
        BY DEF Output
      <4>3. \A e \in p.summary : [event |-> e, kind |-> "summary"]
                                  \in [event : Events, kind : OutputKinds \cup {"summary"}]
        BY <4>1
      <4> QED
        BY <4>1, <4>2, <4>3 DEF Carried
    <3> QED
      BY <1>1, <3>1 DEF TypeOK
  <2>6. droppedReported' \in Nat
    BY <1>1, <2>1 DEF TypeOK
  <2>7. TypeOK'
    BY <1>1, <1>2, <1>5, <2>2, <2>4, <2>5, <2>6, PayloadTypes
       DEF TypeOK, WorkerStates, channelVars, dispatcherVars, callerVars
  <2>8. WorkersGroupExact' /\ ShutdownQuiescent'
    BY <1>1, <2>3 DEF WorkersGroupExact, ShutdownQuiescent, channelVars, dispatcherVars
  <2> QED
    BY <1>5, <2>7, <2>8 DEF SafetyInvariant, channelVars
<1>8. CASE PostResult(w)
  <2> USE <1>8 DEF PostResult
  <2>1. Busy' = Busy
    <3>1. w \in Busy
      BY DEF Busy
    <3> QED
      BY <1>1, <1>4, <3>1, BusyChange DEF BusyStates
  <2>2. senderResultCh' \in Seq(Result) /\ Len(senderResultCh') <= MaxFlushWorkers
    BY <1>2, <1>3
  <2>3. TypeOK'
    BY <1>1, <1>2, <1>5, <2>2, ResultTypes
       DEF TypeOK, WorkerStates, dispatcherVars, callerVars, senderVars
  <2>4. WorkersGroupExact' /\ ShutdownQuiescent'
    BY <1>1, <2>1 DEF WorkersGroupExact, ShutdownQuiescent, dispatcherVars
  <2> QED
    BY <1>5, <2>3, <2>4 DEF SafetyInvariant
<1>9. CASE FinishPayload(w)
  <2> USE <1>9 DEF FinishPayload
  <2>1. w \in Busy
    BY DEF Busy
  <2>2. Cardinality(Busy') = Cardinality(Busy) - 1 /\ Cardinality(Busy) \in Nat
    <3>1. "idle" \in WorkerStates /\ "idle" \notin BusyStates
      BY DEF WorkerStates, BusyStates
    <3>2. workerState' = [workerState EXCEPT ![w] = "idle"]
      OBVIOUS
    <3> HIDE <1>9 DEF FinishPayload
    <3> QED
      BY <1>1, <2>1, <3>1, <3>2, BusyChange
  <2>3. Cardinality(Busy) # 0
    BY <2>1, BusyFinite
  <2>4. WorkersGroupExact' /\ workersGroup' \in Nat
    BY <1>1, <1>2, <2>2, <2>3 DEF WorkersGroupExact, dispatcherVars
  <2>5. TypeOK'
    BY <1>1, <1>2, <1>5, <2>4 DEF TypeOK, WorkerStates, dispatcherVars, callerVars, senderVars
  <2>6. ShutdownQuiescent'
    BY <1>1, <2>1 DEF ShutdownQuiescent
  <2> QED
    BY <1>5, <2>4, <2>5, <2>6 DEF SafetyInvariant
<1>10. CASE ExitWorker(w)
  <2> USE <1>10 DEF ExitWorker
  <2>1. Busy' = Busy
    <3>1. w \notin Busy
      BY DEF Busy
    <3>2. "exited" \in WorkerStates /\ "exited" \notin BusyStates
      BY DEF WorkerStates, BusyStates
    <3>3. workerState' = [workerState EXCEPT ![w] = "exited"]
      OBVIOUS
    <3> HIDE <1>10 DEF ExitWorker
    <3> QED
      BY <1>1, <3>1, <3>2, <3>3, BusyChange
  <2>2. TypeOK'
    BY <1>1, <1>2, <1>5 DEF TypeOK, WorkerStates, channelVars, dispatcherVars, callerVars, senderVars
  <2>3. WorkersGroupExact' /\ ShutdownQuiescent'
    BY <1>1, <2>1 DEF WorkersGroupExact, ShutdownQuiescent, channelVars, dispatcherVars
  <2> QED
    BY <1>5, <2>2, <2>3 DEF SafetyInvariant, channelVars
<1> QED
  BY <1>6, <1>7, <1>8, <1>9, <1>10 DEF WorkerStep
-----------------------------------------------------------------------------
(* The application's goroutines, and the server's clock.                   *)

\* A message that names its caller joins the inbox, or is lost.
LEMMA InboxGrows ==
  ASSUME TypeOK, RepliesHaveCallers, NEW m \in Message, m.reply => m.from \in Callers,
         inbox' = Append(inbox, m) \/ inbox' = inbox
  PROVE  /\ inbox' \in Seq(Message)
         /\ \A i \in DOMAIN inbox' : inbox'[i].reply => inbox'[i].from \in Callers
<1>1. inbox \in Seq(Message)
  BY DEF TypeOK
<1>2. CASE inbox' = inbox
  BY <1>1, <1>2 DEF RepliesHaveCallers
<1>3. CASE inbox' = Append(inbox, m)
  <2>1. /\ inbox' \in Seq(Message) /\ Len(inbox') = Len(inbox) + 1
        /\ \A i \in 1 .. Len(inbox) : inbox'[i] = inbox[i]
        /\ inbox'[Len(inbox) + 1] = m
    BY <1>1, <1>3
  <2>2. \A i \in 1 .. Len(inbox) : inbox[i].reply => inbox[i].from \in Callers
    BY <1>1 DEF RepliesHaveCallers
  <2> QED
    BY <1>1, <2>1, <2>2
<1> QED
  BY <1>2, <1>3

\* A step that touches nothing but the inbox, the callers and the histories about
\* them preserves the invariant.
LEMMA CallersPreserve ==
  ASSUME SafetyInvariant,
         UNCHANGED <<processingVars, flushCh, senderResultCh, closed, workersGroup,
                     dispatcherVars, workerVars, replies, senderVars>>,
         NEW m \in Message, m.reply => m.from \in Callers,
         inbox' = Append(inbox, m) \/ inbox' = inbox,
         callerState' \in [Callers -> CallerStates],
         recorded' \subseteq Events, covered' \in [Callers -> SUBSET Events]
  PROVE  SafetyInvariant'
<1>1. /\ TypeOK /\ WorkersGroupExact /\ ShutdownQuiescent /\ DisabledStaysQuiet
      /\ PendingOnlyInHandoff /\ RepliesHaveCallers
  BY DEF SafetyInvariant
<1>2. /\ inbox' \in Seq(Message)
      /\ \A i \in DOMAIN inbox' : inbox'[i].reply => inbox'[i].from \in Callers
  BY <1>1, InboxGrows
<1>3. ProcessingTypeOK'
  BY <1>1 DEF TypeOK, ProcessingTypeOK, processingVars
<1>4. TypeOK'
  BY <1>1, <1>2, <1>3 DEF TypeOK, dispatcherVars, workerVars, senderVars
<1>5. Busy' = Busy
  BY DEF Busy, workerVars
<1>6. WorkersGroupExact' /\ ShutdownQuiescent'
  BY <1>1, <1>5 DEF WorkersGroupExact, ShutdownQuiescent, dispatcherVars
<1>7. DisabledStaysQuiet' /\ PendingOnlyInHandoff'
  BY <1>1 DEF DisabledStaysQuiet, PendingOnlyInHandoff, Carried, dispatcherVars, processingVars
<1>8. RepliesHaveCallers'
  BY <1>1, <1>2 DEF RepliesHaveCallers, dispatcherVars
<1> QED
  BY <1>4, <1>6, <1>7, <1>8 DEF SafetyInvariant

\* Recording an event preserves the invariant, whether the inbox is full or not.
LEMMA RecordEventPreserves ==
  ASSUME SafetyInvariant, NEW e \in Events, RecordEvent(e) PROVE SafetyInvariant'
<1>1. EventMessage(e) \in Message /\ EventMessage(e).reply = FALSE
  BY MessageTypes DEF EventMessage, NoMessage
<1>2. callerState \in [Callers -> CallerStates] /\ covered \in [Callers -> SUBSET Events]
      /\ recorded \subseteq Events
  BY DEF SafetyInvariant, TypeOK
<1> QED
  BY <1>1, <1>2, CallersPreserve DEF RecordEvent, PostNonBlocking

\* So does Flush.
LEMMA FlushPreserves ==
  ASSUME SafetyInvariant, Flush PROVE SafetyInvariant'
<1>1. FlushMessage(NoCaller, FALSE) \in Message /\ FlushMessage(NoCaller, FALSE).reply = FALSE
  BY MessageTypes DEF FlushMessage
<1>2. callerState \in [Callers -> CallerStates] /\ covered \in [Callers -> SUBSET Events]
      /\ recorded \subseteq Events
  BY DEF SafetyInvariant, TypeOK
<1> QED
  BY <1>1, <1>2, CallersPreserve DEF Flush, PostNonBlocking, callerVars

\* So does every step of FlushBlocking, waitUntilInactive and Close.
LEMMA CallerStepPreserves ==
  ASSUME SafetyInvariant, NEW c \in Callers, CallerStep(c) PROVE SafetyInvariant'
<1>1. /\ callerState \in [Callers -> CallerStates] /\ covered \in [Callers -> SUBSET Events]
      /\ recorded \subseteq Events
  BY DEF SafetyInvariant, TypeOK
<1>2. Covers(c) \/ UNCHANGED covered => covered' \in [Callers -> SUBSET Events]
  BY <1>1 DEF Covers
<1>3. ASSUME NEW m \in Message, m.reply => m.from \in Callers, NEW state \in CallerStates,
             SendToInbox(c, m, state), covered' \in [Callers -> SUBSET Events]
      PROVE  SafetyInvariant'
  BY <1>1, <1>3, CallersPreserve DEF SendToInbox
<1>4. ASSUME NEW state \in CallerStates, CallerGoesTo(c, state),
             covered' \in [Callers -> SUBSET Events]
      PROVE  SafetyInvariant'
  BY <1>1, <1>4, CallersPreserve, MessageTypes DEF CallerGoesTo, channelVars, NoMessage
<1>5. \A state \in {"called", "flushing", "waiting", "returned", "timedOut"} : state \in CallerStates
  BY DEF CallerStates
<1>6. \A b \in BOOLEAN : FlushMessage(c, b) \in Message /\ FlushMessage(c, b).from = c
  BY MessageTypes DEF FlushMessage
<1>7. /\ SyncMessage(c) \in Message /\ SyncMessage(c).from = c
      /\ ShutdownMessage(c) \in Message /\ ShutdownMessage(c).from = c
  BY MessageTypes DEF SyncMessage, ShutdownMessage
<1>8. CASE FlushBlocking(c)
  BY <1>2, <1>3, <1>5, <1>6, <1>8 DEF FlushBlocking
<1>9. CASE FlushBlockingTimesOut(c)
  BY <1>2, <1>4, <1>5, <1>9 DEF FlushBlockingTimesOut
<1>10. CASE WaitUntilInactive(c)
  BY <1>2, <1>3, <1>5, <1>7, <1>10 DEF WaitUntilInactive
<1>11. CASE ReceiveReply(c)
  BY <1>2, <1>4, <1>5, <1>11 DEF ReceiveReply
<1>12. CASE Close(c)
  BY <1>2, <1>4, <1>5, <1>12 DEF Close
<1>13. CASE CloseSendsFlush(c)
  BY <1>2, <1>3, <1>5, <1>6, <1>13 DEF CloseSendsFlush
<1>14. CASE CloseSendsShutdown(c)
  BY <1>2, <1>3, <1>5, <1>7, <1>14 DEF CloseSendsShutdown
<1>15. CASE CloseAgain(c)
  BY <1>2, <1>4, <1>5, <1>15 DEF CloseAgain
<1> QED
  BY <1>8, <1>9, <1>10, <1>11, <1>12, <1>13, <1>14, <1>15 DEF CallerStep

\* The server's clock has no part in the invariant.
LEMMA ServerClockPreserves ==
  ASSUME SafetyInvariant, ServerClock PROVE SafetyInvariant'
<1> USE DEF ServerClock
<1>1. ProcessingTypeOK'
  BY DEF SafetyInvariant, TypeOK, ProcessingTypeOK, processingVars
<1>2. TypeOK'
  BY <1>1 DEF SafetyInvariant, TypeOK, channelVars, dispatcherVars, workerVars, callerVars
<1>3. Busy' = Busy
  BY DEF Busy, workerVars
<1> QED
  BY <1>2, <1>3 DEF SafetyInvariant, WorkersGroupExact, ShutdownQuiescent, DisabledStaysQuiet,
     PendingOnlyInHandoff, RepliesHaveCallers, Carried, processingVars, channelVars, dispatcherVars
-----------------------------------------------------------------------------
(* The dispatcher.                                                         *)

\* What GoOn leaves behind.
LEMMA GoOnEffect ==
  ASSUME NEW m \in Message, m.reply => m.from \in Callers, GoOn(m)
  PROVE  /\ dispatcher' \in {"loop", "awaitWorkers"} /\ current' \in Message
         /\ pending' = NoPayload /\ pending' \in Payload
         /\ current'.reply => current'.from \in Callers
         /\ dispatcher' = "awaitWorkers" => current'.reply
<1>1. NoMessage \in Message /\ NoMessage.reply = FALSE
  BY MessageTypes DEF NoMessage
<1> QED
  BY <1>1, PayloadTypes DEF GoOn

\* The dispatcher's steps share this: what they leave alone stays well-formed,
\* the workers are as busy as before, and nothing has been closed yet.
LEMMA DispatcherFrame ==
  ASSUME SafetyInvariant, dispatcher # "stopped",
         UNCHANGED <<workerVars, callerState, recorded, covered, senderVars>>
  PROVE  /\ closed = FALSE /\ Busy' = Busy /\ Cardinality(Busy) \in Nat
         /\ workerState' \in [Workers -> WorkerStates]
         /\ workerPayload' \in [Workers -> Payload]
         /\ workerResult' \in [Workers -> Result]
         /\ callerState' \in [Callers -> CallerStates]
         /\ serverTime' \in Nat
         /\ recorded' \subseteq Events
         /\ covered' \in [Callers -> SUBSET Events]
         /\ attempted' \subseteq [event : Events, kind : OutputKinds \cup {"summary"}]
         /\ droppedReported' \in Nat
<1>1. closed = FALSE
  BY DEF SafetyInvariant, TypeOK, ShutdownQuiescent
<1>2. Busy' = Busy /\ Cardinality(Busy) \in Nat
  BY BusyFinite DEF Busy, workerVars
<1> QED
  BY <1>1, <1>2 DEF SafetyInvariant, TypeOK, workerVars, senderVars

\* One message less in the inbox.
LEMMA InboxShrinks ==
  ASSUME SafetyInvariant, inbox # << >>, inbox' = Tail(inbox)
  PROVE  /\ inbox' \in Seq(Message) /\ Head(inbox) \in Message
         /\ Head(inbox).reply => Head(inbox).from \in Callers
         /\ \A i \in DOMAIN inbox' : inbox'[i].reply => inbox'[i].from \in Callers
<1>1. /\ inbox \in Seq(Message)
      /\ \A i \in DOMAIN inbox : inbox[i].reply => inbox[i].from \in Callers
  BY DEF SafetyInvariant, TypeOK, RepliesHaveCallers
<1>2. /\ inbox' \in Seq(Message) /\ Len(inbox') = Len(inbox) - 1 /\ Head(inbox) = inbox[1]
      /\ \A i \in 1 .. Len(inbox') : inbox'[i] = inbox[i + 1]
      /\ 1 \in DOMAIN inbox
  BY <1>1
<1>3. \A i \in 1 .. Len(inbox') : i + 1 \in DOMAIN inbox
  BY <1>1, <1>2
<1> QED
  BY <1>1, <1>2, <1>3

\* triggerFlush, on behalf of a message or of the ticker, whatever became of the inbox.
LEMMA TriggerFlushPreserves ==
  ASSUME SafetyInvariant, AtSelect, NEW m \in Message, m.reply => m.from \in Callers,
         TriggerFlush(m),
         UNCHANGED <<outbox, userKeys, deduplicatedContexts, lastKnownPastTime, disabled,
                     dropped, introducers, flushCh, senderResultCh, closed, workerVars,
                     callerVars, senderVars>>,
         inbox' \in Seq(Message),
         \A i \in DOMAIN inbox' : inbox'[i].reply => inbox'[i].from \in Callers
  PROVE  SafetyInvariant'
<1>1. /\ TypeOK /\ ProcessingTypeOK /\ WorkersGroupExact /\ DisabledStaysQuiet
      /\ workersGroup \in Nat /\ eventsInLastBatch \in Nat /\ dispatcher = "loop"
  BY DEF SafetyInvariant, TypeOK, ProcessingTypeOK, AtSelect
<1>2. /\ AnalyticsPayload \in Payload /\ AnalyticsPayload.kind = "analytics"
  BY <1>1, PayloadTypes
<1>3. /\ dispatcher' \in {"loop", "handoff", "awaitWorkers"} /\ current' \in Message
      /\ pending' \in Payload /\ workersGroup' \in Nat /\ eventsInLastBatch' \in Nat
      /\ workersGroup' = workersGroup + (IF dispatcher' = "handoff" THEN 1 ELSE 0)
      /\ dispatcher' # "handoff" => pending' = NoPayload
      /\ dispatcher' = "handoff" => ~disabled
      /\ current'.reply => current'.from \in Callers
      /\ dispatcher' = "awaitWorkers" => current'.reply
  <2>1. CASE GoOn(m) /\ UNCHANGED workersGroup /\ eventsInLastBatch' \in Nat
    BY <1>1, <2>1, GoOnEffect
  <2>2. CASE ~disabled /\ BeginHandoff(m, AnalyticsPayload) /\ UNCHANGED eventsInLastBatch
    BY <1>1, <1>2, <2>2 DEF BeginHandoff
  <2> QED
    BY <1>1, <2>1, <2>2 DEF TriggerFlush
<1>4. /\ closed = FALSE /\ Busy' = Busy
      /\ workerState' \in [Workers -> WorkerStates]
      /\ workerPayload' \in [Workers -> Payload]
      /\ workerResult' \in [Workers -> Result]
      /\ callerState' \in [Callers -> CallerStates]
      /\ serverTime' \in Nat /\ recorded' \subseteq Events
      /\ covered' \in [Callers -> SUBSET Events]
      /\ attempted' \subseteq [event : Events, kind : OutputKinds \cup {"summary"}]
      /\ droppedReported' \in Nat
  BY <1>1, DispatcherFrame DEF callerVars
<1>5. ProcessingTypeOK'
  BY <1>1, <1>3 DEF ProcessingTypeOK
<1>6. TypeOK'
  BY <1>1, <1>3, <1>4, <1>5 DEF TypeOK, DispatcherStates, callerVars
<1>7. WorkersGroupExact'
  BY <1>1, <1>3, <1>4, BusyFinite DEF WorkersGroupExact, TypeOK
<1>8. ShutdownQuiescent'
  BY <1>4 DEF ShutdownQuiescent
<1>9. DisabledStaysQuiet'
  BY <1>1, <1>3, PayloadTypes DEF DisabledStaysQuiet, Carried
<1>10. PendingOnlyInHandoff' /\ RepliesHaveCallers'
  BY <1>3 DEF PendingOnlyInHandoff, RepliesHaveCallers
<1> QED
  BY <1>6, <1>7, <1>8, <1>9, <1>10 DEF SafetyInvariant

\* A payload enters flushCh, or is refused and its Add(1) taken back.
LEMMA HandoffPreserves ==
  ASSUME SafetyInvariant, HandoffAccepted \/ HandoffRefused PROVE SafetyInvariant'
<1>1. /\ TypeOK /\ ProcessingTypeOK /\ WorkersGroupExact /\ DisabledStaysQuiet
      /\ RepliesHaveCallers /\ dispatcher = "handoff" /\ pending \in Payload
      /\ current \in Message /\ (current.reply => current.from \in Callers)
  BY DEF SafetyInvariant, TypeOK, RepliesHaveCallers, HandoffAccepted, HandoffRefused
<1>2. GoOn(current) /\ UNCHANGED <<workerVars, callerVars, senderVars, inbox, senderResultCh, closed>>
  BY DEF HandoffAccepted, HandoffRefused
<1>3. /\ dispatcher' \in {"loop", "awaitWorkers"} /\ current' \in Message
      /\ pending' = NoPayload /\ pending' \in Payload
      /\ current'.reply => current'.from \in Callers
      /\ dispatcher' = "awaitWorkers" => current'.reply
  BY <1>1, <1>2, GoOnEffect
<1>4. /\ closed = FALSE /\ Busy' = Busy /\ Cardinality(Busy) \in Nat
      /\ workerState' \in [Workers -> WorkerStates]
      /\ workerPayload' \in [Workers -> Payload]
      /\ workerResult' \in [Workers -> Result]
      /\ callerState' \in [Callers -> CallerStates]
      /\ serverTime' \in Nat /\ recorded' \subseteq Events
      /\ covered' \in [Callers -> SUBSET Events]
      /\ attempted' \subseteq [event : Events, kind : OutputKinds \cup {"summary"}]
      /\ droppedReported' \in Nat
  BY <1>1, <1>2, DispatcherFrame DEF callerVars
<1>5. /\ flushCh \in Seq(Payload) /\ workersGroup = 1 + Len(flushCh) + Cardinality(Busy)
  BY <1>1 DEF TypeOK, WorkersGroupExact
<1>6. CASE HandoffAccepted
  <2>1. /\ flushCh' \in Seq(Payload) /\ Len(flushCh') = Len(flushCh) + 1 /\ Len(flushCh') <= 1
        /\ workersGroup' = workersGroup /\ disabled' = disabled
    BY <1>1, <1>5, <1>6 DEF HandoffAccepted
  <2>2. ProcessingTypeOK'
    <3>1. EventCount(pending) \in Nat /\ Capacity \in Nat
      BY <1>1, EventCountType, ProcessingAssumption
    <3>2. CASE outbox' = ClearedOutbox /\ eventsInLastBatch' = EventCount(pending)
      BY <1>1, <1>6, <3>1, <3>2, ClearedOutboxEmpty DEF HandoffAccepted, ProcessingTypeOK
    <3>3. CASE UNCHANGED <<outbox, eventsInLastBatch>>
      BY <1>1, <1>6, <3>3 DEF HandoffAccepted, ProcessingTypeOK
    <3> QED
      BY <1>6, <3>2, <3>3 DEF HandoffAccepted
  <2>3. TypeOK'
    BY <1>1, <1>2, <1>3, <1>4, <2>1, <2>2 DEF TypeOK, DispatcherStates, callerVars
  <2>4. WorkersGroupExact'
    BY <1>3, <1>4, <1>5, <2>1 DEF WorkersGroupExact
  <2>5. DisabledStaysQuiet'
    <3>1. disabled => outbox' = outbox
      BY <1>1, <1>6 DEF HandoffAccepted, DisabledStaysQuiet
    <3> QED
      BY <1>1, <1>3, <2>1, <3>1, PayloadTypes DEF DisabledStaysQuiet, Carried
  <2>6. ShutdownQuiescent' /\ PendingOnlyInHandoff' /\ RepliesHaveCallers'
    BY <1>1, <1>2, <1>3, <1>4 DEF ShutdownQuiescent, PendingOnlyInHandoff, RepliesHaveCallers
  <2> QED
    BY <2>3, <2>4, <2>5, <2>6 DEF SafetyInvariant
<1>7. CASE HandoffRefused
  <2>1. /\ flushCh' = flushCh /\ workersGroup' = Len(flushCh) + Cardinality(Busy)
        /\ UNCHANGED processingVars
    BY <1>4, <1>5, <1>7 DEF HandoffRefused, AddCancelled
  <2>2. ProcessingTypeOK'
    BY <1>1, <2>1 DEF ProcessingTypeOK, processingVars
  <2>3. workersGroup' \in Nat
    BY <1>4, <1>5, <2>1
  <2>4. TypeOK'
    BY <1>1, <1>2, <1>3, <1>4, <2>1, <2>2, <2>3 DEF TypeOK, DispatcherStates, callerVars
  <2>5. WorkersGroupExact'
    BY <1>3, <1>4, <1>5, <2>1 DEF WorkersGroupExact
  <2>6. DisabledStaysQuiet'
    BY <1>1, <1>3, <2>1, PayloadTypes DEF DisabledStaysQuiet, Carried, processingVars
  <2>7. ShutdownQuiescent' /\ PendingOnlyInHandoff' /\ RepliesHaveCallers'
    BY <1>1, <1>2, <1>3, <1>4 DEF ShutdownQuiescent, PendingOnlyInHandoff, RepliesHaveCallers
  <2> QED
    BY <2>4, <2>5, <2>6, <2>7 DEF SafetyInvariant
<1> QED
  BY <1>6, <1>7

\* A message that is handled without a payload for the workers.
LEMMA ReceiveMessagePreserves ==
  ASSUME SafetyInvariant, ReceiveMessage PROVE SafetyInvariant'
<1>1. /\ TypeOK /\ ProcessingTypeOK /\ WorkersGroupExact /\ DisabledStaysQuiet
      /\ PendingOnlyInHandoff /\ RepliesHaveCallers /\ AtSelect
  BY DEF SafetyInvariant, TypeOK, ReceiveMessage, ReceiveEvent, ReceiveFlush,
         ReceiveSyncOrShutdown, Receive
<1>2. /\ inbox # << >> /\ inbox' = Tail(inbox)
      /\ UNCHANGED <<flushCh, senderResultCh, closed, workerVars, callerVars, senderVars>>
  BY DEF ReceiveMessage, ReceiveEvent, ReceiveFlush, ReceiveSyncOrShutdown, Receive
<1>3. /\ inbox' \in Seq(Message) /\ Head(inbox) \in Message
      /\ Head(inbox).reply => Head(inbox).from \in Callers
      /\ \A i \in DOMAIN inbox' : inbox'[i].reply => inbox'[i].from \in Callers
  BY <1>2, InboxShrinks
<1>4. /\ closed = FALSE /\ Busy' = Busy
      /\ workerState' \in [Workers -> WorkerStates]
      /\ workerPayload' \in [Workers -> Payload]
      /\ workerResult' \in [Workers -> Result]
      /\ callerState' \in [Callers -> CallerStates]
      /\ serverTime' \in Nat /\ recorded' \subseteq Events
      /\ covered' \in [Callers -> SUBSET Events]
      /\ attempted' \subseteq [event : Events, kind : OutputKinds \cup {"summary"}]
      /\ droppedReported' \in Nat
  BY <1>1, <1>2, DispatcherFrame DEF callerVars, AtSelect
<1>5. CASE ReceiveFlush
  BY <1>1, <1>2, <1>3, <1>5, TriggerFlushPreserves DEF ReceiveFlush
<1>6. CASE ReceiveEvent
  <2>1. Head(inbox).event \in Events
    BY <1>3, <1>6 DEF ReceiveEvent, Receive, Message
  <2>2. ProcessEvent(Head(inbox).event) /\ UNCHANGED <<workersGroup, dispatcherVars>>
    BY <1>6 DEF ReceiveEvent
  <2>3. ProcessingTypeOK' /\ UNCHANGED disabled
    BY <1>1, <2>1, <2>2, ProcessEventType
  <2>4. TypeOK'
    BY <1>1, <1>2, <1>3, <1>4, <2>2, <2>3 DEF TypeOK, dispatcherVars, callerVars
  <2>5. WorkersGroupExact' /\ ShutdownQuiescent'
    BY <1>1, <1>2, <1>4, <2>2 DEF WorkersGroupExact, ShutdownQuiescent, dispatcherVars
  <2>6. DisabledStaysQuiet'
    <3>1. disabled => UNCHANGED outbox
      BY <2>2 DEF ProcessEvent, processingVars
    <3> QED
      BY <1>1, <2>2, <2>3, <3>1 DEF DisabledStaysQuiet, Carried, dispatcherVars
  <2>7. PendingOnlyInHandoff' /\ RepliesHaveCallers'
    BY <1>1, <1>3, <2>2 DEF PendingOnlyInHandoff, RepliesHaveCallers, dispatcherVars
  <2> QED
    BY <2>4, <2>5, <2>6, <2>7 DEF SafetyInvariant
<1>7. CASE ReceiveSyncOrShutdown
  <2>1. /\ dispatcher' \in {"loop", "awaitWorkers"} /\ current' \in Message
        /\ pending' = NoPayload /\ pending' \in Payload
        /\ current'.reply => current'.from \in Callers
        /\ dispatcher' = "awaitWorkers" => current'.reply
    BY <1>3, <1>7, GoOnEffect DEF ReceiveSyncOrShutdown
  <2>2. UNCHANGED <<processingVars, workersGroup>>
    BY <1>7 DEF ReceiveSyncOrShutdown
  <2>3. ProcessingTypeOK'
    BY <1>1, <2>2 DEF ProcessingTypeOK, processingVars
  <2>4. TypeOK'
    BY <1>1, <1>2, <1>3, <1>4, <2>1, <2>2, <2>3 DEF TypeOK, DispatcherStates, callerVars
  <2>5. WorkersGroupExact' /\ ShutdownQuiescent'
    BY <1>1, <1>2, <1>4, <2>1, <2>2 DEF WorkersGroupExact, ShutdownQuiescent, AtSelect
  <2>6. DisabledStaysQuiet'
    BY <1>1, <2>1, <2>2, PayloadTypes DEF DisabledStaysQuiet, Carried, processingVars
  <2>7. PendingOnlyInHandoff' /\ RepliesHaveCallers'
    BY <1>3, <2>1 DEF PendingOnlyInHandoff, RepliesHaveCallers
  <2> QED
    BY <2>4, <2>5, <2>6, <2>7 DEF SafetyInvariant
<1> QED
  BY <1>5, <1>6, <1>7 DEF ReceiveMessage

\* workersGroup.Wait() is over, for any message: with no payload on its way, the
\* workers are idle and flushCh is empty.
LEMMA WaitOverPreserves ==
  ASSUME SafetyInvariant, ReplyToCaller \/ Shutdown PROVE SafetyInvariant'
<1>1. /\ TypeOK /\ ProcessingTypeOK /\ WorkersGroupExact /\ DisabledStaysQuiet
      /\ PendingOnlyInHandoff /\ RepliesHaveCallers
      /\ dispatcher = "awaitWorkers" /\ workersGroup = 0
  BY DEF SafetyInvariant, TypeOK, ReplyToCaller, Shutdown, AllFlushesDone
<1>2. /\ UNCHANGED <<processingVars, inbox, flushCh, senderResultCh, workersGroup, pending,
                     workerVars, callerState, recorded, covered, senderVars>>
      /\ dispatcher' \in {"loop", "stopped"} /\ current' = NoMessage
      /\ replies' = replies \cup {current.from}
      /\ closed' \in BOOLEAN /\ (dispatcher' = "loop" => closed' = closed)
  BY <1>1 DEF ReplyToCaller, Shutdown, channelVars, TypeOK
<1>3. current.from \in Callers
  BY <1>1 DEF RepliesHaveCallers
<1>4. /\ closed = FALSE /\ Busy' = Busy
      /\ workerState' \in [Workers -> WorkerStates]
      /\ workerPayload' \in [Workers -> Payload]
      /\ workerResult' \in [Workers -> Result]
      /\ callerState' \in [Callers -> CallerStates]
      /\ serverTime' \in Nat /\ recorded' \subseteq Events
      /\ covered' \in [Callers -> SUBSET Events]
      /\ attempted' \subseteq [event : Events, kind : OutputKinds \cup {"summary"}]
      /\ droppedReported' \in Nat
  BY <1>1, <1>2, DispatcherFrame
<1>5. ProcessingTypeOK'
  BY <1>1, <1>2 DEF ProcessingTypeOK, processingVars
<1>6. NoMessage \in Message /\ NoMessage.reply = FALSE
  BY MessageTypes DEF NoMessage
<1>7. TypeOK'
  BY <1>1, <1>2, <1>3, <1>4, <1>5, <1>6 DEF TypeOK, DispatcherStates
<1>8. WorkersGroupExact'
  BY <1>1, <1>2, <1>4 DEF WorkersGroupExact
<1>9. flushCh = << >> /\ Busy = {}
  <2>1. flushCh \in Seq(Payload) /\ Len(flushCh) + Cardinality(Busy) = 0
    BY <1>1 DEF WorkersGroupExact, TypeOK
  <2>2. Len(flushCh) = 0 /\ Cardinality(Busy) = 0
    BY <2>1, BusyFinite
  <2> QED
    BY <2>1, <2>2, BusyFinite
<1>10. ShutdownQuiescent'
  BY <1>2, <1>4, <1>9 DEF ShutdownQuiescent
<1>11. DisabledStaysQuiet' /\ PendingOnlyInHandoff'
  BY <1>1, <1>2 DEF DisabledStaysQuiet, PendingOnlyInHandoff, Carried, processingVars
<1>12. RepliesHaveCallers'
  BY <1>1, <1>2, <1>6 DEF RepliesHaveCallers
<1> QED
  BY <1>7, <1>8, <1>10, <1>11, <1>12 DEF SafetyInvariant

\* A result, or one of the tickers other than the flush ticker.
LEMMA OtherCasesPreserve ==
  ASSUME SafetyInvariant, ReceiveResult \/ UsersResetTick \/ DiagnosticsTick
  PROVE  SafetyInvariant'
<1>1. /\ TypeOK /\ ProcessingTypeOK /\ WorkersGroupExact /\ DisabledStaysQuiet
      /\ PendingOnlyInHandoff /\ RepliesHaveCallers /\ dispatcher = "loop"
      /\ UNCHANGED <<inbox, flushCh, closed, workerVars, callerVars, senderVars>>
  BY DEF SafetyInvariant, TypeOK, ReceiveResult, UsersResetTick, DiagnosticsTick, AtSelect,
         channelVars
<1>2. /\ closed = FALSE /\ Busy' = Busy /\ Cardinality(Busy) \in Nat
      /\ workerState' \in [Workers -> WorkerStates]
      /\ workerPayload' \in [Workers -> Payload]
      /\ workerResult' \in [Workers -> Result]
      /\ callerState' \in [Callers -> CallerStates]
      /\ serverTime' \in Nat /\ recorded' \subseteq Events
      /\ covered' \in [Callers -> SUBSET Events]
      /\ attempted' \subseteq [event : Events, kind : OutputKinds \cup {"summary"}]
      /\ droppedReported' \in Nat
  BY <1>1, DispatcherFrame DEF callerVars
<1>3. ShutdownQuiescent'
  BY <1>1, <1>2 DEF ShutdownQuiescent
<1>4. CASE ReceiveResult
  <2> USE <1>4 DEF ReceiveResult
  <2>1. /\ senderResultCh' \in Seq(Result) /\ Len(senderResultCh') <= MaxFlushWorkers
        /\ Head(senderResultCh) \in Result
    <3>1. senderResultCh \in Seq(Result) /\ Len(senderResultCh) <= MaxFlushWorkers
      BY <1>1 DEF TypeOK
    <3>2. MaxFlushWorkers \in Nat
      BY DispatcherAssumption, FS_CardinalityType DEF MaxFlushWorkers
    <3> QED
      BY <3>1, <3>2
  <2>2. ProcessingTypeOK' /\ DisabledStaysQuiet'
    <3> DEFINE r == Head(senderResultCh)
    <3>1. r.timeFromServer \in Nat
      BY <2>1 DEF Result
    <3>2. CASE disabled /\ UNCHANGED processingVars
      BY <1>1, <3>2 DEF ProcessingTypeOK, DisabledStaysQuiet, processingVars, Carried,
                        dispatcherVars
    <3>3. CASE /\ ~disabled /\ disabled' = TRUE /\ outbox' = ClearedOutbox
               /\ UNCHANGED <<userKeys, deduplicatedContexts, eventsInLastBatch,
                              lastKnownPastTime, dropped, introducers>>
      <4>1. /\ outbox' \in [events : Seq(Output), summary : SUBSET Events, droppedEvents : Nat]
            /\ Len(outbox'.events) = 0 /\ Carried(outbox') = {}
        BY <1>1, <3>3, ClearedOutboxEmpty
      <4>2. pending'.kind # "analytics"
        BY <1>1, PayloadTypes DEF PendingOnlyInHandoff, dispatcherVars
      <4>3. Capacity \in Nat
        BY ProcessingAssumption
      <4>4. Carried(outbox)' = Carried(outbox')
        BY DEF Carried
      <4>5. DisabledStaysQuiet'
        BY <4>1, <4>2, <4>4 DEF DisabledStaysQuiet
      <4> QED
        BY <1>1, <3>3, <4>1, <4>3, <4>5 DEF ProcessingTypeOK
    <3>4. CASE /\ ~disabled /\ lastKnownPastTime' \in Nat
               /\ UNCHANGED <<outbox, userKeys, deduplicatedContexts, eventsInLastBatch,
                              disabled, dropped, introducers>>
      BY <1>1, <3>4 DEF ProcessingTypeOK, DisabledStaysQuiet
    <3> QED
      BY <1>1, <3>1, <3>2, <3>3, <3>4 DEF HandleResult, ProcessingTypeOK
  <2>3. TypeOK'
    BY <1>1, <1>2, <2>1, <2>2 DEF TypeOK, dispatcherVars, callerVars
  <2>4. WorkersGroupExact' /\ PendingOnlyInHandoff' /\ RepliesHaveCallers'
    BY <1>1, <1>2 DEF WorkersGroupExact, PendingOnlyInHandoff, RepliesHaveCallers, dispatcherVars
  <2> QED
    BY <1>3, <2>2, <2>3, <2>4 DEF SafetyInvariant
<1>5. CASE UsersResetTick
  <2> USE <1>5 DEF UsersResetTick, ResetUserKeys
  <2>1. ProcessingTypeOK'
    <3>1. IsCache(UserKeysCapacity, userKeys', Contexts)
      BY ProcessingAssumption DEF IsCache, EmptyCache
    <3> QED
      BY <1>1, <3>1 DEF ProcessingTypeOK
  <2>2. TypeOK'
    BY <1>1, <1>2, <2>1 DEF TypeOK, channelVars, dispatcherVars, callerVars
  <2>3. WorkersGroupExact' /\ PendingOnlyInHandoff' /\ RepliesHaveCallers' /\ DisabledStaysQuiet'
    BY <1>1, <1>2 DEF WorkersGroupExact, PendingOnlyInHandoff, RepliesHaveCallers,
                      DisabledStaysQuiet, Carried, channelVars, dispatcherVars
  <2> QED
    BY <1>3, <2>2, <2>3 DEF SafetyInvariant
<1>6. CASE DiagnosticsTick
  <2> USE <1>6 DEF DiagnosticsTick
  <2> DEFINE stats == [droppedEvents |-> outbox.droppedEvents,
                       deduplicatedContexts |-> deduplicatedContexts,
                       eventsInLastBatch |-> eventsInLastBatch]
  <2>1. stats \in Stats
    BY <1>1 DEF Stats, ProcessingTypeOK
  <2>2. DiagnosticPayload(stats) \in Payload /\ DiagnosticPayload(stats).kind = "diagnostic"
    BY <2>1, PayloadTypes
  <2>3. BeginHandoff(NoMessage, DiagnosticPayload(stats))
    OBVIOUS
  <2> HIDE DEF stats
  <2>4. /\ workersGroup' = workersGroup + 1 /\ dispatcher' = "handoff"
        /\ current' = NoMessage /\ pending' \in Payload /\ pending'.kind = "diagnostic"
    BY <2>2, <2>3 DEF BeginHandoff
  <2>5. NoMessage \in Message /\ NoMessage.reply = FALSE
    BY MessageTypes DEF NoMessage
  <2>6. /\ outbox' \in [events : Seq(Output), summary : SUBSET Events, droppedEvents : Nat]
        /\ outbox'.events = outbox.events /\ outbox'.summary = outbox.summary
    BY <1>1 DEF ProcessingTypeOK, DropsReset
  <2>7. ProcessingTypeOK'
    BY <1>1, <2>6 DEF ProcessingTypeOK
  <2>8. TypeOK'
    BY <1>1, <1>2, <2>4, <2>5, <2>7 DEF TypeOK, DispatcherStates, callerVars
  <2>9. WorkersGroupExact'
    BY <1>1, <1>2, <2>4 DEF WorkersGroupExact, TypeOK
  <2>10. PendingOnlyInHandoff' /\ RepliesHaveCallers'
    BY <1>1, <2>4, <2>5 DEF PendingOnlyInHandoff, RepliesHaveCallers
  <2>11. DisabledStaysQuiet'
    BY <1>1, <2>4, <2>6 DEF DisabledStaysQuiet, Carried
  <2> QED
    BY <1>3, <2>8, <2>9, <2>10, <2>11 DEF SafetyInvariant
<1> QED
  BY <1>4, <1>5, <1>6

\* Every case of the select in runMainLoop preserves the invariant.
LEMMA DispatcherStepPreserves ==
  ASSUME SafetyInvariant, DispatcherStep PROVE SafetyInvariant'
<1>1. CASE FlushTick
  <2>1. NoMessage \in Message /\ NoMessage.reply = FALSE
    BY MessageTypes DEF NoMessage
  <2>2. /\ inbox' \in Seq(Message)
        /\ \A i \in DOMAIN inbox' : inbox'[i].reply => inbox'[i].from \in Callers
    BY <1>1 DEF FlushTick, SafetyInvariant, TypeOK, RepliesHaveCallers
  <2> QED
    BY <1>1, <2>1, <2>2, TriggerFlushPreserves DEF FlushTick
<1> QED
  BY <1>1, HandoffPreserves, ReceiveMessagePreserves, WaitOverPreserves, OtherCasesPreserve
     DEF DispatcherStep
-----------------------------------------------------------------------------
(* The theorems.                                                           *)

\* A new event processor satisfies the invariant, with diagnostics and without.
LEMMA InitEstablishes == Init => SafetyInvariant
<1> SUFFICES ASSUME Init PROVE SafetyInvariant
  OBVIOUS
<1>1. ProcessingTypeOK
  <2>1. IsCache(UserKeysCapacity, userKeys, Contexts)
    BY ProcessingAssumption DEF Init, ProcessingInit, EmptyCache, IsCache
  <2>2. /\ outbox \in [events : Seq(Output), summary : SUBSET Events, droppedEvents : Nat]
        /\ Len(outbox.events) = 0
    BY DEF Init, ProcessingInit
  <2>3. Len(outbox.events) <= Capacity
    BY <2>2, ProcessingAssumption
  <2> QED
    BY <2>1, <2>2, <2>3 DEF Init, ProcessingInit, ProcessingTypeOK
<1>2. NoStats \in Stats
  BY DEF NoStats, Stats
<1>3. /\ flushCh \in Seq(Payload) /\ Len(flushCh) = workersGroup
      /\ workersGroup \in {0, 1}
  BY <1>2, PayloadTypes DEF Init
<1>4. Busy = {} /\ Cardinality(Busy) = 0
  BY FS_EmptySet DEF Init, Busy
<1>5. MaxFlushWorkers \in Nat
  BY DispatcherAssumption, FS_CardinalityType DEF MaxFlushWorkers
<1>6. NoMessage \in Message /\ NoMessage.reply = FALSE
  BY MessageTypes DEF NoMessage
<1>7. TypeOK
  <2>1. /\ workerState \in [Workers -> WorkerStates]
        /\ workerPayload \in [Workers -> Payload]
        /\ workerResult \in [Workers -> Result]
    BY PayloadTypes, ResultTypes DEF Init, WorkerStates
  <2>2. /\ callerState \in [Callers -> CallerStates] /\ replies \subseteq Callers
        /\ covered \in [Callers -> SUBSET Events]
    BY DEF Init, CallerStates
  <2>3. /\ inbox \in Seq(Message) /\ senderResultCh \in Seq(Result)
        /\ Len(senderResultCh) <= MaxFlushWorkers
    BY <1>5 DEF Init
  <2>4. /\ Len(flushCh) <= 1 /\ workersGroup \in Nat
    BY <1>3
  <2>5. /\ closed \in BOOLEAN /\ dispatcher \in DispatcherStates
        /\ current \in Message /\ pending \in Payload
    BY <1>6, PayloadTypes DEF Init, DispatcherStates
  <2>6. /\ serverTime \in Nat /\ recorded \subseteq Events /\ droppedReported \in Nat
        /\ attempted \subseteq [event : Events, kind : OutputKinds \cup {"summary"}]
    BY DEF Init
  <2> QED
    BY <1>1, <1>3, <2>1, <2>2, <2>3, <2>4, <2>5, <2>6 DEF TypeOK
<1> QED
  BY <1>3, <1>4, <1>6, <1>7 DEF Init, ProcessingInit, SafetyInvariant, WorkersGroupExact,
     ShutdownQuiescent, DisabledStaysQuiet, PendingOnlyInHandoff, RepliesHaveCallers

\* Every step of every goroutine preserves the invariant.
LEMMA NextPreserves == SafetyInvariant /\ [Next]_vars => SafetyInvariant'
<1> SUFFICES ASSUME SafetyInvariant, [Next]_vars PROVE SafetyInvariant'
  OBVIOUS
<1>1. CASE UNCHANGED vars
  <2>1. SafetyInvariant' <=> SafetyInvariant
    BY <1>1 DEF vars, processingVars, channelVars, dispatcherVars, workerVars, callerVars,
       senderVars, SafetyInvariant, TypeOK, ProcessingTypeOK, WorkersGroupExact,
       ShutdownQuiescent, DisabledStaysQuiet, PendingOnlyInHandoff, RepliesHaveCallers, Busy, Carried
  <2> QED
    BY <2>1
<1>2. CASE Next
  BY <1>2, RecordEventPreserves, FlushPreserves, CallerStepPreserves, DispatcherStepPreserves,
     WorkerStepPreserves, ServerClockPreserves DEF Next
<1> QED
  BY <1>1, <1>2

\* Everything the proofs rely on holds in every reachable state.
THEOREM SafetyInvariantHolds == Spec => []SafetyInvariant
  BY InitEstablishes, NextPreserves, PTL DEF Spec

\* The state is well-formed: in particular no more results wait than
\* senderResultCh holds, and the outbox never exceeds its capacity.
THEOREM TypeCorrect == Spec => []TypeOK
<1>1. SafetyInvariant => TypeOK
  BY DEF SafetyInvariant
<1> QED
  BY <1>1, SafetyInvariantHolds, PTL

\* The WaitGroup counts the payloads on their way, however the handoffs, the
\* refusals and the workers interleave.
THEOREM WorkersGroupIsExact == Spec => []WorkersGroupExact
<1>1. SafetyInvariant => WorkersGroupExact
  BY DEF SafetyInvariant
<1> QED
  BY <1>1, SafetyInvariantHolds, PTL

\* No worker sends on a closed channel: when the channels are closed, nothing is
\* queued and no worker is busy.
THEOREM ShutdownIsQuiescent == Spec => []ShutdownQuiescent
<1>1. SafetyInvariant => ShutdownQuiescent
  BY DEF SafetyInvariant
<1> QED
  BY <1>1, SafetyInvariantHolds, PTL

\* After an unrecoverable error nothing is buffered and nothing more is offered.
THEOREM DisabledIsQuiet == Spec => []DisabledStaysQuiet
<1>1. SafetyInvariant => DisabledStaysQuiet
  BY DEF SafetyInvariant
<1> QED
  BY <1>1, SafetyInvariantHolds, PTL
-----------------------------------------------------------------------------
(* What can hold up a wait.                                                *)

\* A worker exits only when flushCh is closed, and it is never opened again.
LEMMA WorkersStayNext == SafetyInvariant /\ WorkersStay /\ [Next]_vars => WorkersStay'
<1> SUFFICES ASSUME SafetyInvariant, WorkersStay, [Next]_vars PROVE WorkersStay'
  OBVIOUS
<1>1. workerState \in [Workers -> WorkerStates]
  BY DEF SafetyInvariant, TypeOK
<1>2. CASE \E w \in Workers : WorkerStep(w)
  <2>1. PICK w \in Workers : WorkerStep(w)
    BY <1>2
  <2>2. closed' = closed
    BY <2>1 DEF WorkerStep, TakePayload, SendReturns, PostResult, FinishPayload, ExitWorker,
       channelVars
  <2>3. PICK state \in WorkerStates :
          /\ workerState' = [workerState EXCEPT ![w] = state]
          /\ state = "exited" => closed
    BY <2>1 DEF WorkerStep, TakePayload, SendReturns, PostResult, FinishPayload, ExitWorker,
       WorkerStates
  <2> QED
    BY <1>1, <2>2, <2>3 DEF WorkersStay
<1>3. CASE ~(\E w \in Workers : WorkerStep(w))
  <2>1. workerState' = workerState
    BY <1>3 DEF Next, vars, RecordEvent, Flush, CallerStep, FlushBlocking, FlushBlockingTimesOut,
       WaitUntilInactive, ReceiveReply, Close, CloseSendsFlush, CloseSendsShutdown, CloseAgain,
       SendToInbox, CallerGoesTo, DispatcherStep, ReceiveMessage, ReceiveEvent, ReceiveFlush,
       ReceiveSyncOrShutdown, Receive, ReceiveResult, FlushTick, UsersResetTick, DiagnosticsTick,
       HandoffAccepted, HandoffRefused, ReplyToCaller, Shutdown, ServerClock, workerVars
  <2>2. closed' = closed \/ closed' = TRUE
    BY <1>3 DEF Next, vars, RecordEvent, Flush, CallerStep, FlushBlocking, FlushBlockingTimesOut,
       WaitUntilInactive, ReceiveReply, Close, CloseSendsFlush, CloseSendsShutdown, CloseAgain,
       SendToInbox, CallerGoesTo, DispatcherStep, ReceiveMessage, ReceiveEvent, ReceiveFlush,
       ReceiveSyncOrShutdown, Receive, ReceiveResult, FlushTick, UsersResetTick, DiagnosticsTick,
       HandoffAccepted, HandoffRefused, ReplyToCaller, Shutdown, ServerClock, channelVars
  <2> QED
    BY <2>1, <2>2 DEF WorkersStay
<1> QED
  BY <1>2, <1>3

\* While payloads are on their way, a worker has one of them or is there to take it.
LEMMA SomeWorkerHasThePayload ==
  ASSUME SafetyInvariant, WorkersStay, dispatcher = "awaitWorkers", workersGroup # 0,
         \A w \in Workers : ~CanGoOn(w)
  PROVE  /\ Len(senderResultCh) = MaxFlushWorkers
         /\ \E w \in Workers : workerState[w] = "posting"
<1>1. /\ closed = FALSE /\ workerState \in [Workers -> WorkerStates]
      /\ senderResultCh \in Seq(Result) /\ Len(senderResultCh) <= MaxFlushWorkers
      /\ workersGroup = Len(flushCh) + Cardinality(Busy)
  BY DEF SafetyInvariant, TypeOK, ShutdownQuiescent, WorkersGroupExact
<1>2. \A w \in Workers : /\ workerState[w] \in {"idle", "posting"}
                         /\ workerState[w] = "idle" => flushCh = << >>
                         /\ workerState[w] = "posting" => ~(Len(senderResultCh) < MaxFlushWorkers)
  BY <1>1 DEF WorkersStay, CanGoOn, WorkerStates
<1>3. \E w \in Workers : workerState[w] = "posting"
  <2>1. CASE flushCh # << >>
    <3>1. PICK w \in Workers : TRUE
      BY DispatcherAssumption
    <3> QED
      BY <1>2, <2>1, <3>1
  <2>2. CASE flushCh = << >>
    <3>1. Busy # {}
      <4>1. SUFFICES ASSUME Busy = {} PROVE FALSE
        OBVIOUS
      <4>2. Len(flushCh) = 0
        BY <2>2
      <4>3. Cardinality(Busy) = 0
        BY <4>1, FS_EmptySet
      <4> QED
        BY <1>1, <4>2, <4>3
    <3> QED
      BY <1>2, <3>1 DEF Busy
  <2> QED
    BY <2>1, <2>2
<1>4. Len(senderResultCh) = MaxFlushWorkers
  <2> DEFINE n == Len(senderResultCh)
             m == MaxFlushWorkers
  <2>1. n \in Nat /\ m \in Nat /\ n <= m /\ ~(n < m)
    BY <1>1, <1>2, <1>3, DispatcherAssumption, FS_CardinalityType DEF MaxFlushWorkers
  <2> HIDE DEF n, m
  <2>2. n = m
    BY <2>1
  <2> QED
    BY <2>2 DEF n, m
<1> QED
  BY <1>3, <1>4

\* A FlushBlocking or a Close whose message is being handled is held up by nothing but
\* results that have not been read, whatever the number of workers.
THEOREM WaitIsBlockedByResultsOnly == Spec => []WaitBlockedByResultsOnly
<1>1. Init => WorkersStay
  BY DEF Init, WorkersStay
<1>2. SafetyInvariant /\ WorkersStay => WaitBlockedByResultsOnly
  BY SomeWorkerHasThePayload DEF WaitBlockedByResultsOnly, ResultsNotRead
<1> QED
  BY <1>1, <1>2, WorkersStayNext, SafetyInvariantHolds, PTL DEF Spec

\* Once the dispatcher waits for a worker that waits for it, both do so for ever: this is
\* no state that a FlushBlocking or a Close gets out of.
THEOREM ResultsStayUnread == Spec => [][ResultsNotRead => ResultsNotRead']_vars
<1>1. ASSUME SafetyInvariant, Next, ResultsNotRead PROVE ResultsNotRead'
  <2>1. PICK w \in Workers : workerState[w] = "posting"
    BY <1>1 DEF ResultsNotRead
  <2>2. dispatcher = "awaitWorkers" /\ Len(senderResultCh) = MaxFlushWorkers
    BY <1>1 DEF ResultsNotRead
  <2>3. workersGroup # 0
    <3>1. workersGroup = Len(flushCh) + Cardinality(Busy) /\ Len(flushCh) \in Nat
      BY <1>1, <2>2 DEF SafetyInvariant, WorkersGroupExact, TypeOK
    <3>2. w \in Busy /\ IsFiniteSet(Busy)
      BY <2>1, DispatcherAssumption, FS_Subset DEF Busy
    <3>3. Cardinality(Busy) \in Nat /\ Cardinality(Busy) # 0
      BY <3>2, FS_EmptySet, FS_CardinalityType
    <3> QED
      BY <3>1, <3>3
  <2>4. ~DispatcherStep
    BY <2>2, <2>3 DEF DispatcherStep, ReceiveMessage, ReceiveEvent, ReceiveFlush,
       ReceiveSyncOrShutdown, Receive, ReceiveResult, FlushTick, UsersResetTick,
       DiagnosticsTick, AtSelect, HandoffAccepted, HandoffRefused, ReplyToCaller, Shutdown,
       AllFlushesDone
  <2>5. CASE \E v \in Workers : WorkerStep(v)
    <3>1. PICK v \in Workers : WorkerStep(v)
      BY <2>5
    <3>2. v # w /\ UNCHANGED <<senderResultCh, dispatcher>>
          /\ \E state : workerState' = [workerState EXCEPT ![v] = state]
      BY <2>1, <2>2, <3>1 DEF WorkerStep, TakePayload, SendReturns, PostResult, FinishPayload,
         ExitWorker, dispatcherVars, channelVars
    <3>3. workerState'[w] = "posting"
      BY <1>1, <2>1, <3>2 DEF SafetyInvariant, TypeOK
    <3> QED
      BY <2>2, <3>2, <3>3 DEF ResultsNotRead
  <2>6. CASE ~(\E v \in Workers : WorkerStep(v))
    <3>1. UNCHANGED <<senderResultCh, dispatcher, workerState>>
      BY <1>1, <2>4, <2>6 DEF Next, RecordEvent, Flush, CallerStep, FlushBlocking,
         FlushBlockingTimesOut, WaitUntilInactive, ReceiveReply, Close, CloseSendsFlush,
         CloseSendsShutdown, CloseAgain, SendToInbox, CallerGoesTo, ServerClock, channelVars,
         dispatcherVars, workerVars
    <3> QED
      BY <2>1, <2>2, <3>1 DEF ResultsNotRead
  <2> QED
    BY <2>5, <2>6
<1> QED
  BY <1>1, SafetyInvariantHolds, PTL DEF Spec
=============================================================================
