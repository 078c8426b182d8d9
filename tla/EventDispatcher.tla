--------------------------- MODULE EventDispatcher --------------------------
(***************************************************************************)
(* The default event processor (event_processor.go): the application's     *)
(* goroutines post messages to inboxCh, one dispatcher goroutine runs      *)
(* runMainLoop, a fixed pool of workers runs runFlushTask.  They share     *)
(* inboxCh, flushCh, senderResultCh and workersGroup.                      *)
(*                                                                         *)
(* Go channels.  A send on a full channel queues the sender, and a receive *)
(* moves the first queued sender's value into the buffer.  inbox holds the *)
(* buffer (its first Capacity messages) and, after it, the queued senders' *)
(* messages.  A select with several ready cases takes any of them.         *)
(***************************************************************************)
EXTENDS EventProcessing

CONSTANTS Workers,        \* the flush workers; maxFlushWorkers is their number
          Flushers,       \* calls of FlushBlocking
          TimedFlushers,  \* those with timeout > 0
          Syncers,        \* calls of waitUntilInactive, which the tests use
          Closers,        \* calls of Close
          Diagnostics,    \* config.DiagnosticsManager # nil
          MaxServerTime,  \* bound on the server's clock
          NoEvent, NoCaller

Callers == Flushers \cup Syncers \cup Closers
MaxFlushWorkers == Cardinality(Workers)

ASSUME DispatcherAssumption ==
  /\ IsFiniteSet(Workers) /\ Workers # {}
  /\ TimedFlushers \subseteq Flushers
  /\ Flushers \cap Syncers = {} /\ Flushers \cap Closers = {} /\ Syncers \cap Closers = {}
  /\ Diagnostics \in BOOLEAN
  /\ MaxServerTime \in Nat
  /\ NoEvent \notin Events /\ NoCaller \notin Callers

VARIABLES inbox, flushCh, senderResultCh, closed, workersGroup,  \* shared; closed: flushCh and senderResultCh
          dispatcher, current, pending,         \* dispatcher: where it is, message handled, payload to send
          workerState, workerPayload, workerResult,
          callerState, replies,                 \* replies: the callers whose replyCh got a value
          serverTime,                           \* the server's clock
          recorded, covered, attempted,         \* history, see below
          droppedReported                       \* history: dropped counts sent in diagnostic events

channelVars == <<inbox, flushCh, senderResultCh, closed, workersGroup>>
dispatcherVars == <<dispatcher, current, pending>>
workerVars == <<workerState, workerPayload, workerResult>>
callerVars == <<callerState, replies, recorded, covered>>
senderVars == <<serverTime, attempted, droppedReported>>
vars == <<processingVars, channelVars, dispatcherVars, workerVars, callerVars, senderVars>>

(* Messages, payloads and results.                                         *)

Message ==
  [type : {"event"}, event : Events, from : {NoCaller}, reply : {FALSE}] \cup
  [type : {"none", "flush", "sync", "shutdown"}, event : {NoEvent},
   from : Callers \cup {NoCaller}, reply : BOOLEAN]
NoMessage == [type |-> "none", event |-> NoEvent, from |-> NoCaller, reply |-> FALSE]
EventMessage(e) == [type |-> "event", event |-> e, from |-> NoCaller, reply |-> FALSE]
FlushMessage(c, reply) == [type |-> "flush", event |-> NoEvent, from |-> c, reply |-> reply]
SyncMessage(c) == [type |-> "sync", event |-> NoEvent, from |-> c, reply |-> TRUE]
ShutdownMessage(c) == [type |-> "shutdown", event |-> NoEvent, from |-> c, reply |-> TRUE]

Stats == [droppedEvents : Nat, deduplicatedContexts : Nat, eventsInLastBatch : Nat]
NoStats == [droppedEvents |-> 0, deduplicatedContexts |-> 0, eventsInLastBatch |-> 0]

Payload == [kind : {"none", "analytics", "diagnostic"}, events : Seq(Output),
            summary : SUBSET Events, stats : Stats]
NoPayload == [kind |-> "none", events |-> << >>, summary |-> {}, stats |-> NoStats]
DiagnosticPayload(stats) ==
  [kind |-> "diagnostic", events |-> << >>, summary |-> {}, stats |-> stats]

\* getPayload: a copy of the events and the summary.  (Faulty: no summary.)
EventsOnlyPayload ==
  [kind |-> "analytics", events |-> outbox.events, summary |-> {}, stats |-> NoStats]
AnalyticsPayload ==
  [kind |-> "analytics", events |-> outbox.events, summary |-> outbox.summary, stats |-> NoStats]

\* totalEventCount: the summary is one more event if it has counters.  (Faulty:
\* it is not counted.)
EventCountNoSummary(p) == Len(p.events)
EventCount(p) == Len(p.events) + (IF p.summary # {} THEN 1 ELSE 0)

\* Everything of an input that a payload (or the outbox) carries.
Carried(p) == ToSet(p.events) \cup {[event |-> e, kind |-> "summary"] : e \in p.summary}

\* What SendEventData may return to a worker, as far as the dispatcher reads it:
\* a failure, a success with or without a Date, or an unrecoverable error.
Results == {[mustShutDown |-> TRUE, timeFromServer |-> 0]} \cup
           {[mustShutDown |-> FALSE, timeFromServer |-> t] : t \in {0, serverTime}}
Result == [mustShutDown : BOOLEAN, timeFromServer : Nat]
NoResult == [mustShutDown |-> FALSE, timeFromServer |-> 0]

WorkerStates == {"idle", "sending", "posting", "finishing", "exited"}
Busy == {w \in Workers : workerState[w] \in {"sending", "posting", "finishing"}}

DispatcherStates == {"loop", "handoff", "awaitWorkers", "stopped"}
CallerStates == {"idle", "called", "flushing", "waiting", "returned", "timedOut"}

TypeOK ==
  /\ ProcessingTypeOK
  /\ inbox \in Seq(Message)
  /\ flushCh \in Seq(Payload) /\ Len(flushCh) <= 1
  /\ senderResultCh \in Seq(Result) /\ Len(senderResultCh) <= MaxFlushWorkers
  /\ closed \in BOOLEAN
  /\ workersGroup \in Nat
  /\ dispatcher \in DispatcherStates
  /\ current \in Message
  /\ pending \in Payload
  /\ workerState \in [Workers -> WorkerStates]
  /\ workerPayload \in [Workers -> Payload]
  /\ workerResult \in [Workers -> Result]
  /\ callerState \in [Callers -> CallerStates]
  /\ replies \subseteq Callers
  /\ serverTime \in Nat
  /\ recorded \subseteq Events
  /\ covered \in [Callers -> SUBSET Events]
  /\ attempted \subseteq [event : Events, kind : OutputKinds \cup {"summary"}]
  /\ droppedReported \in Nat

\* NewDefaultEventProcessor: the workers are started and, with diagnostics, the
\* init event is already in flushCh when the constructor returns.
Init ==
  /\ ProcessingInit
  /\ inbox = << >>
  /\ flushCh = IF Diagnostics THEN <<DiagnosticPayload(NoStats)>> ELSE << >>
  /\ workersGroup = IF Diagnostics THEN 1 ELSE 0
  /\ senderResultCh = << >> /\ closed = FALSE
  /\ dispatcher = "loop" /\ current = NoMessage /\ pending = NoPayload
  /\ workerState = [w \in Workers |-> "idle"]
  /\ workerPayload = [w \in Workers |-> NoPayload]
  /\ workerResult = [w \in Workers |-> NoResult]
  /\ callerState = [c \in Callers |-> "idle"] /\ replies = {}
  /\ serverTime = 0
  /\ recorded = {} /\ covered = [c \in Callers |-> {}] /\ attempted = {}
  /\ droppedReported = 0
-----------------------------------------------------------------------------
(* The application's goroutines.                                           *)

\* postNonBlockingMessageToInbox: a message that finds the inbox full is lost.
PostNonBlocking(m) ==
  inbox' = IF Len(inbox) < Capacity THEN Append(inbox, m) ELSE inbox

\* A caller's message is in the buffer or already received.
Accepted(c) == \A i \in DOMAIN inbox : i > Capacity => inbox[i].from # c

\* The Record methods.  Each member of Events is recorded at most once.
RecordEvent(e) ==
  /\ e \notin recorded
  /\ recorded' = recorded \cup {e}
  /\ PostNonBlocking(EventMessage(e))
  /\ UNCHANGED <<processingVars, flushCh, senderResultCh, closed, workersGroup,
                 dispatcherVars, workerVars, callerState, replies, covered, senderVars>>

Flush ==
  /\ PostNonBlocking(FlushMessage(NoCaller, FALSE))
  /\ UNCHANGED <<processingVars, flushCh, senderResultCh, closed, workersGroup,
                 dispatcherVars, workerVars, callerVars, senderVars>>

\* A caller sends m with a blocking send and goes on to state.
SendToInbox(c, m, state) ==
  /\ inbox' = Append(inbox, m)
  /\ callerState' = [callerState EXCEPT ![c] = state]
  /\ UNCHANGED <<processingVars, flushCh, senderResultCh, closed, workersGroup,
                 dispatcherVars, workerVars, replies, recorded, senderVars>>

\* A caller goes on to state without touching the inbox.
CallerGoesTo(c, state) ==
  /\ callerState' = [callerState EXCEPT ![c] = state]
  /\ UNCHANGED <<processingVars, channelVars, dispatcherVars, workerVars, replies,
                 recorded, senderVars>>

\* The call begins: covered[c] is what the application has recorded before it.
Covers(c) == covered' = [covered EXCEPT ![c] = recorded]

FlushBlocking(c) ==
  /\ c \in Flushers /\ callerState[c] = "idle"
  /\ SendToInbox(c, FlushMessage(c, TRUE), "waiting")
  /\ Covers(c)

\* The timer is created only after the send to inboxCh has succeeded.
FlushBlockingTimesOut(c) ==
  /\ c \in TimedFlushers /\ callerState[c] = "waiting" /\ Accepted(c)
  /\ CallerGoesTo(c, "timedOut")
  /\ UNCHANGED covered

WaitUntilInactive(c) ==
  /\ c \in Syncers /\ callerState[c] = "idle"
  /\ SendToInbox(c, SyncMessage(c), "waiting")
  /\ Covers(c)

\* Any of the blocking calls gets its reply.
ReceiveReply(c) ==
  /\ callerState[c] = "waiting" /\ c \in replies
  /\ CallerGoesTo(c, "returned")
  /\ UNCHANGED covered

\* closeOnce: the first call runs the shutdown, the others wait until it is done.
\* (Faulty: every call runs it.)
NoCloseOnce == FALSE
CloseOnceTaken == \E c \in Closers : callerState[c] \in {"flushing", "waiting", "returned"}
CloseOnceDone == \E c \in Closers : callerState[c] = "returned"

Close(c) ==
  /\ c \in Closers /\ callerState[c] = "idle"
  /\ CallerGoesTo(c, "called")
  /\ Covers(c)

CloseSendsFlush(c) ==
  /\ c \in Closers /\ callerState[c] = "called" /\ ~CloseOnceTaken
  /\ SendToInbox(c, FlushMessage(c, FALSE), "flushing")
  /\ UNCHANGED covered

CloseSendsShutdown(c) ==
  /\ c \in Closers /\ callerState[c] = "flushing" /\ Accepted(c)
  /\ SendToInbox(c, ShutdownMessage(c), "waiting")
  /\ UNCHANGED covered

CloseAgain(c) ==
  /\ c \in Closers /\ callerState[c] = "called" /\ CloseOnceDone
  /\ CallerGoesTo(c, "returned")
  /\ UNCHANGED covered
-----------------------------------------------------------------------------
(* The dispatcher: runMainLoop.                                            *)

\* The main loop is at its select.
AtSelect == dispatcher = "loop"

\* After a message is handled: one that wants a reply waits for the workers.
\* (Faulty: no message does, and its reply is forgotten.)
GoOnAtOnce(m) == dispatcher' = "loop" /\ current' = NoMessage /\ pending' = NoPayload
GoOn(m) ==
  /\ dispatcher' = IF m.reply THEN "awaitWorkers" ELSE "loop"
  /\ current' = IF m.reply THEN m ELSE NoMessage
  /\ pending' = NoPayload

\* workersGroup.Wait() is over.  (Faulty: once flushCh is empty.)
NothingQueued == flushCh = << >>
AllFlushesDone == workersGroup = 0

\* The default branches take the Add(1) back.  (Faulty: they forget to.)
AddKept == workersGroup
AddCancelled == workersGroup - 1

\* workersGroup.Add(1), before the payload is offered to the workers.
BeginHandoff(m, payload) ==
  /\ workersGroup' = workersGroup + 1
  /\ dispatcher' = "handoff"
  /\ current' = m
  /\ pending' = payload

\* triggerFlush on behalf of m, up to the select on flushCh.
TriggerFlush(m) ==
  \/ /\ disabled
     /\ GoOn(m)
     /\ UNCHANGED <<workersGroup, eventsInLastBatch>>
  \/ /\ ~disabled /\ EventCount(AnalyticsPayload) = 0
     /\ eventsInLastBatch' = 0
     /\ GoOn(m)
     /\ UNCHANGED workersGroup
  \/ /\ ~disabled /\ EventCount(AnalyticsPayload) > 0
     /\ BeginHandoff(m, AnalyticsPayload)
     /\ UNCHANGED eventsInLastBatch

\* The rest of triggerFlush and of sendDiagnosticsEvent: there is room in flushCh.
HandoffAccepted ==
  /\ dispatcher = "handoff" /\ Len(flushCh) < 1
  /\ flushCh' = Append(flushCh, pending)
  /\ IF pending.kind = "analytics"
     THEN /\ eventsInLastBatch' = EventCount(pending)
          /\ outbox' = ClearedOutbox
     ELSE UNCHANGED <<eventsInLastBatch, outbox>>
  /\ GoOn(current)
  /\ UNCHANGED <<userKeys, deduplicatedContexts, lastKnownPastTime, disabled, dropped,
                 introducers, inbox, senderResultCh, closed, workersGroup, workerVars,
                 callerVars, senderVars>>

\* flushCh is full: the events stay in the outbox, a diagnostic event is discarded.
HandoffRefused ==
  /\ dispatcher = "handoff" /\ Len(flushCh) >= 1
  /\ workersGroup' = AddCancelled
  /\ GoOn(current)
  /\ UNCHANGED <<processingVars, inbox, flushCh, senderResultCh, closed, workerVars,
                 callerVars, senderVars>>

\* A message arrives from inboxCh.
Receive(type) ==
  /\ AtSelect /\ inbox # << >> /\ Head(inbox).type = type
  /\ inbox' = Tail(inbox)
  /\ UNCHANGED <<flushCh, senderResultCh, closed, workerVars, callerVars, senderVars>>

ReceiveEvent ==
  /\ Receive("event")
  /\ ProcessEvent(Head(inbox).event)
  /\ UNCHANGED <<workersGroup, dispatcherVars>>

ReceiveFlush ==
  /\ Receive("flush")
  /\ TriggerFlush(Head(inbox))
  /\ UNCHANGED <<outbox, userKeys, deduplicatedContexts, lastKnownPastTime, disabled,
                 dropped, introducers>>

ReceiveSyncOrShutdown ==
  /\ Receive("sync") \/ Receive("shutdown")
  /\ GoOn(Head(inbox))
  /\ UNCHANGED <<processingVars, workersGroup>>

\* The buffer of a caller's replyCh: FlushBlocking, which may have timed out by then,
\* makes room for its answer, the others do not.  (Faulty: nobody does.)
NoReplyBuffer(c) == 0
ReplyBuffer(c) == IF c \in Flushers THEN 1 ELSE 0

\* m.replyCh <- struct{}{} does not block: the caller waits for its answer, or the
\* buffer has room.
CanReply(c) ==
  \/ callerState[c] = "waiting" /\ c \notin replies
  \/ ReplyBuffer(c) > 0 /\ (c \in replies => callerState[c] = "returned")

\* The wait is over: the caller gets its reply.
ReplyToCaller ==
  /\ dispatcher = "awaitWorkers" /\ AllFlushesDone /\ current.type # "shutdown"
  /\ CanReply(current.from)
  /\ replies' = replies \cup {current.from}
  /\ dispatcher' = "loop" /\ current' = NoMessage
  /\ UNCHANGED <<processingVars, channelVars, pending, workerVars, callerState, recorded,
                 covered, senderVars>>

\* The same for a shutdown, which closes both channels and ends the loop.
Shutdown ==
  /\ dispatcher = "awaitWorkers" /\ AllFlushesDone /\ current.type = "shutdown"
  /\ CanReply(current.from)
  /\ closed' = TRUE
  /\ replies' = replies \cup {current.from}
  /\ dispatcher' = "stopped" /\ current' = NoMessage
  /\ UNCHANGED <<processingVars, inbox, flushCh, senderResultCh, workersGroup, pending,
                 workerVars, callerState, recorded, covered, senderVars>>

\* A worker's result arrives from senderResultCh.
HandleResult(r) ==
  \/ disabled /\ UNCHANGED processingVars
  \/ /\ ~disabled /\ r.mustShutDown
     /\ disabled' = TRUE
     /\ outbox' = ClearedOutbox
     /\ UNCHANGED <<userKeys, deduplicatedContexts, eventsInLastBatch, lastKnownPastTime,
                    dropped, introducers>>
  \/ /\ ~disabled /\ ~r.mustShutDown
     /\ lastKnownPastTime' = IF r.timeFromServer > 0 THEN r.timeFromServer ELSE lastKnownPastTime
     /\ UNCHANGED <<outbox, userKeys, deduplicatedContexts, eventsInLastBatch, disabled,
                    dropped, introducers>>

ReceiveResult ==
  /\ AtSelect /\ senderResultCh # << >>
  /\ senderResultCh' = Tail(senderResultCh)
  /\ HandleResult(Head(senderResultCh))
  /\ UNCHANGED <<inbox, flushCh, closed, workersGroup, dispatcherVars, workerVars,
                 callerVars, senderVars>>

\* The tickers.
FlushTick ==
  /\ AtSelect
  /\ TriggerFlush(NoMessage)
  /\ UNCHANGED <<outbox, userKeys, deduplicatedContexts, lastKnownPastTime, disabled,
                 dropped, introducers, inbox, flushCh, senderResultCh, closed, workerVars,
                 callerVars, senderVars>>

UsersResetTick ==
  /\ AtSelect
  /\ ResetUserKeys
  /\ UNCHANGED <<channelVars, dispatcherVars, workerVars, callerVars, senderVars>>

DiagnosticsTick ==
  /\ AtSelect /\ Diagnostics
  /\ BeginHandoff(NoMessage, DiagnosticPayload(
       [droppedEvents |-> outbox.droppedEvents, deduplicatedContexts |-> deduplicatedContexts,
        eventsInLastBatch |-> eventsInLastBatch]))
  /\ outbox' = DropsReset
  /\ deduplicatedContexts' = 0
  /\ eventsInLastBatch' = 0
  /\ UNCHANGED <<userKeys, lastKnownPastTime, disabled, dropped, introducers, inbox, flushCh,
                 senderResultCh, closed, workerVars, callerVars, senderVars>>
-----------------------------------------------------------------------------
(* The workers: runFlushTask.                                              *)

TakePayload(w) ==
  /\ workerState[w] = "idle" /\ flushCh # << >>
  /\ flushCh' = Tail(flushCh)
  /\ workerState' = [workerState EXCEPT ![w] = "sending"]
  /\ workerPayload' = [workerPayload EXCEPT ![w] = Head(flushCh)]
  /\ UNCHANGED <<processingVars, inbox, senderResultCh, closed, workersGroup, dispatcherVars,
                 workerResult, callerVars, senderVars>>

\* SendEventData returns.  The result of a diagnostic event is ignored, and an
\* empty payload would not be sent at all.
SendReturns(w) ==
  LET p        == workerPayload[w]
      reported == p.kind = "analytics" /\ EventCount(p) > 0
  IN  /\ workerState[w] = "sending"
      /\ \E r \in (IF reported THEN Results ELSE {NoResult}) :
           workerResult' = [workerResult EXCEPT ![w] = r]
      /\ workerState' = [workerState EXCEPT ![w] = IF reported THEN "posting" ELSE "finishing"]
      /\ workerPayload' = [workerPayload EXCEPT ![w] = NoPayload]
      /\ attempted' = attempted \cup Carried(p)
      /\ droppedReported' = droppedReported + p.stats.droppedEvents
      /\ UNCHANGED <<processingVars, channelVars, dispatcherVars, callerVars, serverTime>>

\* senderResultCh <- result blocks while the channel is full.
PostResult(w) ==
  /\ workerState[w] = "posting" /\ Len(senderResultCh) < MaxFlushWorkers
  /\ senderResultCh' = Append(senderResultCh, workerResult[w])
  /\ workerState' = [workerState EXCEPT ![w] = "finishing"]
  /\ workerResult' = [workerResult EXCEPT ![w] = NoResult]
  /\ UNCHANGED <<processingVars, inbox, flushCh, closed, workersGroup, dispatcherVars,
                 workerPayload, callerVars, senderVars>>

\* workersGroup.Done().
FinishPayload(w) ==
  /\ workerState[w] = "finishing"
  /\ workersGroup' = workersGroup - 1
  /\ workerState' = [workerState EXCEPT ![w] = "idle"]
  /\ UNCHANGED <<processingVars, inbox, flushCh, senderResultCh, closed, dispatcherVars,
                 workerPayload, workerResult, callerVars, senderVars>>

ExitWorker(w) ==
  /\ workerState[w] = "idle" /\ closed /\ flushCh = << >>
  /\ workerState' = [workerState EXCEPT ![w] = "exited"]
  /\ UNCHANGED <<processingVars, channelVars, dispatcherVars, workerPayload, workerResult,
                 callerVars, senderVars>>

\* The server's clock advances, at most to the bound MaxServerTime.
ServerClock ==
  /\ serverTime < MaxServerTime
  /\ serverTime' = serverTime + 1
  /\ UNCHANGED <<processingVars, channelVars, dispatcherVars, workerVars, callerVars,
                 attempted, droppedReported>>
-----------------------------------------------------------------------------
CallerStep(c) ==
  \/ FlushBlocking(c) \/ FlushBlockingTimesOut(c) \/ WaitUntilInactive(c) \/ ReceiveReply(c)
  \/ Close(c) \/ CloseSendsFlush(c) \/ CloseSendsShutdown(c) \/ CloseAgain(c)

ReceiveMessage == ReceiveEvent \/ ReceiveFlush \/ ReceiveSyncOrShutdown

DispatcherStep ==
  \/ ReceiveMessage \/ ReceiveResult
  \/ FlushTick \/ UsersResetTick \/ DiagnosticsTick
  \/ HandoffAccepted \/ HandoffRefused \/ ReplyToCaller \/ Shutdown

WorkerStep(w) ==
  \/ TakePayload(w) \/ SendReturns(w) \/ PostResult(w) \/ FinishPayload(w) \/ ExitWorker(w)

Next ==
  \/ \E e \in Events : RecordEvent(e)
  \/ Flush
  \/ \E c \in Callers : CallerStep(c)
  \/ DispatcherStep
  \/ \E w \in Workers : WorkerStep(w)
  \/ ServerClock

Spec == Init /\ [][Next]_vars

\* A call that has begun goes on when it can; a pending timer fires.
CallerContinues(c) ==
  \/ FlushBlockingTimesOut(c) \/ ReceiveReply(c)
  \/ CloseSendsFlush(c) \/ CloseSendsShutdown(c) \/ CloseAgain(c)

\* The goroutines keep running.  The select of the main loop chooses at random
\* among its ready cases, so a case that is ready again and again is taken:
\* strong fairness of each case the properties need.
Fairness ==
  /\ SF_vars(ReceiveMessage) /\ SF_vars(ReceiveResult) /\ SF_vars(FlushTick)
  /\ WF_vars(HandoffAccepted \/ HandoffRefused \/ ReplyToCaller \/ Shutdown)
  /\ \A w \in Workers : WF_vars(WorkerStep(w))
  /\ \A c \in Callers : WF_vars(CallerContinues(c))

FairSpec == Spec /\ Fairness
=============================================================================
