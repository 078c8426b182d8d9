--------------------- MODULE EventDispatcherProperties ----------------------
(***************************************************************************)
(* What the event processor has to guarantee, and what its documentation   *)
(* says of it.                                                             *)
(***************************************************************************)
EXTENDS EventDispatcher

\* The payloads handed to the workers whose delivery has not been attempted.
Sending == {w \in Workers : workerState[w] = "sending"}
InFlight == UNION ({Carried(flushCh[i]) : i \in DOMAIN flushCh} \cup
                   {Carried(workerPayload[w]) : w \in Sending})

\* What has been put in the outbox, unless it was discarded there.
OnItsWay == Carried(outbox) \cup InFlight \cup attempted

\* The items that belong to the inputs in S.
Of(S, items) == {o \in items : o.event \in S}
-----------------------------------------------------------------------------
(* Safety.                                                                 *)

\* workersGroup counts exactly the payloads between triggerFlush's Add(1) and a
\* worker's Done(), so it is never negative and Wait() misses none of them.
WorkersGroupExact ==
  workersGroup = (IF dispatcher = "handoff" THEN 1 ELSE 0) + Len(flushCh) + Cardinality(Busy)

\* Once Close has closed flushCh and senderResultCh, no payload is left in
\* flushCh and no worker still has a result to send: a send would panic.
ShutdownQuiescent ==
  closed => dispatcher = "stopped" /\ flushCh = << >> /\ Busy = {}

\* No output event and no summarized evaluation is in two payloads, in a payload
\* and still in the outbox, or handed over again after it has been attempted.
NothingSentTwice ==
  /\ IsInjective(outbox.events)
  /\ Carried(outbox) \cap (InFlight \cup attempted) = {}
  /\ InFlight \cap attempted = {}
  /\ \A v, w \in Sending : v # w => Carried(workerPayload[v]) \cap Carried(workerPayload[w]) = {}
  /\ \A w \in Sending : \A i \in DOMAIN flushCh :
       Carried(workerPayload[w]) \cap Carried(flushCh[i]) = {}

\* After an unrecoverable error the outbox stays empty and no further analytics
\* payload is offered to the workers.
DisabledStaysQuiet ==
  disabled => Carried(outbox) = {} /\ pending.kind # "analytics"

\* The droppedEvents counts of a sequence or a function of payloads.
DropCounts(payloads) == [k \in DOMAIN payloads |-> payloads[k].stats.droppedEvents]

\* The droppedEvents counts of the diagnostic events add up to at most the events
\* really dropped: no drop is reported by two diagnostic events.
NoDropReportedTwice ==
  droppedReported + outbox.droppedEvents + pending.stats.droppedEvents
    + SumFunction(DropCounts(flushCh)) + SumFunction(DropCounts(workerPayload))
  <= Cardinality(dropped)

\* The output event that carries the attributes of e's context, if e is the first to
\* refer to it.
Introduction(e) ==
  [event |-> e, kind |-> IF Input[e].kind = "identify" THEN "identify" ELSE "index"]

\* A context is taken for known (so that later events refer to it by key only)
\* because the input that put it in the cache, this time, has its index or identify
\* event in the outbox, on its way or attempted.  That very event may have been dropped
\* at capacity or, an identify event, sampled out; an unrecoverable error ends it all.
KnownContextExplained ==
  \A context \in Cached(userKeys) : \E e \in introducers :
    /\ Input[e].context = context
    /\ \/ Introduction(e) \in OnItsWay \cup dropped
       \/ Input[e].kind = "identify" /\ Ratio(e) # 1
       \/ disabled

\* When a blocking call gets its reply, no event recorded before the call is
\* still in the inbox or on its way: each was attempted, dropped, discarded after
\* an unrecoverable error, or is in the outbox because no flush could start.
ReplyMeansSettled ==
  [][\A c \in replies' \ replies :
       /\ \A i \in DOMAIN inbox : inbox[i].event \notin covered[c]
       /\ Of(covered[c], InFlight) = {}]_vars

\* A worker that is not blocked.
CanGoOn(w) ==
  \/ workerState[w] = "idle" /\ flushCh # << >>
  \/ workerState[w] \in {"sending", "finishing"}
  \/ workerState[w] = "posting" /\ Len(senderResultCh) < MaxFlushWorkers

\* senderResultCh is full of results that only the dispatcher could read, while the
\* dispatcher waits for a worker that has one more: nobody ever goes on from here.
ResultsNotRead ==
  /\ dispatcher = "awaitWorkers"
  /\ Len(senderResultCh) = MaxFlushWorkers
  /\ \E w \in Workers : workerState[w] = "posting"

\* workersGroup.Wait() is over, or some worker goes on, or results are not read: nothing
\* else can hold up a FlushBlocking or a Close whose message is being handled.
WaitBlockedByResultsOnly ==
  dispatcher = "awaitWorkers" =>
    workersGroup = 0 \/ (\E w \in Workers : CanGoOn(w)) \/ ResultsNotRead

\* The places in the inbox of the messages with the replyCh of c; and one of them has
\* been received and not been answered.
Requests(c) == {i \in DOMAIN inbox : inbox[i].reply /\ inbox[i].from = c}
BeingHandled(c) == current.reply /\ current.from = c

\* Whoever waits for a reply has it, or has a message in the inbox or with the
\* dispatcher; only Close gets its reply for certain, others may come too late.
NoCallForgotten ==
  \A c \in Callers : callerState[c] = "waiting" =>
    \/ c \in replies
    \/ dispatcher # "stopped" /\ (BeingHandled(c) \/ Requests(c) # {})
    \/ dispatcher = "stopped" /\ c \notin Closers

\* The dispatcher is never blocked on a replyCh: the caller is there to read it, or has
\* timed out and left room for the answer, and has not been answered before.
ReplyFindsReader ==
  current.reply => current.from \in Callers \ replies /\ CanReply(current.from)

\* The dispatcher and its workers deliver as EventDelivery promises.
Delivery ==
  INSTANCE EventDelivery WITH buffered <- Carried(outbox), inFlight <- InFlight,
                              attempted <- attempted, off <- disabled

DeliversAsPromised == Delivery!Spec

\* The inductive invariant of the proofs.  A payload is pending only while it is
\* offered to the workers, and whoever is to get a reply is known by name.
PendingOnlyInHandoff == dispatcher # "handoff" => pending = NoPayload

RepliesHaveCallers ==
  /\ \A i \in DOMAIN inbox : inbox[i].reply => inbox[i].from \in Callers
  /\ current.reply => current.from \in Callers
  /\ dispatcher = "awaitWorkers" => current.reply

SafetyInvariant ==
  /\ TypeOK
  /\ WorkersGroupExact
  /\ ShutdownQuiescent
  /\ DisabledStaysQuiet
  /\ PendingOnlyInHandoff
  /\ RepliesHaveCallers

\* The strengthening of NothingSentTwice.  An event in the inbox has been recorded,
\* is there once, and nothing of it is buffered or on its way yet; a payload that is
\* offered to the workers is still what the outbox holds.
InboxIsFresh ==
  /\ \A i \in DOMAIN inbox : inbox[i].event \in recorded \cup {NoEvent}
  /\ \A i, j \in DOMAIN inbox : inbox[i].event = inbox[j].event => i = j \/ inbox[i].event = NoEvent
  /\ \A o \in OnItsWay : o.event \in recorded /\ \A i \in DOMAIN inbox : inbox[i].event # o.event

PendingIsOutbox ==
  IF pending.kind = "analytics"
  THEN pending.events = outbox.events /\ pending.summary = outbox.summary
  ELSE Carried(pending) = {}

DeliveryInvariant == NothingSentTwice /\ InboxIsFresh /\ PendingIsOutbox

\* The strengthening of ReplyMeansSettled.  The inbox is served in order, so the
\* events recorded before a blocking call are ahead of its message, and are out of
\* the inbox once that message is being handled.
CallsCoverTheRecorded ==
  /\ \A c \in Callers : covered[c] \subseteq recorded
  /\ \A i \in DOMAIN inbox : inbox[i].reply => callerState[inbox[i].from] # "idle"
  /\ current.reply => callerState[current.from] # "idle"

RepliesFollowEvents ==
  /\ \A i, j \in DOMAIN inbox :
       inbox[i].reply /\ inbox[j].event \in covered[inbox[i].from] => j < i
  /\ current.reply => \A j \in DOMAIN inbox : inbox[j].event \notin covered[current.from]

SettlingInvariant == CallsCoverTheRecorded /\ RepliesFollowEvents

\* The strengthening of NoDropReportedTwice.  Only what has left the inbox has been
\* dropped, so what processEvent drops has not been dropped before.
DroppedOnce ==
  /\ IsFiniteSet(dropped)
  /\ \A o \in dropped :
       o.event \in recorded /\ \A i \in DOMAIN inbox : inbox[i].event # o.event

DropsInvariant == NoDropReportedTwice /\ DroppedOnce

\* The states of a call that has asked and has not been answered.
Awaiting(c) == IF c \in TimedFlushers THEN {"waiting", "timedOut"} ELSE {"waiting"}

\* The strengthening of NoCallForgotten and ReplyFindsReader.  A call has one message
\* with a replyCh at most, and only while it waits; one call of Close runs the shutdown.
OneRequest ==
  /\ current.reply => dispatcher \in {"handoff", "awaitWorkers"}
  /\ \A c \in Callers :
       /\ \A i, j \in Requests(c) : i = j
       /\ BeingHandled(c) => Requests(c) = {}
       /\ BeingHandled(c) \/ Requests(c) # {} => c \notin replies /\ callerState[c] \in Awaiting(c)
       /\ c \in replies => callerState[c] \in Awaiting(c) \cup {"returned"}

OneShutdown ==
  /\ \A i \in DOMAIN inbox :
       inbox[i].type = "shutdown" => inbox[i].reply /\ inbox[i].from \in Closers
  /\ current.type = "shutdown" => current.reply /\ current.from \in Closers
  /\ \A c, d \in Closers :
       /\ callerState[c] \in {"flushing", "waiting"}
       /\ callerState[d] \in {"flushing", "waiting", "returned"}
       => c = d
  /\ dispatcher = "stopped" => Closers \cap replies # {}

AnsweringInvariant == NoCallForgotten /\ OneRequest /\ OneShutdown

\* The strengthening of WaitBlockedByResultsOnly.
WorkersStay == \A w \in Workers : workerState[w] = "exited" => closed
-----------------------------------------------------------------------------
(* Liveness, under FairSpec.                                               *)

\* Close returns (interfaces.go: "Close shuts down all event processor activity").
CloseReturns ==
  \A c \in Closers : callerState[c] = "called" ~> callerState[c] = "returned"

\* FlushBlocking returns, with or without a timeout, unless the processor is closed
\* before its message is handled or stands still with results that nobody reads.
FlushBlockingReturns ==
  \A c \in Flushers :
    callerState[c] = "waiting" ~>
      \/ callerState[c] \in {"returned", "timedOut"}
      \/ dispatcher = "stopped" \/ ResultsNotRead

\* A call of FlushBlocking with a timeout returns.
TimedFlushReturns ==
  \A c \in TimedFlushers :
    callerState[c] = "waiting" ~> callerState[c] \in {"returned", "timedOut"}

\* What is buffered is sent by a later periodic flush, however busy the workers
\* are, unless the SDK is told to stop, is closed or stands still as above.
OutboxDrains ==
  \A e \in Events :
    Of({e}, Carried(outbox)) # {} ~>
      \/ Of({e}, Carried(outbox)) = {}
      \/ dispatcher = "stopped" \/ ResultsNotRead
-----------------------------------------------------------------------------
(* What the documentation says and the code does not do.                   *)

\* interfaces.go: "Close shuts down all event processor activity, after first
\* ensuring that all events have been delivered."
CloseDeliversAll ==
  \A c \in Closers : callerState[c] = "returned" => Of(covered[c], Carried(outbox)) = {}
=============================================================================
