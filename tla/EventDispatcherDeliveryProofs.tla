-------------------- MODULE EventDispatcherDeliveryProofs -------------------
(***************************************************************************)
(* Proofs about what becomes of the output events and the evaluations, for *)
(* all events, callers and workers: nothing is sent twice, and the         *)
(* processor implements EventDelivery.  The inductive invariant is         *)
(* DeliveryInvariant beside SafetyInvariant; one lemma for each kind of    *)
(* step says that it preserves the one and is a step of the other.         *)
(***************************************************************************)
EXTENDS EventDispatcherProofs
-----------------------------------------------------------------------------
(* What is where.                                                          *)

\* An item is in flight in flushCh or in the hands of a worker, now and after a step.
LEMMA InFlightMembers ==
  /\ \A o : o \in InFlight <=> \/ \E i \in DOMAIN flushCh : o \in Carried(flushCh[i])
                               \/ \E w \in Sending : o \in Carried(workerPayload[w])
  /\ \A o : o \in InFlight' <=> \/ \E i \in DOMAIN flushCh' : o \in Carried(flushCh'[i])
                                \/ \E w \in Sending' : o \in Carried(workerPayload'[w])
<1>1. \A o : o \in InFlight <=> \/ \E i \in DOMAIN flushCh : o \in Carried(flushCh[i])
                                \/ \E w \in Sending : o \in Carried(workerPayload[w])
  BY DEF InFlight
<1>2. InFlight' = UNION ({Carried(flushCh'[i]) : i \in DOMAIN flushCh'} \cup
                         {Carried(workerPayload'[w]) : w \in Sending'})
  BY DEF InFlight, Carried
<1> QED
  BY <1>1, <1>2

\* What is carried depends on the events and the summary only.
LEMMA CarriedSame ==
  ASSUME NEW p, NEW q, p.events = q.events, p.summary = q.summary
  PROVE  Carried(p) = Carried(q)
  BY DEF Carried

\* A payload without events and summary carries nothing.
LEMMA CarriedNothing ==
  ASSUME NEW p, p.events = << >>, p.summary = {} PROVE Carried(p) = {}
  BY DEF Carried, ToSet

\* An action that leaves the outbox, the payloads on their way and the histories of
\* what was attempted alone changes nothing of what is where.
LEMMA NothingMoves ==
  ASSUME outbox'.events = outbox.events, outbox'.summary = outbox.summary,
         UNCHANGED <<flushCh, workerPayload, attempted>>, Sending' = Sending
  PROVE  /\ Carried(outbox') = Carried(outbox) /\ Carried(outbox)' = Carried(outbox')
         /\ InFlight' = InFlight /\ OnItsWay' = OnItsWay
         /\ NothingSentTwice => NothingSentTwice'
<1>1. Carried(outbox') = Carried(outbox) /\ Carried(outbox)' = Carried(outbox')
  BY CarriedSame DEF Carried
<1>2. InFlight' = InFlight
  BY InFlightMembers
<1>3. OnItsWay' = OnItsWay
  BY <1>1, <1>2 DEF OnItsWay
<1>4. \A w : Carried(workerPayload[w])' = Carried(workerPayload[w])
  BY DEF Carried
<1>5. \A i : Carried(flushCh[i])' = Carried(flushCh[i])
  BY DEF Carried
<1>6. ASSUME NothingSentTwice PROVE NothingSentTwice'
  <2>1. IsInjective(outbox.events)' <=> IsInjective(outbox.events)
    BY DEF IsInjective
  <2> QED
    BY <1>1, <1>2, <1>4, <1>5, <1>6, <2>1 DEF NothingSentTwice
<1> QED
  BY <1>1, <1>2, <1>3, <1>6
-----------------------------------------------------------------------------
(* The inbox.                                                              *)

\* A message joins the inbox, or is lost: it is no event, or one recorded just now.
LEMMA InboxGrowsFresh ==
  ASSUME TypeOK, InboxIsFresh, OnItsWay' = OnItsWay, recorded \subseteq recorded',
         NEW m \in Message, m.event = NoEvent \/ m.event \in recorded' \ recorded,
         inbox' = Append(inbox, m) \/ inbox' = inbox
  PROVE  InboxIsFresh'
<1>1. /\ inbox \in Seq(Message) /\ NoEvent \notin Events /\ recorded \subseteq Events
  BY DispatcherAssumption DEF TypeOK
<1>2. /\ \A i \in DOMAIN inbox : inbox[i].event \in recorded \cup {NoEvent}
      /\ \A i, j \in DOMAIN inbox :
           inbox[i].event = inbox[j].event => i = j \/ inbox[i].event = NoEvent
      /\ \A o \in OnItsWay : /\ o.event \in recorded
                             /\ \A i \in DOMAIN inbox : inbox[i].event # o.event
  BY DEF InboxIsFresh
<1>3. CASE inbox' = inbox
  BY <1>2, <1>3 DEF InboxIsFresh
<1>4. CASE inbox' = Append(inbox, m)
  <2>1. /\ DOMAIN inbox' = DOMAIN inbox \cup {Len(inbox) + 1}
        /\ \A i \in DOMAIN inbox : inbox'[i] = inbox[i]
        /\ inbox'[Len(inbox) + 1] = m
    BY <1>1, <1>4
  <2>2. \A i \in DOMAIN inbox' : inbox'[i].event \in recorded' \cup {NoEvent}
    BY <1>2, <2>1
  <2>3. ASSUME NEW i \in DOMAIN inbox', NEW j \in DOMAIN inbox',
               inbox'[i].event = inbox'[j].event, inbox'[i].event # NoEvent
        PROVE  i = j
    BY <1>2, <2>1, <2>3
  <2>4. ASSUME NEW o \in OnItsWay
        PROVE  o.event \in recorded' /\ \A i \in DOMAIN inbox' : inbox'[i].event # o.event
    <3>1. o.event \in recorded /\ o.event \in Events
      BY <1>1, <1>2
    <3> QED
      BY <1>1, <1>2, <2>1, <3>1
  <2> QED
    BY <2>2, <2>3, <2>4 DEF InboxIsFresh
<1> QED
  BY <1>3, <1>4

\* The first message leaves the inbox, and at most its own event's items appear.
LEMMA InboxShrinksFresh ==
  ASSUME TypeOK, InboxIsFresh, inbox # << >>, inbox' = Tail(inbox), UNCHANGED recorded,
         \A o \in OnItsWay' :
           o \in OnItsWay \/ (o.event = Head(inbox).event /\ o.event \in Events)
  PROVE  InboxIsFresh'
<1>1. /\ inbox \in Seq(Message) /\ NoEvent \notin Events
  BY DispatcherAssumption DEF TypeOK
<1>2. /\ Head(inbox) = inbox[1] /\ 1 \in DOMAIN inbox
      /\ \A i \in DOMAIN inbox' : /\ i + 1 \in DOMAIN inbox /\ inbox'[i] = inbox[i + 1]
                                  /\ i \in Nat /\ i + 1 # 1
  BY <1>1
<1>3. /\ \A i \in DOMAIN inbox : inbox[i].event \in recorded \cup {NoEvent}
      /\ \A i, j \in DOMAIN inbox :
           inbox[i].event = inbox[j].event => i = j \/ inbox[i].event = NoEvent
      /\ \A o \in OnItsWay : /\ o.event \in recorded
                             /\ \A i \in DOMAIN inbox : inbox[i].event # o.event
  BY DEF InboxIsFresh
<1>4. \A i \in DOMAIN inbox' : inbox'[i].event \in recorded' \cup {NoEvent}
  BY <1>2, <1>3
<1>5. ASSUME NEW i \in DOMAIN inbox', NEW j \in DOMAIN inbox',
             inbox'[i].event = inbox'[j].event, inbox'[i].event # NoEvent
      PROVE  i = j
  <2>1. i + 1 = j + 1
    BY <1>2, <1>3, <1>5
  <2> QED
    BY <1>2, <2>1
<1>6. ASSUME NEW o \in OnItsWay'
      PROVE  o.event \in recorded' /\ \A i \in DOMAIN inbox' : inbox'[i].event # o.event
  <2>1. CASE o \in OnItsWay
    BY <1>2, <1>3, <2>1
  <2>2. CASE o.event = Head(inbox).event /\ o.event \in Events
    <3>1. inbox[1].event \in recorded /\ inbox[1].event # NoEvent
      BY <1>1, <1>2, <1>3, <2>2
    <3>2. ASSUME NEW i \in DOMAIN inbox' PROVE inbox[i + 1].event # inbox[1].event
      BY <1>2, <1>3, <3>1
    <3> QED
      BY <1>2, <2>2, <3>1, <3>2
  <2> QED
    BY <1>6, <2>1, <2>2
<1> QED
  BY <1>4, <1>5, <1>6 DEF InboxIsFresh
-----------------------------------------------------------------------------
(* Steps that move nothing.                                                *)

\* A step of the implementation, seen as a step of EventDelivery.
DeliveryStep == [Delivery!Next]_(Delivery!vars)

\* The payload that is offered to the workers is none, a diagnostic event, or a copy
\* of what the outbox holds.
LEMMA PendingPayloads ==
  /\ pending' = NoPayload => PendingIsOutbox'
  /\ \A stats : pending' = DiagnosticPayload(stats) => PendingIsOutbox'
  /\ pending' = AnalyticsPayload /\ outbox' = outbox => PendingIsOutbox'
  /\ /\ PendingIsOutbox /\ pending' = pending
     /\ outbox'.events = outbox.events /\ outbox'.summary = outbox.summary
     => PendingIsOutbox'
<1>1. ASSUME pending'.events = << >>, pending'.summary = {}, pending'.kind # "analytics"
      PROVE  PendingIsOutbox'
  <2>1. Carried(pending') = {}
    BY <1>1, CarriedNothing
  <2>2. Carried(pending)' = Carried(pending')
    BY DEF Carried
  <2> QED
    BY <1>1, <2>1, <2>2 DEF PendingIsOutbox
<1>2. pending' = NoPayload => PendingIsOutbox'
  BY <1>1 DEF NoPayload
<1>3. ASSUME NEW stats, pending' = DiagnosticPayload(stats) PROVE PendingIsOutbox'
  BY <1>1, <1>3 DEF DiagnosticPayload
<1>4. pending' = AnalyticsPayload /\ outbox' = outbox => PendingIsOutbox'
  BY DEF PendingIsOutbox, AnalyticsPayload
<1>5. /\ PendingIsOutbox /\ pending' = pending
      /\ outbox'.events = outbox.events /\ outbox'.summary = outbox.summary
      => PendingIsOutbox'
  BY DEF PendingIsOutbox, Carried
<1> QED
  BY <1>2, <1>3, <1>4, <1>5

\* If no item moves and the inbox stays fresh, nothing is sent twice after the step,
\* and EventDelivery sees no step.
LEMMA QuietStep ==
  ASSUME DeliveryInvariant,
         outbox'.events = outbox.events, outbox'.summary = outbox.summary,
         UNCHANGED <<flushCh, workerPayload, attempted, disabled>>, Sending' = Sending,
         InboxIsFresh', PendingIsOutbox'
  PROVE  DeliveryInvariant' /\ DeliveryStep
<1>1. NothingSentTwice'
  BY NothingMoves DEF DeliveryInvariant
<1>2. UNCHANGED Delivery!vars
  BY NothingMoves DEF Delivery!vars
<1> QED
  BY <1>1, <1>2 DEF DeliveryInvariant, DeliveryStep

\* The application's goroutines and the server's clock: only the inbox changes.
LEMMA CallersDeliver ==
  ASSUME SafetyInvariant, DeliveryInvariant,
         UNCHANGED <<processingVars, flushCh, dispatcherVars, workerVars, attempted>>,
         NEW m \in Message, inbox' = Append(inbox, m) \/ inbox' = inbox,
         recorded \subseteq recorded', m.event = NoEvent \/ m.event \in recorded' \ recorded
  PROVE  DeliveryInvariant' /\ DeliveryStep
<1>1. TypeOK /\ InboxIsFresh /\ PendingIsOutbox
  BY DEF SafetyInvariant, DeliveryInvariant
<1>2. Sending' = Sending /\ UNCHANGED <<outbox, workerPayload, pending, disabled>>
  BY DEF Sending, workerVars, processingVars, dispatcherVars
<1>3. InboxIsFresh'
  BY <1>1, <1>2, NothingMoves, InboxGrowsFresh
<1>4. PendingIsOutbox'
  BY <1>1, <1>2, PendingPayloads
<1> QED
  BY <1>2, <1>3, <1>4, QuietStep

\* Every message of a caller is about no event.
LEMMA CallerMessages ==
  /\ NoMessage.event = NoEvent
  /\ \A c, b : FlushMessage(c, b).event = NoEvent
  /\ \A c : SyncMessage(c).event = NoEvent /\ ShutdownMessage(c).event = NoEvent
  BY DEF NoMessage, FlushMessage, SyncMessage, ShutdownMessage

\* Recording, flushing and every step of the blocking calls deliver.
LEMMA ApplicationDelivers ==
  ASSUME SafetyInvariant, DeliveryInvariant,
         \/ \E e \in Events : RecordEvent(e)
         \/ Flush
         \/ \E c \in Callers : CallerStep(c)
         \/ ServerClock
  PROVE  DeliveryInvariant' /\ DeliveryStep
<1>1. CASE \E e \in Events : RecordEvent(e)
  <2>1. PICK e \in Events : RecordEvent(e)
    BY <1>1
  <2>2. EventMessage(e) \in Message /\ EventMessage(e).event = e
    BY MessageTypes DEF EventMessage
  <2>3. recorded \subseteq recorded' /\ e \in recorded' \ recorded
    BY <2>1 DEF RecordEvent
  <2>4. inbox' = Append(inbox, EventMessage(e)) \/ inbox' = inbox
    BY <2>1 DEF RecordEvent, PostNonBlocking
  <2> QED
    BY <2>1, <2>2, <2>3, <2>4, CallersDeliver DEF RecordEvent, senderVars
<1>2. CASE Flush
  <2>1. FlushMessage(NoCaller, FALSE) \in Message
    BY MessageTypes
  <2> QED
    BY <1>2, <2>1, CallerMessages, CallersDeliver DEF Flush, PostNonBlocking, callerVars, senderVars
<1>3. CASE \E c \in Callers : CallerStep(c)
  <2>1. PICK c \in Callers : CallerStep(c)
    BY <1>3
  <2>2. ASSUME NEW m \in Message, NEW state, SendToInbox(c, m, state), m.event = NoEvent
        PROVE  DeliveryInvariant' /\ DeliveryStep
    BY <2>2, CallersDeliver DEF SendToInbox, senderVars
  <2>3. ASSUME NEW state, CallerGoesTo(c, state) PROVE DeliveryInvariant' /\ DeliveryStep
    BY <2>3, MessageTypes, CallerMessages, CallersDeliver DEF CallerGoesTo, channelVars, senderVars
  <2>4. /\ \A b \in BOOLEAN : FlushMessage(c, b) \in Message
        /\ SyncMessage(c) \in Message /\ ShutdownMessage(c) \in Message
    BY MessageTypes
  <2> QED
    BY <2>1, <2>2, <2>3, <2>4, CallerMessages
       DEF CallerStep, FlushBlocking, FlushBlockingTimesOut, WaitUntilInactive, ReceiveReply,
           Close, CloseSendsFlush, CloseSendsShutdown, CloseAgain
<1>4. CASE ServerClock
  BY <1>4, MessageTypes, CallerMessages, CallersDeliver DEF ServerClock, channelVars, callerVars
<1> QED
  BY <1>1, <1>2, <1>3, <1>4

\* The dispatcher's steps that send and add nothing: a refused handoff, the end of a
\* wait, a flush or another message without payload, and the tickers.
LEMMA IdleDispatcherDelivers ==
  ASSUME SafetyInvariant, DeliveryInvariant,
         \/ HandoffRefused \/ ReplyToCaller \/ Shutdown \/ ReceiveFlush
         \/ ReceiveSyncOrShutdown \/ FlushTick \/ UsersResetTick \/ DiagnosticsTick
  PROVE  DeliveryInvariant' /\ DeliveryStep
<1>1. /\ TypeOK /\ InboxIsFresh /\ PendingIsOutbox /\ PendingOnlyInHandoff
      /\ NoMessage \in Message /\ NoMessage.event = NoEvent
  BY MessageTypes, CallerMessages DEF SafetyInvariant, DeliveryInvariant
<1>2. /\ UNCHANGED <<flushCh, workerVars, attempted, disabled, recorded>>
      /\ outbox'.events = outbox.events /\ outbox'.summary = outbox.summary
  <2>1. outbox \in [events : Seq(Output), summary : SUBSET Events, droppedEvents : Nat]
    BY <1>1 DEF TypeOK, ProcessingTypeOK
  <2>2. DropsReset.events = outbox.events /\ DropsReset.summary = outbox.summary
    BY <2>1 DEF DropsReset
  <2> QED
    BY <2>2 DEF HandoffRefused, ReplyToCaller, Shutdown, ReceiveFlush, ReceiveSyncOrShutdown,
       FlushTick, UsersResetTick, DiagnosticsTick, Receive, ResetUserKeys, processingVars,
       channelVars, callerVars, senderVars
<1>3. Sending' = Sending /\ UNCHANGED workerPayload
  BY <1>2 DEF Sending, workerVars
<1>4. OnItsWay' = OnItsWay
  BY <1>2, <1>3, NothingMoves
<1>5. InboxIsFresh'
  <2>1. CASE inbox' = inbox
    BY <1>1, <1>2, <1>4, <2>1, InboxGrowsFresh
  <2>2. CASE inbox # << >> /\ inbox' = Tail(inbox)
    BY <1>1, <1>2, <1>4, <2>2, InboxShrinksFresh
  <2> QED
    BY <2>1, <2>2 DEF HandoffRefused, ReplyToCaller, Shutdown, ReceiveFlush,
       ReceiveSyncOrShutdown, FlushTick, UsersResetTick, DiagnosticsTick, Receive, channelVars
<1>6. PendingIsOutbox'
  <2>1. \A m : GoOn(m) => PendingIsOutbox'
    BY PendingPayloads DEF GoOn
  <2>2. \A m : TriggerFlush(m) /\ outbox' = outbox => PendingIsOutbox'
    BY <2>1, PendingPayloads DEF TriggerFlush, BeginHandoff
  <2>3. CASE HandoffRefused \/ ReceiveSyncOrShutdown
    BY <2>1, <2>3 DEF HandoffRefused, ReceiveSyncOrShutdown
  <2>4. CASE ReceiveFlush \/ FlushTick
    BY <2>2, <2>4 DEF ReceiveFlush, FlushTick
  <2>5. CASE ReplyToCaller \/ Shutdown \/ UsersResetTick
    BY <1>1, <1>2, <2>5, PendingPayloads
       DEF ReplyToCaller, Shutdown, UsersResetTick, dispatcherVars
  <2>6. CASE DiagnosticsTick
    BY <2>6, PendingPayloads DEF DiagnosticsTick, BeginHandoff
  <2> QED
    BY <2>3, <2>4, <2>5, <2>6
<1> QED
  BY <1>2, <1>3, <1>5, <1>6, QuietStep
-----------------------------------------------------------------------------
(* Steps that move items.                                                  *)

\* What NothingSentTwice says once every set in it is primed.
LEMMA NothingSentTwiceNext ==
  ASSUME IsInjective(outbox'.events),
         Carried(outbox') \cap (InFlight' \cup attempted') = {},
         InFlight' \cap attempted' = {},
         \A v, w \in Sending' :
           v # w => Carried(workerPayload'[v]) \cap Carried(workerPayload'[w]) = {},
         \A w \in Sending' : \A i \in DOMAIN flushCh' :
           Carried(workerPayload'[w]) \cap Carried(flushCh'[i]) = {}
  PROVE  NothingSentTwice'
<1>1. /\ Carried(outbox)' = Carried(outbox')
      /\ \A w : Carried(workerPayload[w])' = Carried(workerPayload'[w])
      /\ \A i : Carried(flushCh[i])' = Carried(flushCh'[i])
  BY DEF Carried
<1>2. IsInjective(outbox.events)' <=> IsInjective(outbox'.events)
  BY DEF IsInjective
<1> QED
  BY <1>1, <1>2 DEF NothingSentTwice

\* A sequence of at most one element, and what is left of it.
LEMMA OneElement ==
  ASSUME NEW S, NEW s \in Seq(S), Len(s) <= 1, s # << >>
  PROVE  Head(s) = s[1] /\ DOMAIN s = {1} /\ DOMAIN Tail(s) = {}
<1>1. Len(s) \in Nat /\ Len(s) # 0
  OBVIOUS
<1>2. Len(s) = 1
  BY <1>1
<1>3. DOMAIN s = 1 .. 1
  BY <1>2
<1>4. Tail(s) \in Seq(S) /\ Len(Tail(s)) = 0
  BY <1>2
<1>5. DOMAIN Tail(s) = 1 .. 0
  BY <1>4
<1> QED
  BY <1>3, <1>5

\* A worker takes the payload from flushCh: it is in flight before and after.
LEMMA TakePayloadDelivers ==
  ASSUME SafetyInvariant, DeliveryInvariant, NEW w \in Workers, TakePayload(w)
  PROVE  DeliveryInvariant' /\ DeliveryStep
<1>1. /\ TypeOK /\ NothingSentTwice /\ InboxIsFresh /\ PendingIsOutbox
      /\ flushCh \in Seq(Payload) /\ Len(flushCh) <= 1 /\ flushCh # << >>
      /\ workerState \in [Workers -> WorkerStates] /\ workerPayload \in [Workers -> Payload]
      /\ workerState[w] = "idle"
  BY DEF SafetyInvariant, TypeOK, DeliveryInvariant, TakePayload
<1>2. /\ UNCHANGED <<processingVars, inbox, dispatcherVars, callerVars, senderVars>>
      /\ flushCh' = Tail(flushCh)
      /\ workerState' = [workerState EXCEPT ![w] = "sending"]
      /\ workerPayload' = [workerPayload EXCEPT ![w] = Head(flushCh)]
  BY DEF TakePayload
<1>3. /\ DOMAIN flushCh = {1} /\ Head(flushCh) = flushCh[1] /\ DOMAIN flushCh' = {}
  BY <1>1, <1>2, OneElement
<1>4. /\ w \notin Sending /\ Sending' = Sending \cup {w}
      /\ workerPayload'[w] = flushCh[1]
      /\ \A v \in Sending : workerPayload'[v] = workerPayload[v]
  BY <1>1, <1>2, <1>3 DEF Sending
<1>5. InFlight' = InFlight
  <2>1. \A o : o \in InFlight <=> \/ o \in Carried(flushCh[1])
                                  \/ \E v \in Sending : o \in Carried(workerPayload[v])
    BY <1>3, InFlightMembers
  <2>2. \A o : o \in InFlight' <=> \E v \in Sending \cup {w} : o \in Carried(workerPayload'[v])
    BY <1>3, <1>4, InFlightMembers
  <2>3. \A o : o \in InFlight <=> o \in InFlight'
    BY <1>4, <2>1, <2>2
  <2> QED
    BY <2>3 DEF InFlight
<1>6. /\ UNCHANGED <<outbox, attempted, disabled, pending, recorded, inbox>>
      /\ Carried(outbox)' = Carried(outbox)
  BY <1>2 DEF processingVars, dispatcherVars, callerVars, senderVars, Carried
<1>7. NothingSentTwice'
  <2>1. ASSUME NEW u \in Sending', NEW v \in Sending', u # v
        PROVE  Carried(workerPayload'[u]) \cap Carried(workerPayload'[v]) = {}
    BY <1>1, <1>3, <1>4, <2>1 DEF NothingSentTwice
  <2> QED
    BY <1>1, <1>3, <1>5, <1>6, <2>1, NothingSentTwiceNext DEF NothingSentTwice
<1>8. OnItsWay' = OnItsWay
  BY <1>5, <1>6 DEF OnItsWay
<1>9. InboxIsFresh' /\ PendingIsOutbox'
  BY <1>1, <1>6, <1>8, PendingPayloads DEF InboxIsFresh
<1>10. DeliveryStep
  BY <1>5, <1>6 DEF DeliveryStep, Delivery!vars
<1> QED
  BY <1>7, <1>9, <1>10 DEF DeliveryInvariant

\* SendEventData returns: the worker's payload, and nothing else, is now attempted.
LEMMA SendReturnsDelivers ==
  ASSUME SafetyInvariant, DeliveryInvariant, NEW w \in Workers, SendReturns(w)
  PROVE  DeliveryInvariant' /\ DeliveryStep
<1> DEFINE sent == Carried(workerPayload[w])
<1>1. /\ TypeOK /\ NothingSentTwice /\ InboxIsFresh /\ PendingIsOutbox
      /\ workerState \in [Workers -> WorkerStates] /\ workerPayload \in [Workers -> Payload]
      /\ w \in Sending
  BY DEF SafetyInvariant, TypeOK, DeliveryInvariant, SendReturns, Sending
<1>2. /\ UNCHANGED <<processingVars, channelVars, dispatcherVars, callerVars>>
      /\ workerPayload' = [workerPayload EXCEPT ![w] = NoPayload]
      /\ attempted' = attempted \cup sent
  BY DEF SendReturns
<1>3. /\ Sending' = Sending \ {w}
      /\ \A v \in Sending' : workerPayload'[v] = workerPayload[v]
  <2>1. PICK s \in {"posting", "finishing"} : workerState' = [workerState EXCEPT ![w] = s]
    BY DEF SendReturns
  <2>2. Sending' = Sending \ {w}
    BY <1>1, <2>1 DEF Sending
  <2>3. Sending \subseteq Workers
    BY DEF Sending
  <2> QED
    BY <1>1, <1>2, <2>2, <2>3
<1>4. UNCHANGED <<flushCh, outbox, disabled, pending, recorded, inbox>>
  BY <1>2 DEF processingVars, channelVars, dispatcherVars, callerVars
<1> HIDE DEF sent
<1>5. \A o : o \in InFlight <=> \/ \E i \in DOMAIN flushCh : o \in Carried(flushCh[i])
                                \/ \E v \in Sending' : o \in Carried(workerPayload[v])
                                \/ o \in sent
  BY <1>1, <1>3, InFlightMembers DEF sent
<1>6. \A o : o \in InFlight' <=> \/ \E i \in DOMAIN flushCh : o \in Carried(flushCh[i])
                                 \/ \E v \in Sending' : o \in Carried(workerPayload[v])
  BY <1>3, <1>4, InFlightMembers
<1>7. /\ \A v \in Sending' : Carried(workerPayload[v]) \cap sent = {}
      /\ \A i \in DOMAIN flushCh : Carried(flushCh[i]) \cap sent = {}
  BY <1>1, <1>3 DEF NothingSentTwice, sent
<1>8. sent \subseteq InFlight /\ InFlight \cap attempted = {}
  BY <1>1, <1>5 DEF NothingSentTwice
<1>9. InFlight' = InFlight \ attempted'
  <2>1. \A o : o \in InFlight' <=> o \in InFlight /\ o \notin sent
    BY <1>5, <1>6, <1>7
  <2>2. \A o : o \in InFlight' <=> o \in InFlight \ attempted'
    BY <1>2, <1>8, <2>1
  <2> QED
    BY <2>2 DEF InFlight
<1>10. Carried(outbox') = Carried(outbox) /\ Carried(outbox)' = Carried(outbox)
  BY <1>4 DEF Carried
<1>11. NothingSentTwice'
  <2>1. Carried(outbox') \cap (InFlight' \cup attempted') = {}
    BY <1>1, <1>2, <1>8, <1>9, <1>10 DEF NothingSentTwice
  <2>2. ASSUME NEW u \in Sending', NEW v \in Sending', u # v
        PROVE  Carried(workerPayload'[u]) \cap Carried(workerPayload'[v]) = {}
    BY <1>1, <1>3, <2>2 DEF NothingSentTwice
  <2>3. ASSUME NEW v \in Sending', NEW i \in DOMAIN flushCh'
        PROVE  Carried(workerPayload'[v]) \cap Carried(flushCh'[i]) = {}
    BY <1>1, <1>3, <1>4 DEF NothingSentTwice
  <2> QED
    BY <1>1, <1>4, <1>9, <2>1, <2>2, <2>3, NothingSentTwiceNext DEF NothingSentTwice
<1>12. OnItsWay' = OnItsWay
  BY <1>2, <1>8, <1>9, <1>10 DEF OnItsWay
<1>13. InboxIsFresh' /\ PendingIsOutbox'
  BY <1>1, <1>4, <1>12, PendingPayloads DEF InboxIsFresh
<1>14. Delivery!Attempt
  BY <1>2, <1>4, <1>8, <1>9, <1>10 DEF Delivery!Attempt
<1> QED
  BY <1>11, <1>13, <1>14 DEF DeliveryInvariant, DeliveryStep, Delivery!Next

\* Every step of a worker delivers.
LEMMA WorkerDelivers ==
  ASSUME SafetyInvariant, DeliveryInvariant, NEW w \in Workers, WorkerStep(w)
  PROVE  DeliveryInvariant' /\ DeliveryStep
<1>1. TypeOK /\ InboxIsFresh /\ PendingIsOutbox
  BY DEF SafetyInvariant, DeliveryInvariant
<1>2. CASE PostResult(w) \/ FinishPayload(w) \/ ExitWorker(w)
  <2>1. /\ UNCHANGED <<processingVars, inbox, flushCh, dispatcherVars, workerPayload,
                       callerVars, senderVars>>
        /\ workerState[w] # "sending"
        /\ \E s \in {"finishing", "idle", "exited"} : workerState' = [workerState EXCEPT ![w] = s]
    BY <1>2 DEF PostResult, FinishPayload, ExitWorker, channelVars
  <2>2. Sending' = Sending
    BY <1>1, <2>1 DEF Sending, TypeOK
  <2>3. UNCHANGED <<inbox, flushCh, workerPayload, outbox, attempted, disabled, pending, recorded>>
    BY <2>1 DEF processingVars, dispatcherVars, callerVars, senderVars
  <2>4. InboxIsFresh' /\ PendingIsOutbox'
    BY <1>1, <2>2, <2>3, NothingMoves, PendingPayloads DEF InboxIsFresh
  <2> QED
    BY <2>2, <2>3, <2>4, QuietStep
<1> QED
  BY <1>2, TakePayloadDelivers, SendReturnsDelivers DEF WorkerStep

\* The workers' channel accepts what is pending: a copy of the outbox, which is then
\* cleared, or a diagnostic event.
LEMMA HandoffAcceptedDelivers ==
  ASSUME SafetyInvariant, DeliveryInvariant, HandoffAccepted
  PROVE  DeliveryInvariant' /\ DeliveryStep
<1> DEFINE moved == Carried(pending)
<1>1. /\ TypeOK /\ ProcessingTypeOK /\ NothingSentTwice /\ InboxIsFresh /\ PendingIsOutbox
      /\ DisabledStaysQuiet /\ flushCh \in Seq(Payload) /\ Len(flushCh) < 1
  BY DEF SafetyInvariant, TypeOK, DeliveryInvariant, HandoffAccepted
<1>2. /\ UNCHANGED <<workerVars, inbox, attempted, recorded, disabled>>
      /\ flushCh' = Append(flushCh, pending) /\ pending' = NoPayload
  BY DEF HandoffAccepted, GoOn, senderVars, callerVars
<1>3. Sending' = Sending /\ UNCHANGED workerPayload
  BY <1>2 DEF Sending, workerVars
<1>4. DOMAIN flushCh = {} /\ DOMAIN flushCh' = {1} /\ flushCh'[1] = pending
  <2>1. Len(flushCh) = 0 /\ Len(flushCh') = 1
    BY <1>1, <1>2
  <2> QED
    BY <1>1, <1>2, <2>1
<1>5. /\ pending.kind = "analytics" =>
           moved = Carried(outbox) /\ Carried(outbox') = {} /\ outbox'.events = << >>
      /\ pending.kind # "analytics" => moved = {} /\ outbox' = outbox
  <2>1. CASE pending.kind = "analytics"
    <3>1. outbox' = ClearedOutbox /\ ClearedOutbox.events = << >> /\ ClearedOutbox.summary = {}
      BY <2>1 DEF HandoffAccepted, ClearedOutbox
    <3>2. Carried(outbox') = {}
      BY <3>1, CarriedNothing
    <3>3. moved = Carried(outbox)
      BY <1>1, <2>1, CarriedSame DEF PendingIsOutbox
    <3> QED
      BY <2>1, <3>1, <3>2, <3>3
  <2>2. CASE pending.kind # "analytics"
    BY <1>1, <2>2 DEF HandoffAccepted, PendingIsOutbox
  <2> QED
    BY <2>1, <2>2
<1> HIDE DEF moved
<1>6. /\ moved \subseteq Carried(outbox) /\ Carried(outbox') = Carried(outbox) \ moved
      /\ Carried(outbox)' = Carried(outbox')
      /\ IsInjective(outbox'.events)
  <2>1. IsInjective(<< >>)
    BY DEF IsInjective
  <2> QED
    BY <1>1, <1>5, <2>1 DEF NothingSentTwice, Carried
<1>7. InFlight' = InFlight \cup moved
  <2>1. \A o : o \in InFlight <=> \E v \in Sending : o \in Carried(workerPayload[v])
    BY <1>4, InFlightMembers
  <2>2. \A o : o \in InFlight' <=> \/ o \in moved
                                   \/ \E v \in Sending : o \in Carried(workerPayload[v])
    BY <1>3, <1>4, InFlightMembers DEF moved
  <2>3. \A o : o \in InFlight' <=> o \in InFlight \cup moved
    BY <2>1, <2>2
  <2> QED
    BY <2>3 DEF InFlight
<1>8. NothingSentTwice'
  <2>1. ASSUME NEW v \in Sending', NEW i \in DOMAIN flushCh'
        PROVE  Carried(workerPayload'[v]) \cap Carried(flushCh'[i]) = {}
    <3>1. Carried(workerPayload[v]) \subseteq InFlight /\ flushCh'[i] = pending
      BY <1>3, <1>4, InFlightMembers
    <3>2. Carried(outbox) \cap InFlight = {}
      BY <1>1 DEF NothingSentTwice
    <3> QED
      BY <1>3, <1>6, <3>1, <3>2 DEF moved
  <2>2. /\ Carried(outbox') \cap (InFlight' \cup attempted') = {}
        /\ InFlight' \cap attempted' = {}
    BY <1>1, <1>2, <1>6, <1>7 DEF NothingSentTwice
  <2>3. \A v, w \in Sending' :
          v # w => Carried(workerPayload'[v]) \cap Carried(workerPayload'[w]) = {}
    BY <1>1, <1>3 DEF NothingSentTwice
  <2> QED
    BY <1>6, <2>1, <2>2, <2>3, NothingSentTwiceNext
<1>9. OnItsWay' = OnItsWay
  BY <1>2, <1>6, <1>7 DEF OnItsWay
<1>10. InboxIsFresh' /\ PendingIsOutbox'
  BY <1>1, <1>2, <1>9, PendingPayloads DEF InboxIsFresh
<1>11. DeliveryStep
  <2>1. CASE pending.kind = "analytics"
    <3>1. ~disabled
      BY <1>1, <2>1 DEF DisabledStaysQuiet
    <3>2. Delivery!HandOver
      BY <1>2, <1>5, <1>6, <1>7, <2>1, <3>1 DEF Delivery!HandOver
    <3> QED
      BY <3>2 DEF DeliveryStep, Delivery!Next
  <2>2. CASE pending.kind # "analytics"
    BY <1>2, <1>5, <1>6, <1>7, <2>2 DEF DeliveryStep, Delivery!vars
  <2> QED
    BY <2>1, <2>2
<1> QED
  BY <1>8, <1>10, <1>11 DEF DeliveryInvariant

\* A result: an unrecoverable error turns the processor off and clears the outbox.
LEMMA ReceiveResultDelivers ==
  ASSUME SafetyInvariant, DeliveryInvariant, ReceiveResult
  PROVE  DeliveryInvariant' /\ DeliveryStep
<1>1. /\ TypeOK /\ ProcessingTypeOK /\ NothingSentTwice /\ InboxIsFresh
      /\ PendingIsOutbox /\ PendingOnlyInHandoff /\ pending = NoPayload
  BY DEF SafetyInvariant, TypeOK, DeliveryInvariant, ReceiveResult, AtSelect, PendingOnlyInHandoff
<1>2. UNCHANGED <<inbox, flushCh, workerVars, workerPayload, attempted, pending, recorded>>
  BY DEF ReceiveResult, dispatcherVars, workerVars, callerVars, senderVars
<1>3. Sending' = Sending
  BY <1>2 DEF Sending, workerVars
<1>4. CASE UNCHANGED <<outbox, disabled>>
  <2>1. InboxIsFresh' /\ PendingIsOutbox'
    BY <1>1, <1>2, <1>3, <1>4, NothingMoves, PendingPayloads DEF InboxIsFresh
  <2> QED
    BY <1>2, <1>3, <1>4, <2>1, QuietStep
<1>5. CASE ~disabled /\ disabled' = TRUE /\ outbox' = ClearedOutbox
  <2>1. Carried(outbox') = {} /\ outbox'.events = << >> /\ Carried(outbox)' = {}
    BY <1>1, <1>5, ClearedOutboxEmpty DEF ClearedOutbox, Carried
  <2>2. InFlight' = InFlight
    BY <1>2, <1>3, InFlightMembers
  <2>3. IsInjective(outbox'.events)
    BY <2>1 DEF IsInjective
  <2>4. NothingSentTwice'
    BY <1>1, <1>2, <1>3, <2>1, <2>2, <2>3, NothingSentTwiceNext DEF NothingSentTwice
  <2>5. OnItsWay' \subseteq OnItsWay
    BY <1>2, <2>1, <2>2 DEF OnItsWay
  <2>6. InboxIsFresh' /\ PendingIsOutbox'
    BY <1>1, <1>2, <2>5, PendingPayloads DEF InboxIsFresh
  <2>7. Delivery!TurnOff
    BY <1>2, <1>5, <2>1, <2>2 DEF Delivery!TurnOff
  <2> QED
    BY <2>4, <2>6, <2>7 DEF DeliveryInvariant, DeliveryStep, Delivery!Next
<1> QED
  BY <1>4, <1>5 DEF ReceiveResult, HandleResult, processingVars
-----------------------------------------------------------------------------
(* processEvent.                                                           *)

\* The elements of two sequences put together.
LEMMA ConcatenatedElements ==
  ASSUME NEW S, NEW s \in Seq(S), NEW t \in Seq(S)
  PROVE  /\ s \o t \in Seq(S)
         /\ ToSet(s \o t) = ToSet(s) \cup ToSet(t)
         /\ IsInjective(s) /\ IsInjective(t) /\ ToSet(s) \cap ToSet(t) = {}
            => IsInjective(s \o t)
<1> DEFINE u == s \o t
<1>1. /\ u \in Seq(S) /\ Len(u) = Len(s) + Len(t)
      /\ \A i \in DOMAIN s : i \in DOMAIN u /\ u[i] = s[i]
      /\ \A j \in DOMAIN t : Len(s) + j \in DOMAIN u /\ u[Len(s) + j] = t[j]
  OBVIOUS
<1>2. \A k \in DOMAIN u : k \in DOMAIN s \/ (k - Len(s) \in DOMAIN t /\ k = Len(s) + (k - Len(s)))
  BY <1>1
<1>3. Len(s) \in Nat /\ DOMAIN s \subseteq Nat /\ DOMAIN t \subseteq Nat
  OBVIOUS
<1> HIDE DEF u
<1>4. ToSet(u) = ToSet(s) \cup ToSet(t)
  <2>1. ASSUME NEW k \in DOMAIN u PROVE u[k] \in ToSet(s) \cup ToSet(t)
    BY <1>1, <1>2 DEF ToSet
  <2>2. ToSet(s) \subseteq ToSet(u) /\ ToSet(t) \subseteq ToSet(u)
    BY <1>1 DEF ToSet
  <2> QED
    BY <2>1, <2>2 DEF ToSet
<1>5. ASSUME IsInjective(s), IsInjective(t), ToSet(s) \cap ToSet(t) = {},
             NEW k \in DOMAIN u, NEW m \in DOMAIN u, u[k] = u[m]
      PROVE  k = m
  <2>1. \A i \in DOMAIN s, j \in DOMAIN t : s[i] # t[j]
    BY <1>5 DEF ToSet
  <2>2. CASE k \in DOMAIN s /\ m \in DOMAIN s
    BY <1>1, <1>5, <2>2 DEF IsInjective
  <2>3. CASE k \notin DOMAIN s /\ m \notin DOMAIN s
    <3>1. t[k - Len(s)] = t[m - Len(s)]
      BY <1>1, <1>2, <1>5, <2>3
    <3>2. k - Len(s) = m - Len(s)
      BY <1>2, <1>5, <2>3, <3>1 DEF IsInjective
    <3> QED
      BY <1>2, <2>3, <3>2
  <2> QED
    BY <1>1, <1>2, <1>5, <2>1, <2>2, <2>3
<1> QED
  BY <1>1, <1>4, <1>5 DEF IsInjective, u

\* One output event, if the code adds it.
LEMMA AddedElements ==
  ASSUME NEW S, NEW b \in BOOLEAN, NEW o \in S
  PROVE  /\ AddIf(b, o) \in Seq(S) /\ IsInjective(AddIf(b, o))
         /\ ToSet(AddIf(b, o)) = IF b THEN {o} ELSE {}
<1>1. ToSet(<<o>>) = {o} /\ ToSet(<< >>) = {}
  BY DEF ToSet
<1>2. IsInjective(<<o>>) /\ IsInjective(<< >>)
  BY DEF IsInjective
<1>3. CASE b
  BY <1>1, <1>2, <1>3 DEF AddIf
<1>4. CASE ~b
  BY <1>1, <1>2, <1>4 DEF AddIf
<1> QED
  BY <1>3, <1>4

\* The output events that processEvent makes of one input, in order, before addEvent
\* drops what does not fit: different ones, all of that input.
OutputsOf(e, outs) ==
  /\ outs \in Seq(Output) /\ IsInjective(outs)
  /\ \A o \in ToSet(outs) : o.event = e

\* processEvent adds such a sequence to the outbox, and counts at most that input.
LEMMA ProcessEventAdds ==
  ASSUME NEW e \in Events, ProcessEvent(e), ~disabled
  PROVE  \E outs : OutputsOf(e, outs) /\ AddToOutbox(outs, CountedInSummary(e))
<1>0. Input \in [Events -> InputType]
  BY ProcessingAssumption
<1>1. /\ FullEvent(e) \in Output /\ FullEvent(e).event = e
      /\ FullEvent(e).kind \notin {"index", "debug"}
  BY <1>0 DEF FullEvent, Output, OutputKinds, InputType, Kinds
<1>2. CASE ProcessPlainEvent(e)
  <2>1. PICK sampled \in BOOLEAN : AddToOutbox(AddIf(sampled, FullEvent(e)), {})
    BY <1>2 DEF ProcessPlainEvent, Sample
  <2>2. CountedInSummary(e) = {}
    BY <1>2 DEF ProcessPlainEvent, CountedInSummary
  <2>3. OutputsOf(e, AddIf(sampled, FullEvent(e)))
    BY <1>1, AddedElements DEF OutputsOf
  <2> QED
    BY <2>1, <2>2, <2>3
<1>3. CASE ProcessContextEvent(e)
  <2> DEFINE index == [event |-> e, kind |-> "index"]
             debugEvent == [event |-> e, kind |-> "debug"]
  <2>1. PICK now \in ClientTimes, full \in BOOLEAN, debug \in BOOLEAN :
          AddToOutbox(AddIf(MayIndex(e) /\ ~Seen(userKeys, Input[e].context), index)
                        \o AddIf(WillAddFullEvent(e) /\ full, FullEvent(e))
                        \o AddIf(ShouldDebugEvent(e, now) /\ debug, debugEvent),
                      CountedInSummary(e))
    BY <1>3 DEF ProcessContextEvent, Sample
  <2>2. PICK a \in BOOLEAN, b \in BOOLEAN, c \in BOOLEAN :
          AddToOutbox(AddIf(a, index) \o AddIf(b, FullEvent(e)) \o AddIf(c, debugEvent),
                      CountedInSummary(e))
    <3>1. /\ (MayIndex(e) /\ ~Seen(userKeys, Input[e].context)) \in BOOLEAN
          /\ (WillAddFullEvent(e) /\ full) \in BOOLEAN
          /\ (ShouldDebugEvent(e, now) /\ debug) \in BOOLEAN
      OBVIOUS
    <3> QED
      BY <2>1, <3>1
  <2>3. /\ index \in Output /\ debugEvent \in Output /\ index.event = e /\ debugEvent.event = e
        /\ index # debugEvent /\ index # FullEvent(e) /\ debugEvent # FullEvent(e)
    BY <1>1 DEF Output, OutputKinds
  <2> DEFINE s == AddIf(a, index)
             t == AddIf(b, FullEvent(e))
             u == AddIf(c, debugEvent)
  <2>4. /\ s \in Seq(Output) /\ IsInjective(s) /\ ToSet(s) \subseteq {index}
        /\ t \in Seq(Output) /\ IsInjective(t) /\ ToSet(t) \subseteq {FullEvent(e)}
        /\ u \in Seq(Output) /\ IsInjective(u) /\ ToSet(u) \subseteq {debugEvent}
    BY <1>1, <2>3, AddedElements
  <2> HIDE DEF s, t, u, index, debugEvent
  <2> DEFINE st == s \o t
  <2>5. st \in Seq(Output) /\ IsInjective(st) /\ ToSet(st) \subseteq {index, FullEvent(e)}
    BY <2>3, <2>4, ConcatenatedElements
  <2> HIDE DEF st
  <2>6. /\ st \o u \in Seq(Output) /\ IsInjective(st \o u)
        /\ ToSet(st \o u) \subseteq {index, FullEvent(e), debugEvent}
    <3>1. ToSet(st) \cap ToSet(u) = {}
      BY <2>3, <2>4, <2>5
    <3> QED
      BY <2>4, <2>5, <3>1, ConcatenatedElements
  <2>7. OutputsOf(e, st \o u)
    BY <1>1, <2>3, <2>6 DEF OutputsOf
  <2> QED
    BY <2>2, <2>7 DEF s, t, u, st
<1> QED
  BY <1>2, <1>3 DEF ProcessEvent

\* What addEvent keeps is a prefix of the output events; the others are dropped.
LEMMA AddToOutboxElements ==
  ASSUME ProcessingTypeOK, NEW outs \in Seq(Output), NEW counted, AddToOutbox(outs, counted)
  PROVE  \E kept \in Seq(Output) :
           /\ outbox'.events = outbox.events \o kept
           /\ outbox'.summary = outbox.summary \cup counted
           /\ ToSet(kept) \subseteq ToSet(outs)
           /\ IsInjective(outs) => IsInjective(kept)
           /\ ToSet(outs) \subseteq ToSet(kept) \cup dropped' /\ dropped \subseteq dropped'
<1> DEFINE n == Fitting(outs)
           kept == SubSeq(outs, 1, n)
<1>1. n \in 0 .. Len(outs) /\ Len(outs) \in Nat
  BY FittingBound
<1>2. /\ outbox'.events = outbox.events \o kept
      /\ outbox'.summary = outbox.summary \cup counted
      /\ dropped' = dropped \cup {outs[i] : i \in (n + 1) .. Len(outs)}
  BY DEF AddToOutbox
<1> HIDE DEF n
<1>3. /\ kept \in Seq(Output) /\ DOMAIN kept = 1 .. n
      /\ \A i \in 1 .. n : i \in DOMAIN outs /\ kept[i] = outs[i]
  BY <1>1
<1> HIDE DEF kept
<1>4. ToSet(kept) \subseteq ToSet(outs)
  BY <1>3 DEF ToSet
<1>5. IsInjective(outs) => IsInjective(kept)
  BY <1>3 DEF IsInjective
<1>6. ToSet(outs) \subseteq ToSet(kept) \cup dropped'
  <2>1. ASSUME NEW i \in DOMAIN outs PROVE outs[i] \in ToSet(kept) \cup dropped'
    <3>1. i \in 1 .. n \/ i \in (n + 1) .. Len(outs)
      BY <1>1
    <3> QED
      BY <1>2, <1>3, <3>1 DEF ToSet
  <2> QED
    BY <2>1 DEF ToSet
<1> QED
  BY <1>2, <1>3, <1>4, <1>5, <1>6

\* An event from the inbox is processed: what it adds is new everywhere.
LEMMA ReceiveEventDelivers ==
  ASSUME SafetyInvariant, DeliveryInvariant, ReceiveEvent
  PROVE  DeliveryInvariant' /\ DeliveryStep
<1> DEFINE e == Head(inbox).event
<1>1. /\ TypeOK /\ ProcessingTypeOK /\ NothingSentTwice /\ InboxIsFresh
      /\ PendingIsOutbox /\ PendingOnlyInHandoff /\ inbox \in Seq(Message) /\ inbox # << >>
      /\ pending = NoPayload /\ Head(inbox).type = "event"
  BY DEF SafetyInvariant, TypeOK, DeliveryInvariant, ReceiveEvent, Receive, AtSelect,
         PendingOnlyInHandoff
<1>2. /\ inbox' = Tail(inbox) /\ ProcessEvent(e)
      /\ UNCHANGED <<flushCh, workerVars, workerPayload, attempted, recorded, pending>>
  BY DEF ReceiveEvent, Receive, dispatcherVars, workerVars, callerVars, senderVars
<1>3. e \in Events /\ \A o \in OnItsWay : o.event # e
  <2>1. Head(inbox) \in Message /\ Head(inbox) = inbox[1] /\ 1 \in DOMAIN inbox
    BY <1>1
  <2> QED
    BY <1>1, <2>1 DEF Message, InboxIsFresh
<1>4. Sending' = Sending /\ disabled' = disabled
  BY <1>2, <1>3, ProcessEventType, <1>1 DEF Sending, workerVars
<1>5. PendingIsOutbox'
  BY <1>1, <1>2, PendingPayloads
<1> HIDE DEF e
<1>6. CASE disabled
  <2>1. outbox' = outbox
    BY <1>2, <1>6 DEF ProcessEvent, processingVars
  <2>2. InboxIsFresh'
    BY <1>1, <1>2, <1>4, <2>1, NothingMoves, InboxShrinksFresh
  <2> QED
    BY <1>2, <1>4, <1>5, <2>1, <2>2, QuietStep
<1>7. CASE ~disabled
  <2>1. PICK outs : OutputsOf(e, outs) /\ AddToOutbox(outs, CountedInSummary(e))
    BY <1>2, <1>3, <1>7, ProcessEventAdds
  <2>2. outs \in Seq(Output) /\ IsInjective(outs) /\ \A o \in ToSet(outs) : o.event = e
    BY <2>1 DEF OutputsOf
  <2>3. PICK kept \in Seq(Output) :
          /\ outbox'.events = outbox.events \o kept
          /\ outbox'.summary = outbox.summary \cup CountedInSummary(e)
          /\ ToSet(kept) \subseteq ToSet(outs) /\ IsInjective(kept)
    BY <1>1, <2>1, <2>2, AddToOutboxElements
  <2> DEFINE new == ToSet(kept) \cup {[event |-> f, kind |-> "summary"] : f \in CountedInSummary(e)}
  <2>4. \A o \in new : o.event = e
    BY <2>2, <2>3 DEF CountedInSummary
  <2>5. /\ outbox.events \in Seq(Output) /\ ToSet(outbox.events) \subseteq Carried(outbox)
        /\ \A o \in Carried(outbox) : o.event # e
    BY <1>1, <1>3 DEF ProcessingTypeOK, Carried, OnItsWay
  <2>6. ToSet(outbox'.events) = ToSet(outbox.events) \cup ToSet(kept) /\ IsInjective(outbox'.events)
    <3>1. ToSet(outbox.events) \cap ToSet(kept) = {}
      BY <2>2, <2>3, <2>5
    <3> QED
      BY <1>1, <2>3, <2>5, <3>1, ConcatenatedElements DEF NothingSentTwice
  <2>7. Carried(outbox') = Carried(outbox) \cup new /\ Carried(outbox)' = Carried(outbox')
    BY <2>3, <2>6 DEF Carried
  <2> HIDE DEF new
  <2>8. InFlight' = InFlight /\ new \cap (InFlight \cup attempted) = {}
    <3>1. InFlight' = InFlight
      BY <1>2, <1>4, InFlightMembers
    <3> QED
      BY <1>3, <2>4, <3>1 DEF OnItsWay
  <2>9. Carried(outbox') \cap (InFlight' \cup attempted') = {}
    BY <1>1, <1>2, <2>7, <2>8 DEF NothingSentTwice
  <2>10. NothingSentTwice'
    BY <1>1, <1>2, <1>4, <2>6, <2>8, <2>9, NothingSentTwiceNext DEF NothingSentTwice
  <2>11. OnItsWay' = OnItsWay \cup new
    BY <1>2, <2>7, <2>8 DEF OnItsWay
  <2>12. InboxIsFresh'
    BY <1>1, <1>2, <1>3, <2>4, <2>11, InboxShrinksFresh DEF e
  <2>13. Delivery!Buffer
    BY <1>2, <1>4, <1>7, <2>7, <2>8, <2>9 DEF Delivery!Buffer
  <2> QED
    BY <1>5, <2>10, <2>12, <2>13 DEF DeliveryInvariant, DeliveryStep, Delivery!Next
<1> QED
  BY <1>6, <1>7
-----------------------------------------------------------------------------
(* The theorems about delivery.                                            *)

\* A new processor has sent nothing and buffers nothing.
LEMMA DeliveryInit == Init => DeliveryInvariant /\ Delivery!Init
<1> SUFFICES ASSUME Init PROVE DeliveryInvariant /\ Delivery!Init
  OBVIOUS
<1>1. Carried(outbox) = {} /\ IsInjective(outbox.events)
  BY CarriedNothing DEF Init, ProcessingInit, IsInjective
<1>2. Sending = {}
  BY DEF Init, Sending
<1>3. InFlight = {}
  <2>1. \A i \in DOMAIN flushCh : flushCh[i] = DiagnosticPayload(NoStats)
    BY DEF Init
  <2>2. Carried(DiagnosticPayload(NoStats)) = {}
    BY CarriedNothing DEF DiagnosticPayload
  <2> QED
    BY <1>2, <2>1, <2>2 DEF InFlight
<1>4. NothingSentTwice
  BY <1>1, <1>2, <1>3 DEF NothingSentTwice
<1>5. InboxIsFresh
  BY <1>1, <1>3 DEF InboxIsFresh, OnItsWay, Init
<1>6. PendingIsOutbox
  BY CarriedNothing DEF PendingIsOutbox, Init, NoPayload
<1>7. Delivery!Init
  BY <1>1, <1>3 DEF Delivery!Init, Init, ProcessingInit
<1> QED
  BY <1>4, <1>5, <1>6, <1>7 DEF DeliveryInvariant

\* Every step keeps every item in one place and is a step of EventDelivery or none.
LEMMA DeliveryNext ==
  SafetyInvariant /\ DeliveryInvariant /\ [Next]_vars => DeliveryInvariant' /\ DeliveryStep
<1> SUFFICES ASSUME SafetyInvariant, DeliveryInvariant, [Next]_vars
             PROVE  DeliveryInvariant' /\ DeliveryStep
  OBVIOUS
<1>1. CASE UNCHANGED vars
  BY <1>1, CallersDeliver, MessageTypes, CallerMessages
     DEF vars, channelVars, callerVars, senderVars
<1>2. CASE DispatcherStep
  BY <1>2, IdleDispatcherDelivers, HandoffAcceptedDelivers, ReceiveResultDelivers,
     ReceiveEventDelivers DEF DispatcherStep, ReceiveMessage
<1> QED
  BY <1>1, <1>2, ApplicationDelivers, WorkerDelivers DEF Next

\* Items are where they should be in every reachable state.
THEOREM DeliveryInvariantHolds == Spec => []DeliveryInvariant
<1>1. Init => DeliveryInvariant
  BY DeliveryInit
<1>2. SafetyInvariant /\ DeliveryInvariant /\ [Next]_vars => DeliveryInvariant'
  BY DeliveryNext
<1> QED
  BY <1>1, <1>2, SafetyInvariantHolds, PTL DEF Spec

\* No event and no evaluation is delivered twice, whatever the handoffs, refusals,
\* errors and workers do: it is in one payload only, and never buffered again.
THEOREM NothingIsSentTwice == Spec => []NothingSentTwice
<1>1. DeliveryInvariant => NothingSentTwice
  BY DEF DeliveryInvariant
<1> QED
  BY <1>1, DeliveryInvariantHolds, PTL

\* The dispatcher, its channels and its workers implement EventDelivery.
THEOREM ImplementsDelivery == Spec => DeliversAsPromised
<1>1. Init => Delivery!Init
  BY DeliveryInit
<1>2. SafetyInvariant /\ DeliveryInvariant /\ [Next]_vars => [Delivery!Next]_(Delivery!vars)
  BY DeliveryNext DEF DeliveryStep
<1> QED
  BY <1>1, <1>2, SafetyInvariantHolds, DeliveryInvariantHolds, PTL
     DEF Spec, DeliversAsPromised, Delivery!Spec
=============================================================================
