-------------------- MODULE EventDispatcherHistoryProofs --------------------
(***************************************************************************)
(* Proofs about what the past of the dispatcher explains: a reply means    *)
(* that the events recorded before the call are settled, a context that is *)
(* taken for known is on its way, and no dropped event is reported twice. *)
(***************************************************************************)
EXTENDS EventDispatcherDeliveryProofs, WellFoundedInduction
-----------------------------------------------------------------------------
(* A reply means that what was recorded before the call is settled.        *)

\* The application's steps: a message joins the inbox behind everything its caller
\* covers, or is lost, and a call that has begun keeps what it covers.
LEMMA CallersSettle ==
  ASSUME SafetyInvariant, SettlingInvariant, UNCHANGED current,
         NEW m \in Message, inbox' = Append(inbox, m) \/ inbox' = inbox,
         m.event = NoEvent \/ (m.event \in recorded' \ recorded /\ ~m.reply),
         m.reply => m.from \in Callers /\ callerState'[m.from] # "idle",
         recorded \subseteq recorded', recorded' \subseteq Events,
         \A c \in Callers : covered'[c] \subseteq recorded',
         \A c \in Callers : callerState[c] # "idle" =>
                              callerState'[c] # "idle" /\ covered'[c] = covered[c]
  PROVE  SettlingInvariant'
<1>1. /\ inbox \in Seq(Message) /\ NoEvent \notin Events
      /\ \A i \in DOMAIN inbox : inbox[i].reply => inbox[i].from \in Callers
      /\ current.reply => current.from \in Callers
  BY DispatcherAssumption DEF SafetyInvariant, TypeOK, RepliesHaveCallers
<1>2. /\ \A c \in Callers : covered[c] \subseteq recorded
      /\ \A i \in DOMAIN inbox : inbox[i].reply => callerState[inbox[i].from] # "idle"
      /\ current.reply => callerState[current.from] # "idle"
      /\ \A i, j \in DOMAIN inbox :
           inbox[i].reply /\ inbox[j].event \in covered[inbox[i].from] => j < i
      /\ current.reply => \A j \in DOMAIN inbox : inbox[j].event \notin covered[current.from]
  BY DEF SettlingInvariant, CallsCoverTheRecorded, RepliesFollowEvents
<1>3. ASSUME NEW c \in Callers, callerState[c] # "idle"
      PROVE  m.event \notin covered'[c] /\ covered'[c] = covered[c]
  BY <1>1, <1>2, <1>3
<1>4. CASE inbox' = inbox
  <2>1. CallsCoverTheRecorded'
    BY <1>1, <1>2, <1>4 DEF CallsCoverTheRecorded
  <2>2. RepliesFollowEvents'
    BY <1>1, <1>2, <1>3, <1>4 DEF RepliesFollowEvents
  <2> QED
    BY <2>1, <2>2 DEF SettlingInvariant
<1>5. CASE inbox' = Append(inbox, m)
  <2>1. /\ DOMAIN inbox' = DOMAIN inbox \cup {Len(inbox) + 1}
        /\ \A i \in DOMAIN inbox : inbox'[i] = inbox[i] /\ i < Len(inbox) + 1
        /\ inbox'[Len(inbox) + 1] = m
    BY <1>1, <1>5
  <2>2. CallsCoverTheRecorded'
    <3>1. ASSUME NEW i \in DOMAIN inbox', inbox'[i].reply
          PROVE  callerState'[inbox'[i].from] # "idle"
      BY <1>1, <1>2, <2>1, <3>1
    <3> QED
      BY <1>1, <1>2, <3>1 DEF CallsCoverTheRecorded
  <2>3. ASSUME NEW i \in DOMAIN inbox', NEW j \in DOMAIN inbox', inbox'[i].reply,
               inbox'[j].event \in covered'[inbox'[i].from]
        PROVE  j < i
    <3>1. CASE i \in DOMAIN inbox
      <4>1. inbox[i].from \in Callers /\ callerState[inbox[i].from] # "idle"
        BY <1>1, <1>2, <2>1, <2>3, <3>1
      <4>2. j # Len(inbox) + 1
        BY <1>3, <2>1, <2>3, <3>1, <4>1
      <4> QED
        BY <1>2, <1>3, <2>1, <2>3, <3>1, <4>1, <4>2
    <3>2. CASE i = Len(inbox) + 1
      <4>1. m.event = NoEvent /\ m.from \in Callers
        BY <2>1, <2>3, <3>2
      <4>2. NoEvent \notin covered'[m.from]
        BY <1>1, <4>1
      <4> QED
        BY <2>1, <2>3, <3>2, <4>1, <4>2
    <3> QED
      BY <2>1, <3>1, <3>2
  <2>4. current.reply => \A j \in DOMAIN inbox' : inbox'[j].event \notin covered'[current.from]
    BY <1>1, <1>2, <1>3, <2>1
  <2>5. RepliesFollowEvents'
    BY <2>3, <2>4 DEF RepliesFollowEvents
  <2> QED
    BY <2>2, <2>5 DEF SettlingInvariant
<1> QED
  BY <1>4, <1>5

\* The dispatcher's and the workers' steps: the inbox is served in order.
LEMMA DispatcherSettles ==
  ASSUME SafetyInvariant, SettlingInvariant, UNCHANGED <<callerState, covered, recorded>>,
         \/ inbox' = inbox /\ (current' = current \/ current'.reply = FALSE)
         \/ /\ inbox # << >> /\ inbox' = Tail(inbox)
            /\ current' = current \/ current'.reply = FALSE \/ current' = Head(inbox)
  PROVE  SettlingInvariant'
<1>1. inbox \in Seq(Message)
  BY DEF SafetyInvariant, TypeOK
<1>2. /\ \A c \in Callers : covered[c] \subseteq recorded
      /\ \A i \in DOMAIN inbox : inbox[i].reply => callerState[inbox[i].from] # "idle"
      /\ current.reply => callerState[current.from] # "idle"
      /\ \A i, j \in DOMAIN inbox :
           inbox[i].reply /\ inbox[j].event \in covered[inbox[i].from] => j < i
      /\ current.reply => \A j \in DOMAIN inbox : inbox[j].event \notin covered[current.from]
  BY DEF SettlingInvariant, CallsCoverTheRecorded, RepliesFollowEvents
<1>3. CASE inbox' = inbox /\ (current' = current \/ current'.reply = FALSE)
  BY <1>2, <1>3 DEF SettlingInvariant, CallsCoverTheRecorded, RepliesFollowEvents
<1>4. CASE /\ inbox # << >> /\ inbox' = Tail(inbox)
           /\ current' = current \/ current'.reply = FALSE \/ current' = Head(inbox)
  <2>1. /\ Head(inbox) = inbox[1] /\ 1 \in DOMAIN inbox
        /\ \A i \in DOMAIN inbox' : /\ i + 1 \in DOMAIN inbox /\ inbox'[i] = inbox[i + 1]
                                    /\ i \in Nat /\ ~(i + 1 < 1)
    BY <1>1, <1>4
  <2>2. CallsCoverTheRecorded'
    BY <1>2, <1>4, <2>1 DEF CallsCoverTheRecorded
  <2>3. ASSUME NEW i \in DOMAIN inbox', NEW j \in DOMAIN inbox', inbox'[i].reply,
               inbox'[j].event \in covered'[inbox'[i].from]
        PROVE  j < i
    <3>1. j + 1 < i + 1
      BY <1>2, <2>1, <2>3
    <3> QED
      BY <2>1, <3>1
  <2>4. ASSUME current'.reply, NEW j \in DOMAIN inbox'
        PROVE  inbox'[j].event \notin covered'[current'.from]
    BY <1>2, <1>4, <2>1, <2>4
  <2> QED
    BY <2>2, <2>3, <2>4 DEF SettlingInvariant, RepliesFollowEvents
<1> QED
  BY <1>3, <1>4

\* Every step of the application settles.
LEMMA ApplicationSettles ==
  ASSUME SafetyInvariant, SettlingInvariant,
         \/ \E e \in Events : RecordEvent(e)
         \/ Flush
         \/ \E c \in Callers : CallerStep(c)
  PROVE  SettlingInvariant'
<1>1. /\ recorded \subseteq Events /\ covered \in [Callers -> SUBSET Events]
      /\ callerState \in [Callers -> CallerStates]
      /\ \A c \in Callers : covered[c] \subseteq recorded
      /\ NoMessage \in Message /\ NoMessage.event = NoEvent /\ NoMessage.reply = FALSE
  BY MessageTypes
     DEF SafetyInvariant, TypeOK, SettlingInvariant, CallsCoverTheRecorded, NoMessage
<1>2. CASE \E e \in Events : RecordEvent(e)
  <2>1. PICK e \in Events : RecordEvent(e)
    BY <1>2
  <2>2. /\ EventMessage(e) \in Message /\ EventMessage(e).event = e
        /\ EventMessage(e).reply = FALSE
    BY MessageTypes DEF EventMessage
  <2>3. inbox' = Append(inbox, EventMessage(e)) \/ inbox' = inbox
    BY <2>1 DEF RecordEvent, PostNonBlocking
  <2>4. /\ recorded \subseteq recorded' /\ e \in recorded' \ recorded /\ recorded' \subseteq Events
        /\ UNCHANGED <<current, callerState, covered>>
    BY <1>1, <2>1 DEF RecordEvent, dispatcherVars
  <2> QED
    BY <1>1, <2>2, <2>3, <2>4, CallersSettle
<1>3. CASE Flush
  <2>1. /\ FlushMessage(NoCaller, FALSE) \in Message
        /\ FlushMessage(NoCaller, FALSE).event = NoEvent
        /\ FlushMessage(NoCaller, FALSE).reply = FALSE
    BY MessageTypes DEF FlushMessage
  <2>2. /\ inbox' = Append(inbox, FlushMessage(NoCaller, FALSE)) \/ inbox' = inbox
        /\ UNCHANGED <<current, callerState, covered, recorded>>
    BY <1>3 DEF Flush, PostNonBlocking, dispatcherVars, callerVars
  <2> QED
    BY <1>1, <2>1, <2>2, CallersSettle
<1>4. CASE \E c \in Callers : CallerStep(c)
  <2>1. PICK c \in Callers : CallerStep(c)
    BY <1>4
  <2>2. ASSUME NEW m \in Message, m.event = NoEvent, m.from = c,
               NEW state \in CallerStates \ {"idle"}, SendToInbox(c, m, state),
               UNCHANGED covered \/ (Covers(c) /\ callerState[c] = "idle")
        PROVE  SettlingInvariant'
    <3>1. /\ inbox' = Append(inbox, m) /\ UNCHANGED <<current, recorded>>
          /\ callerState' = [callerState EXCEPT ![c] = state]
      BY <2>2 DEF SendToInbox, dispatcherVars
    <3>2. \A d \in Callers : /\ covered'[d] \subseteq recorded'
                             /\ callerState[d] # "idle" =>
                                  callerState'[d] # "idle" /\ covered'[d] = covered[d]
      BY <1>1, <2>2, <3>1 DEF Covers
    <3>3. callerState'[m.from] # "idle" /\ m.from \in Callers
      BY <1>1, <2>2, <3>1
    <3> QED
      BY <1>1, <2>2, <3>1, <3>2, <3>3, CallersSettle
  <2>3. ASSUME NEW state \in CallerStates \ {"idle"}, CallerGoesTo(c, state),
               UNCHANGED covered \/ (Covers(c) /\ callerState[c] = "idle")
        PROVE  SettlingInvariant'
    <3>1. /\ UNCHANGED <<inbox, current, recorded>>
          /\ callerState' = [callerState EXCEPT ![c] = state]
      BY <2>3 DEF CallerGoesTo, channelVars, dispatcherVars
    <3>2. \A d \in Callers : /\ covered'[d] \subseteq recorded'
                             /\ callerState[d] # "idle" =>
                                  callerState'[d] # "idle" /\ covered'[d] = covered[d]
      BY <1>1, <2>3, <3>1 DEF Covers
    <3> QED
      BY <1>1, <3>1, <3>2, CallersSettle
  <2>4. \A state \in {"called", "flushing", "waiting", "returned", "timedOut"} :
          state \in CallerStates \ {"idle"}
    BY DEF CallerStates
  <2>5. /\ \A b \in BOOLEAN : FlushMessage(c, b) \in Message /\ FlushMessage(c, b).from = c
        /\ SyncMessage(c) \in Message /\ SyncMessage(c).from = c
        /\ ShutdownMessage(c) \in Message /\ ShutdownMessage(c).from = c
    BY MessageTypes DEF FlushMessage, SyncMessage, ShutdownMessage
  <2>6. CASE FlushBlocking(c) \/ WaitUntilInactive(c)
    BY <2>2, <2>4, <2>5, <2>6, CallerMessages DEF FlushBlocking, WaitUntilInactive
  <2>7. CASE CloseSendsFlush(c) \/ CloseSendsShutdown(c)
    BY <2>2, <2>4, <2>5, <2>7, CallerMessages DEF CloseSendsFlush, CloseSendsShutdown
  <2>8. CASE FlushBlockingTimesOut(c) \/ ReceiveReply(c) \/ Close(c) \/ CloseAgain(c)
    BY <2>3, <2>4, <2>8 DEF FlushBlockingTimesOut, ReceiveReply, Close, CloseAgain
  <2> QED
    BY <2>1, <2>6, <2>7, <2>8 DEF CallerStep
<1> QED
  BY <1>2, <1>3, <1>4

\* What is being handled after a step of the dispatcher: the same message, one that
\* wants no reply, or the one that has just been received.
LEMMA SettlingNext == SafetyInvariant /\ SettlingInvariant /\ [Next]_vars => SettlingInvariant'
<1> SUFFICES ASSUME SafetyInvariant, SettlingInvariant, [Next]_vars PROVE SettlingInvariant'
  OBVIOUS
<1>1. NoMessage.reply = FALSE
  BY DEF NoMessage
<1>2. CASE UNCHANGED vars \/ (\E w \in Workers : WorkerStep(w)) \/ ServerClock
  <2>1. UNCHANGED <<inbox, current, callerState, covered, recorded>>
    BY <1>2 DEF vars, WorkerStep, TakePayload, SendReturns, PostResult, FinishPayload,
       ExitWorker, ServerClock, channelVars, dispatcherVars, callerVars
  <2> QED
    BY <2>1, DispatcherSettles
<1>3. CASE DispatcherStep
  <2>1. UNCHANGED <<callerState, covered, recorded>>
    BY <1>3 DEF DispatcherStep, ReceiveMessage, ReceiveEvent, ReceiveFlush, ReceiveSyncOrShutdown,
       Receive, ReceiveResult, FlushTick, UsersResetTick, DiagnosticsTick, HandoffAccepted,
       HandoffRefused, ReplyToCaller, Shutdown, callerVars
  <2>2. ASSUME NEW m, GoOn(m) \/ TriggerFlush(m) PROVE current' = m \/ current'.reply = FALSE
    BY <1>1, <2>2 DEF GoOn, TriggerFlush, BeginHandoff
  <2>3. CASE ReceiveMessage
    <3>1. /\ inbox # << >> /\ inbox' = Tail(inbox)
          /\ current' = current \/ current'.reply = FALSE \/ current' = Head(inbox)
      BY <2>2, <2>3 DEF ReceiveMessage, ReceiveEvent, ReceiveFlush, ReceiveSyncOrShutdown, Receive,
         dispatcherVars
    <3> QED
      BY <2>1, <3>1, DispatcherSettles
  <2>4. CASE ~ReceiveMessage
    <3>1. inbox' = inbox /\ (current' = current \/ current'.reply = FALSE)
      BY <1>1, <1>3, <2>2, <2>4 DEF DispatcherStep, ReceiveResult, FlushTick, UsersResetTick,
         DiagnosticsTick, HandoffAccepted, HandoffRefused, ReplyToCaller, Shutdown, BeginHandoff,
         channelVars, dispatcherVars
    <3> QED
      BY <2>1, <3>1, DispatcherSettles
  <2> QED
    BY <2>3, <2>4
<1> QED
  BY <1>2, <1>3, ApplicationSettles DEF Next

\* In every reachable state the messages of the blocking calls are behind the events
\* that they cover.
THEOREM SettlingInvariantHolds == Spec => []SettlingInvariant
<1>1. Init => SettlingInvariant
  BY DEF Init, SettlingInvariant, CallsCoverTheRecorded, RepliesFollowEvents, NoMessage
<1> QED
  BY <1>1, SettlingNext, SafetyInvariantHolds, PTL DEF Spec

\* FlushBlocking, waitUntilInactive and Close get their reply only when no event that
\* was recorded before the call is still in the inbox or on its way.
THEOREM RepliesMeanSettled == Spec => ReplyMeansSettled
<1>1. ASSUME SafetyInvariant, SettlingInvariant, [Next]_vars, NEW c \in replies' \ replies
      PROVE  /\ \A i \in DOMAIN inbox : inbox[i].event \notin covered[c]
             /\ Of(covered[c], InFlight) = {}
  <2>1. ReplyToCaller \/ Shutdown
    BY <1>1 DEF Next, CallerStep, DispatcherStep, WorkerStep, RecordEvent, Flush, ServerClock,
       FlushBlocking, FlushBlockingTimesOut, WaitUntilInactive, ReceiveReply, Close,
       CloseSendsFlush, CloseSendsShutdown, CloseAgain, SendToInbox, CallerGoesTo,
       ReceiveMessage, ReceiveEvent, ReceiveFlush, ReceiveSyncOrShutdown, Receive, ReceiveResult,
       FlushTick, UsersResetTick, DiagnosticsTick, HandoffAccepted, HandoffRefused,
       TakePayload, SendReturns, PostResult, FinishPayload, ExitWorker, vars, callerVars
  <2>2. /\ dispatcher = "awaitWorkers" /\ workersGroup = 0 /\ c = current.from
        /\ flushCh \in Seq(Payload) /\ current.reply
    BY <1>1, <2>1 DEF ReplyToCaller, Shutdown, AllFlushesDone, SafetyInvariant, TypeOK,
                      RepliesHaveCallers
  <2>3. Len(flushCh) = 0 /\ Busy = {}
    <3>1. Len(flushCh) + Cardinality(Busy) = 0
      BY <1>1, <2>2 DEF SafetyInvariant, WorkersGroupExact
    <3> QED
      BY <2>2, <3>1, BusyFinite
  <2>4. InFlight = {}
    <3>1. DOMAIN flushCh = {} /\ Sending = {}
      BY <2>2, <2>3 DEF Busy, Sending
    <3> QED
      BY <3>1 DEF InFlight
  <2> QED
    BY <1>1, <2>2, <2>4 DEF SettlingInvariant, RepliesFollowEvents, Of
<1>2. SafetyInvariant /\ SettlingInvariant /\ [Next]_vars =>
        [\A c \in replies' \ replies :
           /\ \A i \in DOMAIN inbox : inbox[i].event \notin covered[c]
           /\ Of(covered[c], InFlight) = {}]_vars
  BY <1>1
<1> QED
  BY <1>2, SafetyInvariantHolds, SettlingInvariantHolds, PTL DEF Spec, ReplyMeansSettled
-----------------------------------------------------------------------------
(* A context is taken for known for a reason.                              *)

\* One of the reasons that KnownContextExplained allows.
Reason(e) ==
  \/ Introduction(e) \in OnItsWay \cup dropped
  \/ Input[e].kind = "identify" /\ Ratio(e) # 1
  \/ disabled

\* What has been put in the outbox stays on its way until the SDK is told to stop: that
\* is what the refinement says.  And what was dropped stays dropped.
LEMMA ReasonsStay ==
  ASSUME SafetyInvariant, DeliveryInvariant, [Next]_vars, dropped \subseteq dropped',
         NEW e, Reason(e)
  PROVE  Reason(e)'
<1>1. OnItsWay \subseteq OnItsWay' \/ disabled'
  <2>1. Delivery!Next \/ UNCHANGED Delivery!vars
    BY DeliveryNext DEF DeliveryStep
  <2> QED
    BY <2>1 DEF Delivery!Next, Delivery!vars, Delivery!Buffer, Delivery!HandOver,
       Delivery!Attempt, Delivery!TurnOff, OnItsWay
<1>2. disabled => disabled'
  <2>1. Delivery!Next \/ UNCHANGED Delivery!vars
    BY DeliveryNext DEF DeliveryStep
  <2> QED
    BY <2>1 DEF Delivery!Next, Delivery!vars, Delivery!Buffer, Delivery!HandOver,
       Delivery!Attempt, Delivery!TurnOff
<1>3. Introduction(e)' = Introduction(e) /\ Ratio(e)' = Ratio(e)
  BY DEF Introduction, Ratio
<1> QED
  BY <1>1, <1>2, <1>3 DEF Reason

\* The three output events that processEvent may make of an event with a context.
LEMMA ContextEventOutputs ==
  ASSUME NEW e \in Events, NEW a \in BOOLEAN, NEW b \in BOOLEAN, NEW c \in BOOLEAN,
         NEW outs, outs = AddIf(a, [event |-> e, kind |-> "index"]) \o AddIf(b, FullEvent(e))
                            \o AddIf(c, [event |-> e, kind |-> "debug"])
  PROVE  /\ outs \in Seq(Output)
         /\ a => [event |-> e, kind |-> "index"] \in ToSet(outs)
         /\ b => FullEvent(e) \in ToSet(outs)
<1> DEFINE s == AddIf(a, [event |-> e, kind |-> "index"])
           t == AddIf(b, FullEvent(e))
           u == AddIf(c, [event |-> e, kind |-> "debug"])
           st == s \o t
<1>1. /\ [event |-> e, kind |-> "index"] \in Output /\ [event |-> e, kind |-> "debug"] \in Output
      /\ FullEvent(e) \in Output
  BY ProcessingAssumption DEF Output, OutputKinds, FullEvent, InputType, Kinds
<1>2. /\ s \in Seq(Output) /\ t \in Seq(Output) /\ u \in Seq(Output)
      /\ a => [event |-> e, kind |-> "index"] \in ToSet(s)
      /\ b => FullEvent(e) \in ToSet(t)
  BY <1>1, AddedElements
<1> HIDE DEF s, t, u
<1>3. st \in Seq(Output) /\ ToSet(st) = ToSet(s) \cup ToSet(t)
  BY <1>2, ConcatenatedElements
<1> HIDE DEF st
<1>4. st \o u \in Seq(Output) /\ ToSet(st \o u) = ToSet(st) \cup ToSet(u)
  BY <1>2, <1>3, ConcatenatedElements
<1>5. outs = st \o u
  BY DEF s, t, u, st
<1> QED
  BY <1>2, <1>3, <1>4, <1>5

\* An event whose context is not known yet introduces it, unless the event that
\* would is dropped or is an identify event that is sampled out.
LEMMA NewContextExplained ==
  ASSUME ProcessingTypeOK, NEW e \in Events, ProcessContextEvent(e),
         ~Seen(userKeys, Input[e].context)
  PROVE  \/ Introduction(e) \in ToSet(outbox'.events) \cup dropped'
         \/ Input[e].kind = "identify" /\ Ratio(e) # 1
<1> DEFINE index == [event |-> e, kind |-> "index"]
           i == MayIndex(e)
           Outs(b, c) == AddIf(i, index) \o AddIf(b, FullEvent(e))
                           \o AddIf(c, [event |-> e, kind |-> "debug"])
<1>1. PICK now \in ClientTimes, full \in Sample(Ratio(e)), debug \in Sample(Ratio(e)) :
        AddToOutbox(AddIf(i /\ ~Seen(userKeys, Input[e].context), index)
                      \o AddIf(WillAddFullEvent(e) /\ full, FullEvent(e))
                      \o AddIf(ShouldDebugEvent(e, now) /\ debug,
                               [event |-> e, kind |-> "debug"]),
                    CountedInSummary(e))
  BY DEF ProcessContextEvent
<1>2. (i /\ ~Seen(userKeys, Input[e].context)) = i
  BY DEF MayIndex
<1>3. PICK b \in BOOLEAN, c \in BOOLEAN :
        AddToOutbox(Outs(b, c), CountedInSummary(e)) /\ b = (WillAddFullEvent(e) /\ full)
  <2>1. (WillAddFullEvent(e) /\ full) \in BOOLEAN /\ (ShouldDebugEvent(e, now) /\ debug) \in BOOLEAN
    OBVIOUS
  <2> QED
    BY <1>1, <1>2, <2>1
<1> DEFINE outs == Outs(b, c)
<1>4. /\ outs \in Seq(Output) /\ (i => index \in ToSet(outs))
      /\ b => FullEvent(e) \in ToSet(outs)
  <2>1. i \in BOOLEAN
    BY DEF MayIndex
  <2> QED
    BY <2>1, ContextEventOutputs
<1> HIDE DEF outs
<1>5. ToSet(outs) \subseteq ToSet(outbox'.events) \cup dropped'
  <2>1. outbox.events \in Seq(Output)
    BY DEF ProcessingTypeOK
  <2>2. PICK kept \in Seq(Output) :
          /\ outbox'.events = outbox.events \o kept
          /\ ToSet(outs) \subseteq ToSet(kept) \cup dropped'
    BY <1>3, <1>4, AddToOutboxElements DEF outs
  <2>3. ToSet(outbox'.events) = ToSet(outbox.events) \cup ToSet(kept)
    BY <2>1, <2>2, ConcatenatedElements
  <2> QED
    BY <2>2, <2>3
<1>6. CASE i
  <2>1. Introduction(e) = index
    <3>1. Input[e].kind # "identify"
      BY <1>6 DEF MayIndex, WillAddFullEvent
    <3> QED
      BY <3>1 DEF Introduction
  <2> QED
    BY <1>4, <1>5, <1>6, <2>1
<1>7. CASE ~i
  <2>1. WillAddFullEvent(e) /\ Input[e].kind = "identify"
    BY <1>7 DEF MayIndex
  <2>2. CASE Ratio(e) = 1
    <3>1. b
      BY <1>3, <2>1, <2>2 DEF Sample
    <3>2. FullEvent(e) = Introduction(e)
      BY <2>1 DEF FullEvent, Introduction
    <3> QED
      BY <1>4, <1>5, <3>1, <3>2
  <2> QED
    BY <2>1, <2>2
<1> QED
  BY <1>6, <1>7

\* The event that is processed explains every context that is known afterwards.
LEMMA ProcessEventExplains ==
  ASSUME ProcessingTypeOK, NEW e \in Events, ProcessEvent(e), KnownContextExplained,
         \A d : Reason(d) => Reason(d)'
  PROVE  KnownContextExplained'
<1>1. \A k \in Cached(userKeys) : \E d \in introducers : Input[d].context = k /\ Reason(d)
  BY DEF KnownContextExplained, Reason
<1>2. SUFFICES ASSUME NEW k \in Cached(userKeys')
               PROVE  \E d \in introducers' : Input[d].context = k /\ Reason(d)'
  <2>1. Cached(userKeys)' = Cached(userKeys')
    BY DEF Cached
  <2>2. \A d : Introduction(d)' = Introduction(d) /\ Ratio(d)' = Ratio(d)
    BY DEF Introduction, Ratio
  <2> QED
    BY <2>1, <2>2 DEF KnownContextExplained, Reason
<1>3. CASE UNCHANGED <<userKeys, introducers>>
  BY <1>1, <1>2, <1>3
<1>4. CASE ProcessContextEvent(e) /\ k \in Cached(userKeys)
  <2>1. PICK d \in introducers : Input[d].context = k /\ Reason(d)
    BY <1>1, <1>4
  <2>2. d \in introducers'
    BY <1>2, <1>4, <2>1 DEF ProcessContextEvent
  <2> QED
    BY <2>1, <2>2
<1>5. CASE ProcessContextEvent(e) /\ k \notin Cached(userKeys)
  <2>1. userKeys' = Add(UserKeysCapacity, userKeys, Input[e].context)
    BY <1>5 DEF ProcessContextEvent
  <2>2. k = Input[e].context
    <3>1. IsCache(UserKeysCapacity, userKeys, Contexts) /\ UserKeysCapacity \in Nat
      BY ProcessingAssumption DEF ProcessingTypeOK
    <3> DEFINE key == Input[e].context
    <3>2. key \in Contexts
      BY ProcessingAssumption DEF InputType
    <3>3. userKeys' = Add(UserKeysCapacity, userKeys, key)
      BY <2>1
    <3> HIDE DEF key
    <3>4. Cached(Add(UserKeysCapacity, userKeys, key)) \subseteq Cached(userKeys) \cup {key}
      BY <3>1, <3>2, AddIsCache
    <3>5. k = key
      BY <1>2, <1>5, <3>3, <3>4
    <3> QED
      BY <3>5 DEF key
  <2>3. ~Seen(userKeys, Input[e].context)
    BY <1>5, <2>2 DEF Seen
  <2>4. e \in introducers'
    BY <1>2, <1>5, <2>2, <2>3 DEF ProcessContextEvent
  <2>5. Reason(e)'
    <3>1. \/ Introduction(e) \in ToSet(outbox'.events) \cup dropped'
          \/ Input[e].kind = "identify" /\ Ratio(e) # 1
      BY <1>5, <2>3, NewContextExplained
    <3>2. ToSet(outbox'.events) \subseteq OnItsWay'
      BY DEF OnItsWay, Carried
    <3>3. Introduction(e)' = Introduction(e) /\ Ratio(e)' = Ratio(e)
      BY DEF Introduction, Ratio
    <3> QED
      BY <3>1, <3>2, <3>3 DEF Reason
  <2> QED
    BY <2>2, <2>4, <2>5
<1> QED
  BY <1>3, <1>4, <1>5 DEF ProcessEvent, ProcessPlainEvent, processingVars

\* Every other step leaves the known contexts and their reasons alone, or forgets them.
LEMMA KnownContextNext ==
  SafetyInvariant /\ DeliveryInvariant /\ KnownContextExplained /\ [Next]_vars
    => KnownContextExplained'
<1> SUFFICES ASSUME SafetyInvariant, DeliveryInvariant, KnownContextExplained, [Next]_vars
             PROVE  KnownContextExplained'
  OBVIOUS
<1>1. CASE ReceiveEvent
  <2>1. /\ inbox \in Seq(Message) /\ inbox # << >> /\ ProcessingTypeOK
        /\ ProcessEvent(Head(inbox).event) /\ Head(inbox).type = "event"
    BY <1>1 DEF SafetyInvariant, TypeOK, ReceiveEvent, Receive
  <2>2. Head(inbox) \in Message /\ Head(inbox) = inbox[1] /\ 1 \in DOMAIN inbox
    BY <2>1
  <2>3. Head(inbox).event \in Events
    BY <2>1, <2>2 DEF Message
  <2>4. dropped \subseteq dropped'
    <3>1. CASE disabled
      BY <2>1, <3>1 DEF ProcessEvent, processingVars
    <3>2. CASE ~disabled
      <4>1. PICK outs : /\ OutputsOf(Head(inbox).event, outs)
                        /\ AddToOutbox(outs, CountedInSummary(Head(inbox).event))
        BY <2>1, <2>3, <3>2, ProcessEventAdds
      <4> QED
        BY <2>1, <4>1, AddToOutboxElements DEF OutputsOf
    <3> QED
      BY <3>1, <3>2
  <2> QED
    BY <2>1, <2>3, <2>4, ReasonsStay, ProcessEventExplains
<1>2. CASE UsersResetTick
  <2>1. Cached(userKeys') = {}
    BY <1>2 DEF UsersResetTick, ResetUserKeys, Cached, EmptyCache
  <2>2. Cached(userKeys)' = Cached(userKeys')
    BY DEF Cached
  <2> QED
    BY <2>1, <2>2 DEF KnownContextExplained
<1>3. CASE ~ReceiveEvent /\ ~UsersResetTick
  <2>1. UNCHANGED <<userKeys, introducers, dropped>>
    BY <1>3 DEF Next, vars, processingVars, CallerStep, DispatcherStep, WorkerStep, RecordEvent,
       Flush, ServerClock, FlushBlocking, FlushBlockingTimesOut, WaitUntilInactive, ReceiveReply,
       Close, CloseSendsFlush, CloseSendsShutdown, CloseAgain, SendToInbox, CallerGoesTo,
       ReceiveMessage, ReceiveFlush, ReceiveSyncOrShutdown, Receive, ReceiveResult, HandleResult,
       FlushTick, DiagnosticsTick, HandoffAccepted, HandoffRefused, ReplyToCaller, Shutdown,
       TakePayload, SendReturns, PostResult, FinishPayload, ExitWorker, callerVars
  <2>2. \A d : Reason(d) => Reason(d)'
    BY <2>1, ReasonsStay
  <2>3. \A d : Introduction(d)' = Introduction(d) /\ Ratio(d)' = Ratio(d)
    BY DEF Introduction, Ratio
  <2> QED
    BY <2>1, <2>2, <2>3 DEF KnownContextExplained, Cached, Reason
<1> QED
  BY <1>1, <1>2, <1>3

\* A context that later events refer to by its key only was sent with its attributes, or
\* is about to be, by the input that put it in the cache, except where that event was
\* dropped at capacity or an identify event was sampled out.
THEOREM KnownContextsAreExplained == Spec => []KnownContextExplained
<1>1. Init => KnownContextExplained
  BY DEF Init, ProcessingInit, EmptyCache, KnownContextExplained, Cached
<1> QED
  BY <1>1, KnownContextNext, SafetyInvariantHolds, DeliveryInvariantHolds, PTL DEF Spec
-----------------------------------------------------------------------------
(* Sums.  SumFunction is a recursive function over the subsets of its      *)
(* domain; that it counts the boxes of Columns follows because a smallest  *)
(* subset for which it does not cannot exist.                              *)

\* The recursion that SumFunction unfolds to.
IsPartialSums(h, f) ==
  h = [s \in SUBSET (DOMAIN f) |->
         IF s = {} THEN 0 ELSE f[CHOOSE x \in s : TRUE] + h[s \ {CHOOSE x \in s : TRUE}]]

\* SumFunction without the library's folds.
LEMMA SumFunctionDef ==
  ASSUME NEW f PROVE SumFunction(f) = (CHOOSE h : IsPartialSums(h, f))[DOMAIN f]
  BY DEF SumFunction, SumFunctionOnSet, FoldFunction, FoldFunctionOnSet, MapThenFoldSet,
         IsPartialSums

\* The sum of f over s counts the boxes of columns of height f[x], one for each x in s.
Column(f, x) == {x} \X (0 .. (f[x] - 1))
Columns(f, s) == UNION {Column(f, x) : x \in s}

\* A column has as many boxes as it is high.
LEMMA ColumnSize ==
  ASSUME NEW f, NEW x, f[x] \in Nat
  PROVE  IsFiniteSet(Column(f, x)) /\ Cardinality(Column(f, x)) = f[x]
<1> DEFINE n == f[x]
<1>1. IsFiniteSet({x}) /\ Cardinality({x}) = 1
  BY FS_Singleton
<1>2. IsFiniteSet(0 .. (n - 1)) /\ Cardinality(0 .. (n - 1)) = n
  <2>1. n \in Nat
    OBVIOUS
  <2> HIDE DEF n
  <2>2. 0 \in Int /\ n - 1 \in Int
    BY <2>1
  <2>3. Cardinality(0 .. (n - 1)) = IF 0 > n - 1 THEN 0 ELSE (n - 1) - 0 + 1
    BY <2>2, FS_Interval
  <2> QED
    BY <2>1, <2>2, <2>3, FS_Interval
<1>3. /\ IsFiniteSet({x} \X (0 .. (n - 1)))
      /\ Cardinality({x} \X (0 .. (n - 1))) = n
  <2>1. n \in Nat
    OBVIOUS
  <2> DEFINE T == 0 .. (n - 1)
  <2>2. IsFiniteSet(T) /\ Cardinality(T) = n
    BY <1>2
  <2> HIDE DEF T, n
  <2>3. IsFiniteSet({x} \X T) /\ Cardinality({x} \X T) = Cardinality({x}) * Cardinality(T)
    BY <1>1, <2>2, FS_Product
  <2>4. Cardinality({x} \X T) = n
    BY <1>1, <2>1, <2>2, <2>3
  <2> QED
    BY <2>3, <2>4 DEF T
<1> QED
  BY <1>3 DEF Column

\* Finitely many columns have finitely many boxes.
LEMMA ColumnsFinite ==
  ASSUME NEW f, NEW s, IsFiniteSet(s), \A x \in s : f[x] \in Nat
  PROVE  IsFiniteSet(Columns(f, s)) /\ Cardinality(Columns(f, s)) \in Nat
<1> DEFINE g == [x \in s |-> Column(f, x)]
           T == {Column(f, x) : x \in s}
<1>1. g \in Surjection(s, T)
  BY DEF Surjection
<1>2. IsFiniteSet(T)
  BY <1>1, FS_Surjection
<1>3. \A C \in T : IsFiniteSet(C)
  BY ColumnSize
<1>4. IsFiniteSet(UNION T)
  BY <1>2, <1>3, FS_UNION
<1> QED
  BY <1>4, FS_CardinalityType DEF Columns

\* One column more adds its height.
LEMMA ColumnsAdd ==
  ASSUME NEW f, NEW s, IsFiniteSet(s), \A y \in s : f[y] \in Nat, NEW x \in s
  PROVE  Cardinality(Columns(f, s)) = f[x] + Cardinality(Columns(f, s \ {x}))
<1>1. IsFiniteSet(s \ {x})
  BY FS_RemoveElement
<1>2. /\ IsFiniteSet(Columns(f, s \ {x})) /\ Cardinality(Columns(f, s \ {x})) \in Nat
      /\ IsFiniteSet(Column(f, x)) /\ Cardinality(Column(f, x)) = f[x]
  BY <1>1, ColumnsFinite, ColumnSize
<1>3. Columns(f, s) = Columns(f, s \ {x}) \cup Column(f, x)
  BY DEF Columns
<1>4. Columns(f, s \ {x}) \cap Column(f, x) = {}
  BY DEF Columns, Column
<1> DEFINE A == Columns(f, s \ {x})
           B == Column(f, x)
<1>5. IsFiniteSet(A) /\ IsFiniteSet(B) /\ Columns(f, s) = A \cup B /\ A \cap B = {}
  BY <1>2, <1>3, <1>4
<1>6. Cardinality(A) \in Nat /\ Cardinality(B) = f[x] /\ f[x] \in Nat
  BY <1>2
<1> HIDE DEF A, B
<1>7. Cardinality(A \cup B) = Cardinality(A) + Cardinality(B) - Cardinality(A \cap B)
  BY <1>5, FS_Union
<1>8. Cardinality(A \cap B) = 0
  BY <1>5, FS_EmptySet
<1>9. Cardinality(Columns(f, s)) = f[x] + Cardinality(A)
  BY <1>5, <1>6, <1>7, <1>8
<1> QED
  BY <1>9 DEF A

\* The sum of a finite function is the number of boxes.
LEMMA SumIsSize ==
  ASSUME NEW S, IsFiniteSet(S), NEW f \in [S -> Nat]
  PROVE  SumFunction(f) = Cardinality(Columns(f, S))
<1> DEFINE size == [s \in SUBSET S |-> Cardinality(Columns(f, s))]
<1>1. Columns(f, {}) = {} /\ Cardinality(Columns(f, {})) = 0
  BY FS_EmptySet DEF Columns
<1>2. ASSUME NEW s \in SUBSET S, s # {}, NEW x \in s
      PROVE  size[s] = f[x] + size[s \ {x}]
  <2>1. IsFiniteSet(s)
    BY FS_Subset
  <2> QED
    BY <2>1, ColumnsAdd
<1> HIDE DEF size
<1>3. size = [s \in SUBSET S |-> IF s = {} THEN 0
                ELSE f[CHOOSE x \in s : TRUE] + size[s \ {CHOOSE x \in s : TRUE}]]
  <2>1. ASSUME NEW s \in SUBSET S
        PROVE  size[s] = IF s = {} THEN 0
                         ELSE f[CHOOSE x \in s : TRUE] + size[s \ {CHOOSE x \in s : TRUE}]
    <3>1. CASE s = {}
      BY <1>1, <3>1 DEF size
    <3>2. CASE s # {}
      <4>1. (CHOOSE x \in s : TRUE) \in s
        BY <3>2
      <4> QED
        BY <1>2, <3>2, <4>1
    <3> QED
      BY <3>1, <3>2
  <2>2. size = [s \in SUBSET S |-> size[s]]
    BY DEF size
  <2> QED
    BY <2>1, <2>2
<1>4. IsPartialSums(size, f)
  BY <1>3 DEF IsPartialSums
<1> DEFINE h == CHOOSE h : IsPartialSums(h, f)
<1>5. IsPartialSums(h, f)
  BY <1>4
<1> HIDE DEF h
<1>6. \A s \in SUBSET S : h[s] = size[s]
  <2> DEFINE bad == {s \in SUBSET S : h[s] # size[s]}
  <2>1. SUFFICES ASSUME bad # {} PROVE FALSE
    OBVIOUS
  <2>2. IsWellFoundedOn(StrictSubsetOrdering(S), SUBSET S)
    BY FS_StrictSubsetOrderingWellFounded, FS_FiniteSubsetsOfFinite
  <2>3. PICK s \in bad : \A t \in bad : <<t, s>> \notin StrictSubsetOrdering(S)
    <3>1. bad \subseteq SUBSET S
      OBVIOUS
    <3> HIDE DEF bad
    <3> QED
      BY <2>1, <2>2, <3>1, WFMin
  <2>4. h[s] = IF s = {} THEN 0 ELSE f[CHOOSE x \in s : TRUE] + h[s \ {CHOOSE x \in s : TRUE}]
    BY <1>5 DEF IsPartialSums
  <2>5. size[s] = IF s = {} THEN 0 ELSE f[CHOOSE x \in s : TRUE] + size[s \ {CHOOSE x \in s : TRUE}]
    BY <1>3
  <2>6. s # {}
    BY <2>4, <2>5
  <2> DEFINE x == CHOOSE x \in s : TRUE
             t == s \ {x}
  <2>7. x \in s
    BY <2>6
  <2>8. t \in SUBSET S /\ t \subseteq s /\ t # s
    BY <2>7
  <2>9. t \notin bad
    BY <2>3, <2>8 DEF StrictSubsetOrdering
  <2> QED
    BY <2>4, <2>5, <2>6, <2>8, <2>9
<1> QED
  BY <1>6, SumFunctionDef DEF h, size

\* The sum is a natural number, 0 if there is nothing to add, and follows a change of
\* one of the summands.
LEMMA SumProperties ==
  ASSUME NEW S, IsFiniteSet(S), NEW f \in [S -> Nat]
  PROVE  /\ SumFunction(f) \in Nat
         /\ S = {} => SumFunction(f) = 0
         /\ \A x \in S : S = {x} => SumFunction(f) = f[x]
         /\ \A x \in S, v \in Nat :
              SumFunction([f EXCEPT ![x] = v]) = SumFunction(f) - f[x] + v
<1>0. Cardinality(Columns(f, {})) = 0
  BY FS_EmptySet DEF Columns
<1>1. SumFunction(f) = Cardinality(Columns(f, S)) /\ Cardinality(Columns(f, S)) \in Nat
  BY SumIsSize, ColumnsFinite
<1>2. ASSUME NEW x \in S, S = {x} PROVE SumFunction(f) = f[x]
  BY <1>0, <1>1, <1>2, ColumnsAdd
<1>3. ASSUME NEW x \in S, NEW v \in Nat
      PROVE  SumFunction([f EXCEPT ![x] = v]) = SumFunction(f) - f[x] + v
  <2> DEFINE g == [f EXCEPT ![x] = v]
  <2>1. g \in [S -> Nat] /\ g[x] = v /\ \A y \in S \ {x} : g[y] = f[y]
    OBVIOUS
  <2> HIDE DEF g
  <2>2. Columns(g, S \ {x}) = Columns(f, S \ {x})
    BY <2>1 DEF Columns, Column
  <2>3. SumFunction(g) = Cardinality(Columns(g, S))
    BY <2>1, SumIsSize
  <2>4. Cardinality(Columns(g, S)) = v + Cardinality(Columns(f, S \ {x}))
    BY <2>1, <2>2, ColumnsAdd
  <2>5. Cardinality(Columns(f, S)) = f[x] + Cardinality(Columns(f, S \ {x}))
    BY ColumnsAdd
  <2>6. Cardinality(Columns(f, S \ {x})) \in Nat
    BY FS_RemoveElement, ColumnsFinite
  <2> QED
    BY <1>1, <2>3, <2>4, <2>5, <2>6 DEF g
<1> QED
  BY <1>0, <1>1, <1>2, <1>3
-----------------------------------------------------------------------------
(* No dropped event is reported twice.                                     *)

\* The counts are natural numbers, and so are their sums; an empty channel adds nothing
\* and a channel with one payload adds its count.
LEMMA DropSums ==
  ASSUME TypeOK
  PROVE  /\ droppedReported \in Nat /\ outbox.droppedEvents \in Nat
         /\ pending.stats.droppedEvents \in Nat
         /\ SumFunction(DropCounts(flushCh)) \in Nat
         /\ SumFunction(DropCounts(workerPayload)) \in Nat
         /\ DropCounts(workerPayload) \in [Workers -> Nat]
<1>1. /\ \A p \in Payload : p.stats.droppedEvents \in Nat
      /\ droppedReported \in Nat /\ outbox.droppedEvents \in Nat /\ pending \in Payload
      /\ flushCh \in Seq(Payload) /\ workerPayload \in [Workers -> Payload]
  BY DEF TypeOK, ProcessingTypeOK, Payload, Stats
<1>2. DropCounts(workerPayload) \in [Workers -> Nat] /\ IsFiniteSet(Workers)
  BY <1>1, DispatcherAssumption DEF DropCounts
<1>3. DropCounts(flushCh) \in [1 .. Len(flushCh) -> Nat] /\ IsFiniteSet(1 .. Len(flushCh))
  <2>1. Len(flushCh) \in Int /\ DOMAIN flushCh = 1 .. Len(flushCh)
    BY <1>1
  <2>2. IsFiniteSet(1 .. Len(flushCh))
    BY <2>1, FS_Interval
  <2> QED
    BY <1>1, <2>1, <2>2 DEF DropCounts
<1> QED
  BY <1>1, <1>2, <1>3, SumProperties

\* What waits in flushCh, which holds one payload at most.
LEMMA DropsInChannel ==
  ASSUME NEW s \in Seq(Payload)
  PROVE  /\ Len(s) = 0 => SumFunction(DropCounts(s)) = 0
         /\ Len(s) = 1 => SumFunction(DropCounts(s)) = s[1].stats.droppedEvents
<1> DEFINE f == DropCounts(s)
<1>1. \A p \in Payload : p.stats.droppedEvents \in Nat
  BY DEF Payload, Stats
<1>2. CASE Len(s) = 0
  <2>1. f \in [{} -> Nat]
    BY <1>2 DEF DropCounts
  <2> HIDE DEF f
  <2>2. SumFunction(f) = 0
    BY <2>1, FS_EmptySet, SumProperties
  <2> QED
    BY <1>2, <2>2 DEF f
<1>3. CASE Len(s) = 1
  <2>1. f \in [{1} -> Nat] /\ f[1] = s[1].stats.droppedEvents
    BY <1>1, <1>3 DEF DropCounts
  <2> HIDE DEF f
  <2>2. IsFiniteSet({1})
    BY FS_Singleton
  <2>3. SumFunction(f) = f[1]
    BY <2>1, <2>2, SumProperties
  <2> QED
    BY <1>3, <2>1, <2>3 DEF f
<1> QED
  BY <1>2, <1>3

\* A worker's payload is replaced.
LEMMA DropsAtWorkers ==
  ASSUME TypeOK, NEW w \in Workers, NEW p \in Payload,
         workerPayload' = [workerPayload EXCEPT ![w] = p]
  PROVE  SumFunction(DropCounts(workerPayload')) =
           SumFunction(DropCounts(workerPayload)) - workerPayload[w].stats.droppedEvents
             + p.stats.droppedEvents
<1>1. /\ p.stats.droppedEvents \in Nat /\ workerPayload \in [Workers -> Payload]
      /\ IsFiniteSet(Workers) /\ DropCounts(workerPayload) \in [Workers -> Nat]
  BY DropSums, DispatcherAssumption DEF TypeOK, Payload, Stats
<1>2. /\ DropCounts(workerPayload') =
           [DropCounts(workerPayload) EXCEPT ![w] = p.stats.droppedEvents]
      /\ DropCounts(workerPayload)[w] = workerPayload[w].stats.droppedEvents
  BY <1>1 DEF DropCounts
<1> DEFINE f == DropCounts(workerPayload)
           v == p.stats.droppedEvents
<1> HIDE DEF f, v
<1>3. SumFunction([f EXCEPT ![w] = v]) = SumFunction(f) - f[w] + v
  <2>1. f \in [Workers -> Nat] /\ v \in Nat /\ IsFiniteSet(Workers)
    BY <1>1 DEF f, v
  <2> QED
    BY <2>1, SumProperties
<1> QED
  BY <1>2, <1>3 DEF f, v

\* The counts of the next state, summand by summand.
LEMMA NoDropReportedTwiceNext ==
  ASSUME droppedReported' + outbox'.droppedEvents + pending'.stats.droppedEvents
           + SumFunction(DropCounts(flushCh')) + SumFunction(DropCounts(workerPayload'))
         <= Cardinality(dropped')
  PROVE  NoDropReportedTwice'
<1>1. /\ SumFunction(DropCounts(flushCh))' = SumFunction(DropCounts(flushCh'))
      /\ SumFunction(DropCounts(workerPayload))' = SumFunction(DropCounts(workerPayload'))
  BY DEF DropCounts
<1> QED
  BY <1>1 DEF NoDropReportedTwice

\* A step that leaves the channel and the workers alone, and counts nothing in the outbox
\* and the pending payload that has not been counted there.
LEMMA DropsStay ==
  ASSUME TypeOK, TypeOK', NoDropReportedTwice,
         UNCHANGED <<flushCh, workerPayload, droppedReported, dropped>>,
         outbox'.droppedEvents + pending'.stats.droppedEvents
           <= outbox.droppedEvents + pending.stats.droppedEvents,
         Cardinality(dropped) \in Nat
  PROVE  NoDropReportedTwice'
<1> DEFINE a == SumFunction(DropCounts(flushCh))
           b == SumFunction(DropCounts(workerPayload))
<1>1. /\ a \in Nat /\ b \in Nat /\ droppedReported \in Nat /\ outbox.droppedEvents \in Nat
      /\ pending.stats.droppedEvents \in Nat
      /\ SumFunction(DropCounts(flushCh')) = a /\ SumFunction(DropCounts(workerPayload')) = b
  BY DropSums
<1>2. outbox'.droppedEvents \in Nat /\ pending'.stats.droppedEvents \in Nat
  BY DEF TypeOK, ProcessingTypeOK, Payload, Stats
<1>3. droppedReported + outbox.droppedEvents + pending.stats.droppedEvents + a + b
        <= Cardinality(dropped)
  BY DEF NoDropReportedTwice
<1> HIDE DEF a, b
<1>4. droppedReported + outbox'.droppedEvents + pending'.stats.droppedEvents + a + b
        <= Cardinality(dropped)
  BY <1>1, <1>2, <1>3
<1> QED
  BY <1>1, <1>4, NoDropReportedTwiceNext

\* A worker takes the payload in flushCh, with its count.
LEMMA TakePayloadCounts ==
  ASSUME TypeOK, NoDropReportedTwice, IsFiniteSet(dropped), NEW w \in Workers, TakePayload(w)
  PROVE  NoDropReportedTwice'
<1> DEFINE p == flushCh[1]
<1>1. /\ flushCh \in Seq(Payload) /\ Len(flushCh) <= 1 /\ flushCh # << >>
      /\ workerPayload \in [Workers -> Payload]
  BY DEF TypeOK, TakePayload
<1>2. /\ Len(flushCh) = 1 /\ p \in Payload /\ flushCh' \in Seq(Payload) /\ Len(flushCh') = 0
      /\ workerPayload' = [workerPayload EXCEPT ![w] = p]
  <2>1. Len(flushCh) = 1
    <3>1. Len(flushCh) \in Nat /\ Len(flushCh) # 0
      BY <1>1, EmptySeq
    <3> DEFINE n == Len(flushCh)
    <3>2. n \in Nat /\ n # 0 /\ n <= 1
      BY <1>1, <3>1
    <3> HIDE DEF n
    <3>3. n = 1
      BY <3>2
    <3> QED
      BY <3>3 DEF n
  <2>2. Head(flushCh) = p
    BY <1>1
  <2>3. p \in Payload
    BY <1>1, <2>1
  <2>4. Tail(flushCh) \in Seq(Payload) /\ Len(Tail(flushCh)) = 0
    BY <1>1, <2>1
  <2>5. flushCh' = Tail(flushCh) /\ workerPayload' = [workerPayload EXCEPT ![w] = Head(flushCh)]
    BY DEF TakePayload
  <2> QED
    BY <2>1, <2>2, <2>3, <2>4, <2>5
<1>3. UNCHANGED <<outbox, dropped, pending, droppedReported>>
  BY DEF TakePayload, processingVars, dispatcherVars, senderVars
<1>4. /\ droppedReported \in Nat /\ outbox.droppedEvents \in Nat
      /\ pending.stats.droppedEvents \in Nat
      /\ p.stats.droppedEvents \in Nat /\ workerPayload[w].stats.droppedEvents \in Nat
      /\ SumFunction(DropCounts(workerPayload)) \in Nat /\ Cardinality(dropped) \in Nat
  BY <1>1, <1>2, DropSums, FS_CardinalityType DEF Payload, Stats
<1>5. /\ SumFunction(DropCounts(flushCh)) = p.stats.droppedEvents
      /\ SumFunction(DropCounts(flushCh')) = 0
      /\ SumFunction(DropCounts(workerPayload')) =
           SumFunction(DropCounts(workerPayload)) - workerPayload[w].stats.droppedEvents
             + p.stats.droppedEvents
  BY <1>1, <1>2, DropsInChannel, DropsAtWorkers
<1> HIDE DEF p
<1>6. droppedReported + outbox.droppedEvents + pending.stats.droppedEvents
        + SumFunction(DropCounts(flushCh)) + SumFunction(DropCounts(workerPayload))
        <= Cardinality(dropped)
  BY DEF NoDropReportedTwice
<1>7. droppedReported + outbox.droppedEvents + pending.stats.droppedEvents
        + SumFunction(DropCounts(flushCh')) + SumFunction(DropCounts(workerPayload'))
        <= Cardinality(dropped)
  BY <1>4, <1>5, <1>6
<1> QED
  BY <1>3, <1>7, NoDropReportedTwiceNext

\* A worker reports the count of its payload.
LEMMA SendReturnsCounts ==
  ASSUME TypeOK, NoDropReportedTwice, IsFiniteSet(dropped), NEW w \in Workers, SendReturns(w)
  PROVE  NoDropReportedTwice'
<1>1. /\ workerPayload \in [Workers -> Payload] /\ NoPayload \in Payload
      /\ NoPayload.stats.droppedEvents = 0
  BY PayloadTypes DEF TypeOK, NoPayload, NoStats
<1>2. /\ workerPayload' = [workerPayload EXCEPT ![w] = NoPayload]
      /\ droppedReported' = droppedReported + workerPayload[w].stats.droppedEvents
      /\ UNCHANGED <<outbox, dropped, pending, flushCh>>
  BY DEF SendReturns, processingVars, dispatcherVars, channelVars
<1>3. /\ droppedReported \in Nat /\ outbox.droppedEvents \in Nat
      /\ pending.stats.droppedEvents \in Nat /\ workerPayload[w].stats.droppedEvents \in Nat
      /\ SumFunction(DropCounts(flushCh)) \in Nat
      /\ SumFunction(DropCounts(workerPayload)) \in Nat /\ Cardinality(dropped) \in Nat
  BY <1>1, DropSums, FS_CardinalityType DEF Payload, Stats
<1>4. SumFunction(DropCounts(workerPayload')) =
        SumFunction(DropCounts(workerPayload)) - workerPayload[w].stats.droppedEvents + 0
  BY <1>1, <1>2, DropsAtWorkers
<1>5. droppedReported + outbox.droppedEvents + pending.stats.droppedEvents
        + SumFunction(DropCounts(flushCh)) + SumFunction(DropCounts(workerPayload))
        <= Cardinality(dropped)
  BY DEF NoDropReportedTwice
<1>6. droppedReported' + outbox.droppedEvents + pending.stats.droppedEvents
        + SumFunction(DropCounts(flushCh)) + SumFunction(DropCounts(workerPayload'))
        <= Cardinality(dropped)
  BY <1>2, <1>3, <1>4, <1>5
<1> QED
  BY <1>2, <1>6, NoDropReportedTwiceNext

\* The pending payload goes into flushCh, with its count.
LEMMA HandoffAcceptedCounts ==
  ASSUME TypeOK, NoDropReportedTwice, IsFiniteSet(dropped), HandoffAccepted
  PROVE  NoDropReportedTwice'
<1>1. /\ flushCh \in Seq(Payload) /\ pending \in Payload /\ Len(flushCh) < 1
      /\ outbox \in [events : Seq(Output), summary : SUBSET Events, droppedEvents : Nat]
  BY DEF TypeOK, ProcessingTypeOK, HandoffAccepted
<1>2. /\ flushCh' = Append(flushCh, pending) /\ pending' = NoPayload
      /\ outbox' = ClearedOutbox \/ outbox' = outbox
      /\ UNCHANGED <<dropped, droppedReported, workerPayload>>
  BY DEF HandoffAccepted, GoOn, workerVars, senderVars
<1>3. /\ Len(flushCh) = 0 /\ flushCh' \in Seq(Payload) /\ Len(flushCh') = 1
      /\ flushCh'[1] = pending
  BY <1>1, <1>2
<1>4. outbox'.droppedEvents = outbox.droppedEvents
  BY <1>2 DEF ClearedOutbox
<1>5. /\ droppedReported \in Nat /\ outbox.droppedEvents \in Nat
      /\ pending.stats.droppedEvents \in Nat /\ NoPayload.stats.droppedEvents = 0
      /\ SumFunction(DropCounts(workerPayload)) \in Nat /\ Cardinality(dropped) \in Nat
  BY <1>1, DropSums, FS_CardinalityType DEF NoPayload, NoStats
<1>6. /\ SumFunction(DropCounts(flushCh)) = 0
      /\ SumFunction(DropCounts(flushCh')) = pending.stats.droppedEvents
  BY <1>1, <1>3, DropsInChannel
<1>7. droppedReported + outbox.droppedEvents + pending.stats.droppedEvents
        + SumFunction(DropCounts(flushCh)) + SumFunction(DropCounts(workerPayload))
        <= Cardinality(dropped)
  BY DEF NoDropReportedTwice
<1>8. droppedReported + outbox.droppedEvents + 0
        + SumFunction(DropCounts(flushCh')) + SumFunction(DropCounts(workerPayload))
        <= Cardinality(dropped)
  BY <1>5, <1>6, <1>7
<1> QED
  BY <1>2, <1>4, <1>5, <1>8, NoDropReportedTwiceNext
\* What processEvent drops is counted, and has not been dropped before.
LEMMA DroppedByAdd ==
  ASSUME ProcessingTypeOK, IsFiniteSet(dropped), NEW e, NEW outs, OutputsOf(e, outs),
         \A o \in dropped : o.event # e, NEW counted, AddToOutbox(outs, counted)
  PROVE  /\ IsFiniteSet(dropped')
         /\ Cardinality(dropped') - Cardinality(dropped) =
              outbox'.droppedEvents - outbox.droppedEvents
         /\ \A o \in dropped' : o \in dropped \/ o.event = e
<1> DEFINE n == Fitting(outs)
           I == (n + 1) .. Len(outs)
           new == {outs[i] : i \in I}
<1>1. /\ outs \in Seq(Output) /\ IsInjective(outs) /\ \A o \in ToSet(outs) : o.event = e
      /\ Len(outs) \in Nat /\ outbox.droppedEvents \in Nat
  BY DEF OutputsOf, ProcessingTypeOK
<1>2. n \in 0 .. Len(outs)
  BY <1>1, FittingBound
<1>3. /\ dropped' = dropped \cup new
      /\ outbox'.droppedEvents = outbox.droppedEvents + (Len(outs) - n)
  BY DEF AddToOutbox
<1> HIDE DEF n
<1>4. I \subseteq DOMAIN outs
  BY <1>1, <1>2
<1>5. IsFiniteSet(I) /\ Cardinality(I) = Len(outs) - n
  <2>1. n + 1 \in Int /\ Len(outs) \in Int
    BY <1>1, <1>2
  <2>2. IsFiniteSet(I) /\ Cardinality(I) = IF n + 1 > Len(outs) THEN 0 ELSE Len(outs) - (n + 1) + 1
    BY <2>1, FS_Interval
  <2> QED
    BY <1>1, <1>2, <2>2
<1> HIDE DEF I
<1>6. IsFiniteSet(new) /\ Cardinality(new) = Len(outs) - n
  <2> DEFINE g == [i \in I |-> outs[i]]
  <2>1. \A i, j \in I : outs[i] = outs[j] => i = j
    BY <1>1, <1>4 DEF IsInjective
  <2>2. g \in Bijection(I, new)
    BY <2>1 DEF Bijection, Injection, Surjection, IsInjective
  <2>3. ExistsBijection(I, new)
    BY <2>2 DEF ExistsBijection
  <2> QED
    BY <1>5, <2>3, FS_Bijection
<1>7. \A o \in new : o.event = e
  BY <1>1, <1>4 DEF ToSet
<1>8. dropped \cap new = {}
  BY <1>7
<1> HIDE DEF new
<1>9. IsFiniteSet(dropped') /\ Cardinality(dropped') = Cardinality(dropped) + (Len(outs) - n)
  <2>1. /\ IsFiniteSet(dropped \cup new)
        /\ Cardinality(dropped \cup new) =
             Cardinality(dropped) + Cardinality(new) - Cardinality({})
    BY <1>6, <1>8, FS_Union
  <2>2. Cardinality({}) = 0 /\ Cardinality(dropped) \in Nat
    BY FS_EmptySet, FS_CardinalityType
  <2> QED
    BY <1>1, <1>2, <1>3, <1>6, <2>1, <2>2
<1>10. Cardinality(dropped) \in Nat
  BY FS_CardinalityType
<1>11. \A o \in dropped' : o \in dropped \/ o.event = e
  BY <1>3, <1>7
<1> QED
  BY <1>1, <1>2, <1>3, <1>9, <1>10, <1>11

\* Whatever a step finds in the inbox afterwards was there before, has just been
\* recorded, or is no event.
LEMMA InboxNext ==
  ASSUME TypeOK, [Next]_vars
  PROVE  /\ recorded \subseteq recorded'
         /\ \A i \in DOMAIN inbox' :
              \/ \E j \in DOMAIN inbox : inbox'[i] = inbox[j]
              \/ inbox'[i].event = NoEvent
              \/ inbox'[i].event \in recorded' \ recorded
<1>1. inbox \in Seq(Message)
  BY DEF TypeOK
<1>2. ASSUME NEW m, inbox' = Append(inbox, m), NEW i \in DOMAIN inbox'
      PROVE  inbox'[i] = m \/ \E j \in DOMAIN inbox : inbox'[i] = inbox[j]
  BY <1>1, <1>2
<1>3. ASSUME inbox # << >>, inbox' = Tail(inbox), NEW i \in DOMAIN inbox'
      PROVE  \E j \in DOMAIN inbox : inbox'[i] = inbox[j]
  <2>1. i + 1 \in DOMAIN inbox /\ inbox'[i] = inbox[i + 1]
    BY <1>1, <1>3
  <2> QED
    BY <2>1
<1>4. CASE \E e \in Events : RecordEvent(e)
  <2>1. PICK e \in Events : RecordEvent(e)
    BY <1>4
  <2> QED
    BY <1>2, <2>1 DEF RecordEvent, PostNonBlocking, EventMessage
<1>5. CASE Flush
  <2>1. /\ inbox' = Append(inbox, FlushMessage(NoCaller, FALSE)) \/ inbox' = inbox
        /\ UNCHANGED recorded /\ FlushMessage(NoCaller, FALSE).event = NoEvent
    BY <1>5, CallerMessages DEF Flush, PostNonBlocking, callerVars
  <2> QED
    BY <1>2, <2>1
<1>6. CASE \E c \in Callers : CallerStep(c)
  <2>1. PICK c \in Callers : CallerStep(c)
    BY <1>6
  <2>2. ASSUME NEW m, NEW state, SendToInbox(c, m, state), m.event = NoEvent
        PROVE  UNCHANGED recorded /\ \A i \in DOMAIN inbox' :
                 (\E j \in DOMAIN inbox : inbox'[i] = inbox[j]) \/ inbox'[i].event = NoEvent
    BY <1>2, <2>2 DEF SendToInbox
  <2>3. ASSUME NEW state, CallerGoesTo(c, state) PROVE UNCHANGED <<recorded, inbox>>
    BY <2>3 DEF CallerGoesTo, channelVars
  <2> QED
    BY <2>1, <2>2, <2>3, CallerMessages
       DEF CallerStep, FlushBlocking, FlushBlockingTimesOut, WaitUntilInactive, ReceiveReply,
           Close, CloseSendsFlush, CloseSendsShutdown, CloseAgain
<1>7. CASE UNCHANGED vars \/ DispatcherStep \/ (\E w \in Workers : WorkerStep(w)) \/ ServerClock
  <2>1. UNCHANGED recorded /\ (inbox' = inbox \/ (inbox # << >> /\ inbox' = Tail(inbox)))
    BY <1>7 DEF vars, DispatcherStep, WorkerStep, ServerClock, ReceiveMessage, ReceiveEvent,
       ReceiveFlush, ReceiveSyncOrShutdown, Receive, ReceiveResult, FlushTick, UsersResetTick,
       DiagnosticsTick, HandoffAccepted, HandoffRefused, ReplyToCaller, Shutdown, TakePayload,
       SendReturns, PostResult, FinishPayload, ExitWorker, channelVars, callerVars
  <2> QED
    BY <1>3, <2>1
<1> QED
  BY <1>4, <1>5, <1>6, <1>7 DEF Next
\* The events of dropped have left the inbox, after any step.
LEMMA DroppedOnceStays ==
  ASSUME TypeOK, DroppedOnce, [Next]_vars, UNCHANGED dropped
  PROVE  DroppedOnce'
<1>1. /\ IsFiniteSet(dropped) /\ NoEvent \notin Events /\ recorded \subseteq Events
      /\ \A o \in dropped :
           o.event \in recorded /\ \A i \in DOMAIN inbox : inbox[i].event # o.event
  BY DispatcherAssumption DEF DroppedOnce, TypeOK
<1>2. ASSUME NEW o \in dropped
      PROVE  o.event \in recorded' /\ \A i \in DOMAIN inbox' : inbox'[i].event # o.event
  BY <1>1, InboxNext
<1> QED
  BY <1>1, <1>2 DEF DroppedOnce

\* An event is processed: what it drops is added to dropped and to the outbox's count.
LEMMA ReceiveEventCounts ==
  ASSUME SafetyInvariant, TypeOK', DeliveryInvariant, DropsInvariant, ReceiveEvent
  PROVE  DropsInvariant'
<1> DEFINE e == Head(inbox).event
<1>1. /\ TypeOK /\ ProcessingTypeOK /\ NoDropReportedTwice /\ DroppedOnce /\ InboxIsFresh
      /\ inbox \in Seq(Message) /\ inbox # << >> /\ Head(inbox).type = "event"
      /\ IsFiniteSet(dropped)
  BY DEF SafetyInvariant, TypeOK, DeliveryInvariant, DropsInvariant, DroppedOnce, ReceiveEvent,
         Receive
<1>2. /\ inbox' = Tail(inbox) /\ ProcessEvent(e)
      /\ UNCHANGED <<flushCh, workerPayload, recorded, pending, droppedReported>>
  BY DEF ReceiveEvent, Receive, dispatcherVars, workerVars, callerVars, senderVars
<1>3. /\ Head(inbox) = inbox[1] /\ 1 \in DOMAIN inbox /\ Head(inbox) \in Message
      /\ \A i \in DOMAIN inbox' : /\ i + 1 \in DOMAIN inbox /\ inbox'[i] = inbox[i + 1]
                                  /\ i + 1 # 1
  BY <1>1, <1>2
<1>4. /\ e \in Events /\ e # NoEvent /\ e \in recorded
      /\ \A o \in dropped : o.event \in recorded /\ o.event # e
      /\ \A i \in DOMAIN inbox' : inbox'[i].event # e
  <2>1. e \in Events /\ e # NoEvent
    BY <1>1, <1>3, DispatcherAssumption DEF Message
  <2>2. e \in recorded
    BY <1>1, <1>3, <2>1 DEF InboxIsFresh
  <2>3. \A o \in dropped : o.event \in recorded /\ o.event # e
    BY <1>1, <1>3 DEF DroppedOnce
  <2>4. ASSUME NEW i \in DOMAIN inbox', inbox'[i].event = e PROVE FALSE
    <3>1. i + 1 \in DOMAIN inbox /\ inbox[i + 1].event = inbox[1].event /\ i + 1 # 1
      BY <1>3, <2>4
    <3> QED
      BY <1>1, <1>3, <2>1, <3>1 DEF InboxIsFresh
  <2> QED
    BY <2>1, <2>2, <2>3, <2>4
<1> HIDE DEF e
<1>5. /\ IsFiniteSet(dropped')
      /\ Cardinality(dropped') - Cardinality(dropped) = outbox'.droppedEvents - outbox.droppedEvents
      /\ \A o \in dropped' : o \in dropped \/ o.event = e
  <2>1. CASE disabled
    <3>1. UNCHANGED <<dropped, outbox>>
      BY <1>2, <2>1 DEF ProcessEvent, processingVars
    <3>2. Cardinality(dropped) \in Nat /\ outbox.droppedEvents \in Nat
      BY <1>1, FS_CardinalityType DEF ProcessingTypeOK
    <3> QED
      BY <1>1, <3>1, <3>2
  <2>2. CASE ~disabled
    <3>1. PICK outs : OutputsOf(e, outs) /\ AddToOutbox(outs, CountedInSummary(e))
      BY <1>2, <1>4, <2>2, ProcessEventAdds
    <3> QED
      BY <1>1, <1>4, <3>1, DroppedByAdd
  <2> QED
    BY <2>1, <2>2
<1>6. DroppedOnce'
  <2>1. ASSUME NEW o \in dropped'
        PROVE  o.event \in recorded' /\ \A i \in DOMAIN inbox' : inbox'[i].event # o.event
    <3>1. CASE o \in dropped
      BY <1>1, <1>2, <1>3, <3>1 DEF DroppedOnce
    <3>2. CASE o.event = e
      BY <1>2, <1>4, <3>2
    <3> QED
      BY <1>5, <3>1, <3>2
  <2> QED
    BY <1>5, <2>1 DEF DroppedOnce
<1>7. NoDropReportedTwice'
  <2> DEFINE a == SumFunction(DropCounts(flushCh))
             b == SumFunction(DropCounts(workerPayload))
  <2>1. /\ a \in Nat /\ b \in Nat /\ droppedReported \in Nat /\ outbox.droppedEvents \in Nat
        /\ pending.stats.droppedEvents \in Nat /\ outbox'.droppedEvents \in Nat
        /\ Cardinality(dropped) \in Nat /\ Cardinality(dropped') \in Nat
    BY <1>1, <1>5, DropSums, FS_CardinalityType DEF TypeOK, ProcessingTypeOK
  <2>2. droppedReported + outbox.droppedEvents + pending.stats.droppedEvents + a + b
          <= Cardinality(dropped)
    BY <1>1 DEF NoDropReportedTwice
  <2>3. a = SumFunction(DropCounts(flushCh')) /\ b = SumFunction(DropCounts(workerPayload'))
    BY <1>2
  <2> HIDE DEF a, b
  <2>4. droppedReported + outbox'.droppedEvents + pending.stats.droppedEvents + a + b
          <= Cardinality(dropped')
    BY <1>5, <2>1, <2>2
  <2> QED
    BY <1>2, <2>3, <2>4, NoDropReportedTwiceNext
<1> QED
  BY <1>6, <1>7 DEF DropsInvariant

\* The dispatcher's other steps: a diagnostic event takes the count from the outbox, and
\* what is offered to the workers for analytics, or no longer offered, counts nothing.
LEMMA DispatcherCounts ==
  ASSUME SafetyInvariant, TypeOK', DroppedOnce, NoDropReportedTwice,
         DispatcherStep, ~ReceiveEvent, ~HandoffAccepted
  PROVE  NoDropReportedTwice' /\ UNCHANGED dropped
<1>1. /\ TypeOK /\ pending \in Payload /\ Cardinality(dropped) \in Nat
      /\ outbox \in [events : Seq(Output), summary : SUBSET Events, droppedEvents : Nat]
      /\ outbox.droppedEvents \in Nat /\ pending.stats.droppedEvents \in Nat
      /\ AtSelect => pending = NoPayload
      /\ NoPayload.stats.droppedEvents = 0 /\ AnalyticsPayload.stats.droppedEvents = 0
  BY FS_CardinalityType
     DEF SafetyInvariant, TypeOK, ProcessingTypeOK, Payload, Stats, DroppedOnce, AtSelect,
         PendingOnlyInHandoff, NoPayload, AnalyticsPayload, NoStats
<1>2. UNCHANGED <<flushCh, workerPayload, droppedReported, dropped>>
  BY DEF DispatcherStep, ReceiveMessage, ReceiveFlush, ReceiveSyncOrShutdown, Receive,
     ReceiveResult, HandleResult, FlushTick, UsersResetTick, ResetUserKeys, DiagnosticsTick,
     HandoffRefused, ReplyToCaller, Shutdown, processingVars, channelVars, workerVars, senderVars
<1>3. outbox'.droppedEvents + pending'.stats.droppedEvents
        <= outbox.droppedEvents + pending.stats.droppedEvents
  <2>1. CASE DiagnosticsTick
    <3>1. /\ outbox' = [outbox EXCEPT !.droppedEvents = 0] /\ AtSelect
          /\ pending'.stats.droppedEvents = outbox.droppedEvents
      BY <2>1 DEF DiagnosticsTick, DropsReset, BeginHandoff, DiagnosticPayload
    <3>2. outbox'.droppedEvents = 0
      BY <1>1, <3>1
    <3> QED
      BY <1>1, <3>1, <3>2
  <2>2. CASE ~DiagnosticsTick
    <3>1. \/ pending' = pending
          \/ pending' = NoPayload
          \/ pending' = AnalyticsPayload
      BY <2>2 DEF DispatcherStep, ReceiveMessage, ReceiveFlush, ReceiveSyncOrShutdown, GoOn,
         ReceiveResult, FlushTick, TriggerFlush, BeginHandoff, UsersResetTick, HandoffRefused,
         ReplyToCaller, Shutdown, dispatcherVars
    <3>2. outbox' = outbox \/ outbox' = ClearedOutbox
      BY <2>2 DEF DispatcherStep, ReceiveMessage, ReceiveFlush, ReceiveSyncOrShutdown,
         ReceiveResult, HandleResult, FlushTick, UsersResetTick, ResetUserKeys, HandoffRefused,
         ReplyToCaller, Shutdown, processingVars
    <3>3. outbox'.droppedEvents = outbox.droppedEvents
      BY <3>2 DEF ClearedOutbox
    <3>4. \/ pending'.stats.droppedEvents = pending.stats.droppedEvents
          \/ pending'.stats.droppedEvents = 0
      BY <1>1, <3>1
    <3> QED
      BY <1>1, <3>3, <3>4
  <2> QED
    BY <2>1, <2>2
<1> QED
  BY <1>1, <1>2, <1>3, DropsStay

\* Every step keeps the counts.
LEMMA DropsNext ==
  SafetyInvariant /\ DeliveryInvariant /\ DropsInvariant /\ [Next]_vars => DropsInvariant'
<1> SUFFICES ASSUME SafetyInvariant, DeliveryInvariant, DropsInvariant, [Next]_vars
             PROVE  DropsInvariant'
  OBVIOUS
<1>1. /\ TypeOK /\ TypeOK' /\ NoDropReportedTwice /\ DroppedOnce
      /\ IsFiniteSet(dropped) /\ Cardinality(dropped) \in Nat
  BY NextPreserves, FS_CardinalityType DEF SafetyInvariant, DropsInvariant, DroppedOnce
<1>2. CASE ReceiveEvent
  BY <1>1, <1>2, ReceiveEventCounts
<1>3. CASE ~ReceiveEvent
  <2>1. CASE HandoffAccepted
    BY <1>1, <2>1, HandoffAcceptedCounts, DroppedOnceStays DEF HandoffAccepted, DropsInvariant
  <2>2. CASE DispatcherStep /\ ~HandoffAccepted
    BY <1>1, <1>3, <2>2, DispatcherCounts, DroppedOnceStays DEF DropsInvariant
  <2>3. ASSUME NEW w \in Workers, TakePayload(w) PROVE DropsInvariant'
    BY <1>1, <2>3, TakePayloadCounts, DroppedOnceStays
       DEF TakePayload, processingVars, DropsInvariant
  <2>4. ASSUME NEW w \in Workers, SendReturns(w) PROVE DropsInvariant'
    BY <1>1, <2>4, SendReturnsCounts, DroppedOnceStays
       DEF SendReturns, processingVars, DropsInvariant
  <2>5. CASE \/ UNCHANGED vars \/ ServerClock \/ Flush
             \/ \E e \in Events : RecordEvent(e)
             \/ \E c \in Callers : CallerStep(c)
             \/ \E w \in Workers : PostResult(w) \/ FinishPayload(w) \/ ExitWorker(w)
    <3>1. UNCHANGED <<outbox, pending, flushCh, workerPayload, droppedReported, dropped>>
      BY <2>5 DEF vars, ServerClock, Flush, RecordEvent, CallerStep, FlushBlocking,
         FlushBlockingTimesOut, WaitUntilInactive, ReceiveReply, Close, CloseSendsFlush,
         CloseSendsShutdown, CloseAgain, SendToInbox, CallerGoesTo, PostResult, FinishPayload,
         ExitWorker, processingVars, channelVars, dispatcherVars, workerVars, senderVars
    <3>2. outbox.droppedEvents + pending.stats.droppedEvents \in Nat
      BY <1>1, DropSums
    <3> QED
      BY <1>1, <3>1, <3>2, DropsStay, DroppedOnceStays DEF DropsInvariant
  <2> QED
    BY <1>3, <2>1, <2>2, <2>3, <2>4, <2>5 DEF Next, WorkerStep
<1> QED
  BY <1>2, <1>3

\* The counts of the diagnostic events never add up to more than has been dropped: the
\* dispatcher resets the count when it takes it, and each payload is sent once.
THEOREM NoDropIsReportedTwice == Spec => []NoDropReportedTwice
<1>1. ASSUME Init PROVE DropsInvariant
  <2>1. /\ TypeOK /\ dropped = {} /\ IsFiniteSet({}) /\ Cardinality({}) = 0
    BY <1>1, InitEstablishes, FS_EmptySet DEF Init, ProcessingInit, SafetyInvariant
  <2>2. /\ droppedReported = 0 /\ outbox.droppedEvents = 0 /\ pending.stats.droppedEvents = 0
        /\ \A i \in DOMAIN flushCh : DropCounts(flushCh)[i] = 0
        /\ \A w \in Workers : DropCounts(workerPayload)[w] = 0
    BY <1>1 DEF Init, ProcessingInit, NoPayload, DiagnosticPayload, NoStats, DropCounts
  <2>3. SumFunction(DropCounts(flushCh)) = 0
    <3>1. /\ flushCh \in Seq(Payload)
          /\ Len(flushCh) = 0 \/ Len(flushCh) = 1
          /\ Len(flushCh) = 1 => flushCh[1].stats.droppedEvents = 0
      BY <1>1, <2>1 DEF TypeOK, Init, DiagnosticPayload, NoStats
    <3> QED
      BY <3>1, DropsInChannel
  <2>4. SumFunction(DropCounts(workerPayload)) = 0
    <3> DEFINE f == DropCounts(workerPayload)
    <3>1. f \in [Workers -> Nat] /\ IsFiniteSet(Workers)
      BY <2>1, DropSums, DispatcherAssumption
    <3> HIDE DEF f
    <3>2. \A w \in Workers : f[w] = 0
      BY <2>2 DEF f
    <3>3. SumFunction(f) = Cardinality(Columns(f, Workers))
      BY <3>1, SumIsSize
    <3>4. Columns(f, Workers) = {}
      <4>1. 0 .. (0 - 1) = {}
        OBVIOUS
      <4>2. \A w \in Workers : Column(f, w) = {}
        BY <3>2, <4>1 DEF Column
      <4> QED
        BY <4>2 DEF Columns
    <3> QED
      BY <3>3, <3>4, FS_EmptySet DEF f
  <2>5. NoDropReportedTwice
    BY <2>1, <2>2, <2>3, <2>4 DEF NoDropReportedTwice
  <2> QED
    BY <2>1, <2>5 DEF DropsInvariant, DroppedOnce
<1>2. DropsInvariant => NoDropReportedTwice
  BY DEF DropsInvariant
<1> QED
  BY <1>1, <1>2, DropsNext, SafetyInvariantHolds, DeliveryInvariantHolds, PTL DEF Spec
-----------------------------------------------------------------------------
(* Every blocking call is answered once, by a dispatcher that does not      *)
(* wait for its reader.                                                    *)

\* A message joins the inbox: the call that it is of has one more request.
LEMMA RequestsGrow ==
  ASSUME TypeOK, NEW m \in Message, NEW c
  PROVE  /\ inbox' = inbox => Requests(c)' = Requests(c)
         /\ inbox' = Append(inbox, m) /\ ~(m.reply /\ m.from = c) => Requests(c)' = Requests(c)
         /\ inbox' = Append(inbox, m) /\ m.reply /\ m.from = c =>
              Requests(c)' = Requests(c) \cup {Len(inbox) + 1}
<1>1. inbox \in Seq(Message)
  BY DEF TypeOK
<1>2. inbox' = inbox => Requests(c)' = Requests(c)
  BY DEF Requests
<1>3. ASSUME inbox' = Append(inbox, m)
      PROVE  /\ DOMAIN inbox' = DOMAIN inbox \cup {Len(inbox) + 1}
             /\ \A i \in DOMAIN inbox : inbox'[i] = inbox[i]
             /\ inbox'[Len(inbox) + 1] = m /\ Len(inbox) + 1 \notin DOMAIN inbox
  BY <1>1, <1>3
<1> QED
  BY <1>2, <1>3 DEF Requests

\* The first message leaves the inbox: the others move up.
LEMMA RequestsShrink ==
  ASSUME TypeOK, inbox # << >>, inbox' = Tail(inbox), NEW c
  PROVE  /\ Head(inbox) = inbox[1] /\ 1 \in DOMAIN inbox
         /\ 1 \in Requests(c) <=> Head(inbox).reply /\ Head(inbox).from = c
         /\ \A i \in Requests(c)' : i \in Nat /\ i # 0 /\ i + 1 \in Requests(c)
         /\ \A i \in Requests(c) : i = 1 \/ i - 1 \in Requests(c)'
<1>1. inbox \in Seq(Message)
  BY DEF TypeOK
<1>2. /\ Head(inbox) = inbox[1] /\ 1 \in DOMAIN inbox
      /\ \A i \in DOMAIN inbox' : /\ i \in Nat /\ i # 0
                                  /\ i + 1 \in DOMAIN inbox /\ inbox'[i] = inbox[i + 1]
  BY <1>1
<1>3. \A i \in DOMAIN inbox : i = 1 \/ (i - 1 \in DOMAIN inbox' /\ inbox'[i - 1] = inbox[i])
  <2>1. /\ DOMAIN inbox = 1 .. Len(inbox) /\ DOMAIN inbox' = 1 .. (Len(inbox) - 1)
        /\ Len(inbox) \in Nat
    BY <1>1
  <2> SUFFICES ASSUME NEW i \in DOMAIN inbox, i # 1
               PROVE  i - 1 \in DOMAIN inbox' /\ inbox'[i - 1] = inbox[i]
    OBVIOUS
  <2>2. i - 1 \in DOMAIN inbox' /\ (i - 1) + 1 = i
    BY <2>1
  <2> QED
    BY <1>2, <2>2
<1> QED
  BY <1>2, <1>3 DEF Requests

\* What the invariant says of a call that has not asked, and of one that has.
LEMMA CallFacts ==
  ASSUME SafetyInvariant, AnsweringInvariant, NEW c \in Callers
  PROVE  /\ callerState[c] \in {"idle", "called", "flushing"} =>
              c \notin replies /\ Requests(c) = {} /\ ~BeingHandled(c)
         /\ c \in replies => Requests(c) = {} /\ ~BeingHandled(c)
         /\ c \in Closers => callerState[c] # "timedOut" \/ c \notin replies
         /\ c \in Closers => Awaiting(c) = {"waiting"}
<1>1. c \notin TimedFlushers \/ c \notin Closers
  BY DispatcherAssumption
<1> QED
  BY <1>1 DEF AnsweringInvariant, OneRequest, Awaiting

\* A step in which no message with a replyCh moves: callers go on, or a message that
\* wants no reply joins the inbox.
LEMMA OthersAnswer ==
  ASSUME SafetyInvariant, AnsweringInvariant, UNCHANGED <<dispatcher, current, replies>>,
         NEW m \in Message, inbox' = Append(inbox, m) \/ inbox' = inbox,
         ~m.reply, m.type # "shutdown",
         \A c \in Callers :
           \/ callerState'[c] = callerState[c]
           \/ /\ callerState'[c] # "waiting"
              /\ \/ callerState'[c] \in Awaiting(c)
                 \/ Requests(c) = {} /\ ~BeingHandled(c) /\ c \notin replies
                 \/ callerState'[c] = "returned" /\ c \in replies,
         \A c, d \in Closers : /\ callerState'[c] \in {"flushing", "waiting"}
                               /\ callerState'[d] \in {"flushing", "waiting", "returned"}
                               => c = d
  PROVE  AnsweringInvariant'
<1>1. TypeOK /\ NoCallForgotten /\ OneRequest /\ OneShutdown
  BY DEF SafetyInvariant, AnsweringInvariant
<1>2. \A c : Requests(c)' = Requests(c) /\ (BeingHandled(c)' <=> BeingHandled(c))
  BY <1>1, RequestsGrow DEF BeingHandled
<1>3. NoCallForgotten'
  BY <1>1, <1>2 DEF NoCallForgotten
<1>4. OneRequest'
  <2> SUFFICES ASSUME NEW c \in Callers
               PROVE  /\ \A i, j \in Requests(c)' : i = j
                      /\ BeingHandled(c)' => Requests(c)' = {}
                      /\ BeingHandled(c)' \/ Requests(c)' # {} =>
                           c \notin replies' /\ callerState'[c] \in Awaiting(c)
                      /\ c \in replies' => callerState'[c] \in Awaiting(c) \cup {"returned"}
    BY <1>1 DEF OneRequest, Awaiting
  <2>1. /\ \A i, j \in Requests(c) : i = j
        /\ BeingHandled(c) => Requests(c) = {}
        /\ BeingHandled(c) \/ Requests(c) # {} =>
             c \notin replies /\ callerState[c] \in Awaiting(c)
        /\ c \in replies => callerState[c] \in Awaiting(c) \cup {"returned"}
    BY <1>1 DEF OneRequest
  <2> QED
    BY <1>2, <2>1
<1>5. OneShutdown'
  <2>1. \A i \in DOMAIN inbox' :
          inbox'[i].type = "shutdown" => inbox'[i].reply /\ inbox'[i].from \in Closers
    <3>1. CASE inbox' = inbox
      BY <1>1, <3>1 DEF OneShutdown
    <3>2. CASE inbox' = Append(inbox, m)
      <4>1. inbox \in Seq(Message)
        BY <1>1 DEF TypeOK
      <4>2. \A i \in DOMAIN inbox' : inbox'[i] = m \/ (i \in DOMAIN inbox /\ inbox'[i] = inbox[i])
        BY <3>2, <4>1
      <4> QED
        BY <1>1, <4>2 DEF OneShutdown
    <3> QED
      BY <3>1, <3>2
  <2> QED
    BY <1>1, <2>1 DEF OneShutdown
<1> QED
  BY <1>3, <1>4, <1>5 DEF AnsweringInvariant

\* A blocking call posts its message: FlushBlocking and waitUntilInactive at once,
\* Close after its flush, which only one call of it does.
LEMMA RequestAnswers ==
  ASSUME SafetyInvariant, AnsweringInvariant, UNCHANGED <<dispatcher, current, replies>>,
         NEW c \in Callers, NEW m \in Message, inbox' = Append(inbox, m), m.reply, m.from = c,
         callerState' = [callerState EXCEPT ![c] = "waiting"],
         \/ callerState[c] = "idle" /\ c \notin Closers /\ m.type # "shutdown"
         \/ callerState[c] = "flushing" /\ c \in Closers /\ m.type = "shutdown"
  PROVE  AnsweringInvariant'
<1>1. /\ TypeOK /\ NoCallForgotten /\ OneRequest /\ OneShutdown
      /\ callerState \in [Callers -> CallerStates] /\ inbox \in Seq(Message)
  BY DEF SafetyInvariant, AnsweringInvariant, TypeOK
<1>2. c \notin replies /\ Requests(c) = {} /\ ~BeingHandled(c)
  BY CallFacts
<1>3. /\ Requests(c)' = {Len(inbox) + 1}
      /\ \A d \in Callers \ {c} : Requests(d)' = Requests(d)
      /\ \A d : BeingHandled(d)' <=> BeingHandled(d)
  BY <1>1, <1>2, RequestsGrow DEF BeingHandled
<1>4. callerState'[c] = "waiting" /\ \A d \in Callers \ {c} : callerState'[d] = callerState[d]
  BY <1>1
<1>5. c \in Closers => dispatcher # "stopped"
  <2> SUFFICES ASSUME c \in Closers, dispatcher = "stopped" PROVE FALSE
    OBVIOUS
  <2>1. PICK d \in Closers : d \in replies
    BY <1>1 DEF OneShutdown
  <2>2. d \in Callers /\ callerState[d] \in {"waiting", "returned"}
    BY <1>1, <2>1, CallFacts DEF OneRequest, Callers
  <2> QED
    BY <1>1, <1>2, <2>1, <2>2 DEF OneShutdown
<1>6. NoCallForgotten'
  BY <1>1, <1>3, <1>4, <1>5 DEF NoCallForgotten
<1>7. OneRequest'
  BY <1>1, <1>2, <1>3, <1>4 DEF OneRequest, Awaiting
<1>8. OneShutdown'
  <2>1. \A i \in DOMAIN inbox' : inbox'[i] = m \/ (i \in DOMAIN inbox /\ inbox'[i] = inbox[i])
    BY <1>1
  <2>2. \A i \in DOMAIN inbox' :
          inbox'[i].type = "shutdown" => inbox'[i].reply /\ inbox'[i].from \in Closers
    BY <1>1, <2>1 DEF OneShutdown
  <2>3. \A d, e \in Closers : /\ callerState'[d] \in {"flushing", "waiting"}
                              /\ callerState'[e] \in {"flushing", "waiting", "returned"}
                              => d = e
    BY <1>1, <1>4 DEF OneShutdown, Callers
  <2> QED
    BY <1>1, <2>2, <2>3 DEF OneShutdown
<1> QED
  BY <1>6, <1>7, <1>8 DEF AnsweringInvariant

\* The calls of Close: after a step of one call, no two of them run the shutdown.
LEMMA CloserSteps ==
  ASSUME SafetyInvariant, AnsweringInvariant, NEW c \in Callers, NEW state \in CallerStates,
         callerState' = [callerState EXCEPT ![c] = state],
         c \in Closers =>
           \/ state = "called"
           \/ state = "flushing" /\ ~CloseOnceTaken
           \/ state = "returned" /\ (CloseOnceDone \/ callerState[c] = "waiting")
  PROVE  \A d, e \in Closers : /\ callerState'[d] \in {"flushing", "waiting"}
                               /\ callerState'[e] \in {"flushing", "waiting", "returned"}
                               => d = e
<1>1. /\ callerState \in [Callers -> CallerStates] /\ Closers \subseteq Callers
      /\ \A d, e \in Closers : /\ callerState[d] \in {"flushing", "waiting"}
                               /\ callerState[e] \in {"flushing", "waiting", "returned"}
                               => d = e
  BY DEF SafetyInvariant, TypeOK, AnsweringInvariant, OneShutdown, Callers
<1>2. callerState'[c] = state /\ \A d \in Callers \ {c} : callerState'[d] = callerState[d]
  BY <1>1
<1>3. CASE c \notin Closers
  BY <1>1, <1>2, <1>3
<1>4. CASE c \in Closers /\ state = "called"
  BY <1>1, <1>2, <1>4
<1>5. CASE c \in Closers /\ state = "flushing" /\ ~CloseOnceTaken
  BY <1>1, <1>2, <1>5 DEF CloseOnceTaken
<1>6. CASE c \in Closers /\ state = "returned" /\ (CloseOnceDone \/ callerState[c] = "waiting")
  <2>1. \A d \in Closers : d # c => callerState[d] \notin {"flushing", "waiting"}
    BY <1>1, <1>6 DEF CloseOnceDone
  <2> QED
    BY <1>1, <1>2, <1>6, <2>1
<1> QED
  BY <1>3, <1>4, <1>5, <1>6

\* Every step of the application keeps the calls answered.
LEMMA ApplicationAnswers ==
  ASSUME SafetyInvariant, AnsweringInvariant,
         \/ \E e \in Events : RecordEvent(e)
         \/ Flush
         \/ \E c \in Callers : CallerStep(c)
  PROVE  AnsweringInvariant'
<1>1. /\ callerState \in [Callers -> CallerStates] /\ Closers \subseteq Callers
      /\ TimedFlushers \cap Closers = {} /\ Flushers \cap Closers = {} /\ Syncers \cap Closers = {}
      /\ \A d, e \in Closers : /\ callerState[d] \in {"flushing", "waiting"}
                               /\ callerState[e] \in {"flushing", "waiting", "returned"}
                               => d = e
  BY DispatcherAssumption DEF SafetyInvariant, TypeOK, AnsweringInvariant, OneShutdown, Callers
<1>2. CASE \E e \in Events : RecordEvent(e)
  <2>1. PICK e \in Events : RecordEvent(e)
    BY <1>2
  <2>2. /\ EventMessage(e) \in Message /\ ~EventMessage(e).reply
        /\ EventMessage(e).type # "shutdown"
    BY MessageTypes DEF EventMessage
  <2>3. /\ inbox' = Append(inbox, EventMessage(e)) \/ inbox' = inbox
        /\ UNCHANGED <<dispatcher, current, replies, callerState>>
    BY <2>1 DEF RecordEvent, PostNonBlocking, dispatcherVars
  <2> QED
    BY <1>1, <2>2, <2>3, OthersAnswer
<1>3. CASE Flush
  <2> DEFINE m == FlushMessage(NoCaller, FALSE)
  <2>1. m \in Message /\ ~m.reply /\ m.type # "shutdown"
    BY MessageTypes DEF FlushMessage
  <2>2. /\ inbox' = Append(inbox, m) \/ inbox' = inbox
        /\ UNCHANGED <<dispatcher, current, replies, callerState>>
    BY <1>3 DEF Flush, PostNonBlocking, dispatcherVars, callerVars
  <2> QED
    BY <1>1, <2>1, <2>2, OthersAnswer
<1>4. CASE \E c \in Callers : CallerStep(c)
  <2>1. PICK c \in Callers : CallerStep(c)
    BY <1>4
  <2>2. ASSUME NEW m \in Message, m.reply, m.from = c, SendToInbox(c, m, "waiting"),
               \/ callerState[c] = "idle" /\ c \notin Closers /\ m.type # "shutdown"
               \/ callerState[c] = "flushing" /\ c \in Closers /\ m.type = "shutdown"
        PROVE  AnsweringInvariant'
    BY <2>2, RequestAnswers DEF SendToInbox, dispatcherVars
  <2>3. ASSUME NEW m \in Message, ~m.reply, m.type # "shutdown",
               inbox' = Append(inbox, m) \/ inbox' = inbox,
               UNCHANGED <<dispatcher, current, replies>>,
               NEW state \in CallerStates \ {"waiting"},
               callerState' = [callerState EXCEPT ![c] = state],
               \/ state \in Awaiting(c)
               \/ callerState[c] \in {"idle", "called", "flushing"}
               \/ state = "returned" /\ c \in replies,
               c \in Closers =>
                 \/ state = "called"
                 \/ state = "flushing" /\ ~CloseOnceTaken
                 \/ state = "returned" /\ (CloseOnceDone \/ callerState[c] = "waiting")
        PROVE  AnsweringInvariant'
    <3>1. \A d, e \in Closers : /\ callerState'[d] \in {"flushing", "waiting"}
                                /\ callerState'[e] \in {"flushing", "waiting", "returned"}
                                => d = e
      BY <2>3, CloserSteps
    <3>2. \A d \in Callers :
            \/ callerState'[d] = callerState[d]
            \/ /\ callerState'[d] # "waiting"
               /\ \/ callerState'[d] \in Awaiting(d)
                  \/ Requests(d) = {} /\ ~BeingHandled(d) /\ d \notin replies
                  \/ callerState'[d] = "returned" /\ d \in replies
      BY <1>1, <2>3, CallFacts
    <3> QED
      BY <2>3, <3>1, <3>2, OthersAnswer
  <2>4. ASSUME NEW state \in CallerStates \ {"waiting"}, CallerGoesTo(c, state),
               \/ state \in Awaiting(c)
               \/ callerState[c] \in {"idle", "called", "flushing"}
               \/ state = "returned" /\ c \in replies,
               c \in Closers =>
                 \/ state = "called"
                 \/ state = "flushing" /\ ~CloseOnceTaken
                 \/ state = "returned" /\ (CloseOnceDone \/ callerState[c] = "waiting")
        PROVE  AnsweringInvariant'
    <3>1. NoMessage \in Message /\ ~NoMessage.reply /\ NoMessage.type # "shutdown"
      BY MessageTypes DEF NoMessage
    <3>2. /\ UNCHANGED <<inbox, dispatcher, current, replies>>
          /\ callerState' = [callerState EXCEPT ![c] = state]
      BY <2>4 DEF CallerGoesTo, channelVars, dispatcherVars
    <3> QED
      BY <2>3, <2>4, <3>1, <3>2
  <2>5. \A state \in {"called", "flushing", "returned", "timedOut"} :
          state \in CallerStates \ {"waiting"}
    BY DEF CallerStates
  <2>6. CASE FlushBlocking(c)
    <3>1. /\ FlushMessage(c, TRUE) \in Message /\ FlushMessage(c, TRUE).from = c
          /\ FlushMessage(c, TRUE).reply /\ FlushMessage(c, TRUE).type # "shutdown"
      BY MessageTypes DEF FlushMessage
    <3> QED
      BY <1>1, <2>2, <2>6, <3>1 DEF FlushBlocking
  <2>7. CASE WaitUntilInactive(c)
    <3>1. /\ SyncMessage(c) \in Message /\ SyncMessage(c).from = c
          /\ SyncMessage(c).reply /\ SyncMessage(c).type # "shutdown"
      BY MessageTypes DEF SyncMessage
    <3> QED
      BY <1>1, <2>2, <2>7, <3>1 DEF WaitUntilInactive
  <2>8. CASE CloseSendsShutdown(c)
    <3>1. /\ ShutdownMessage(c) \in Message /\ ShutdownMessage(c).from = c
          /\ ShutdownMessage(c).reply /\ ShutdownMessage(c).type = "shutdown"
      BY MessageTypes DEF ShutdownMessage
    <3> QED
      BY <2>2, <2>8, <3>1 DEF CloseSendsShutdown
  <2>9. CASE CloseSendsFlush(c)
    <3>1. /\ FlushMessage(c, FALSE) \in Message /\ ~FlushMessage(c, FALSE).reply
          /\ FlushMessage(c, FALSE).type # "shutdown"
      BY MessageTypes DEF FlushMessage
    <3>2. /\ inbox' = Append(inbox, FlushMessage(c, FALSE))
          /\ UNCHANGED <<dispatcher, current, replies>>
          /\ callerState' = [callerState EXCEPT ![c] = "flushing"]
          /\ callerState[c] = "called" /\ ~CloseOnceTaken
      BY <2>9 DEF CloseSendsFlush, SendToInbox, dispatcherVars
    <3> QED
      BY <2>3, <2>5, <3>1, <3>2
  <2>10. CASE FlushBlockingTimesOut(c)
    BY <1>1, <2>4, <2>5, <2>10 DEF FlushBlockingTimesOut, Awaiting
  <2>11. CASE ReceiveReply(c)
    BY <2>4, <2>5, <2>11 DEF ReceiveReply
  <2>12. CASE Close(c)
    BY <2>4, <2>5, <2>12 DEF Close
  <2>13. CASE CloseAgain(c)
    BY <2>4, <2>5, <2>13 DEF CloseAgain
  <2> QED
    BY <2>1, <2>6, <2>7, <2>8, <2>9, <2>10, <2>11, <2>12, <2>13 DEF CallerStep
<1> QED
  BY <1>2, <1>3, <1>4

\* Steps of the dispatcher and the workers that receive no message and answer none.
LEMMA QuietAnswers ==
  ASSUME AnsweringInvariant, UNCHANGED <<inbox, callerState, replies>>,
         dispatcher' = "stopped" <=> dispatcher = "stopped",
         current' = current \/ (~current.reply /\ ~current'.reply /\ current'.type # "shutdown"),
         current'.reply => dispatcher' \in {"handoff", "awaitWorkers"}
  PROVE  AnsweringInvariant'
<1>1. NoCallForgotten /\ OneRequest /\ OneShutdown
  BY DEF AnsweringInvariant
<1>2. \A c : Requests(c)' = Requests(c) /\ (BeingHandled(c)' <=> BeingHandled(c))
  BY DEF Requests, BeingHandled
<1>3. NoCallForgotten'
  BY <1>1, <1>2 DEF NoCallForgotten
<1>4. OneRequest'
  BY <1>1, <1>2 DEF OneRequest, Awaiting
<1>5. OneShutdown'
  BY <1>1 DEF OneShutdown
<1> QED
  BY <1>3, <1>4, <1>5 DEF AnsweringInvariant

\* The dispatcher receives a message: one with a replyCh is the one it handles then.
LEMMA ReceiveAnswers ==
  ASSUME SafetyInvariant, AnsweringInvariant, inbox # << >>, inbox' = Tail(inbox),
         UNCHANGED <<callerState, replies>>, dispatcher = "loop", dispatcher' # "stopped",
         Head(inbox).reply => /\ current' = Head(inbox)
                              /\ dispatcher' \in {"handoff", "awaitWorkers"},
         ~Head(inbox).reply => ~current'.reply /\ current'.type # "shutdown"
  PROVE  AnsweringInvariant'
<1>1. /\ TypeOK /\ NoCallForgotten /\ OneRequest /\ OneShutdown /\ ~current.reply
      /\ inbox \in Seq(Message)
  BY DEF SafetyInvariant, AnsweringInvariant, OneRequest, TypeOK
<1>2. ASSUME NEW c
      PROVE  /\ 1 \in Requests(c) <=> BeingHandled(c)'
             /\ \A i \in Requests(c)' : i \in Nat /\ i # 0 /\ i + 1 \in Requests(c)
             /\ \A i \in Requests(c) : i = 1 \/ i - 1 \in Requests(c)'
             /\ ~BeingHandled(c)
  BY <1>1, RequestsShrink DEF BeingHandled
<1>3. ASSUME NEW c \in Callers
      PROVE  /\ \A i, j \in Requests(c)' : i = j
             /\ BeingHandled(c)' => Requests(c)' = {}
             /\ (BeingHandled(c)' \/ Requests(c)' # {}) <=> Requests(c) # {}
  <2>1. \A i, j \in Requests(c) : i = j
    BY <1>1 DEF OneRequest
  <2>2. ASSUME NEW i \in Requests(c)', NEW j \in Requests(c)' PROVE i = j
    <3>1. i \in Nat /\ j \in Nat /\ i + 1 = j + 1
      BY <1>2, <2>1
    <3> QED
      BY <3>1
  <2>3. BeingHandled(c)' => Requests(c)' = {}
    <3> SUFFICES ASSUME BeingHandled(c)', NEW i \in Requests(c)' PROVE FALSE
      OBVIOUS
    <3>1. i \in Nat /\ i # 0 /\ i + 1 = 1
      BY <1>2, <2>1
    <3> QED
      BY <3>1
  <2> QED
    BY <1>2, <2>2, <2>3
<1>4. NoCallForgotten'
  BY <1>1, <1>2, <1>3 DEF NoCallForgotten
<1>5. OneRequest'
  <2>1. current'.reply => dispatcher' \in {"handoff", "awaitWorkers"}
    OBVIOUS
  <2> QED
    BY <1>1, <1>3, <2>1 DEF OneRequest, Awaiting
<1>6. OneShutdown'
  <2>1. \A i \in DOMAIN inbox' : \E j \in DOMAIN inbox : inbox'[i] = inbox[j]
    <3>1. \A i \in DOMAIN inbox' : i + 1 \in DOMAIN inbox /\ inbox'[i] = inbox[i + 1]
      BY <1>1
    <3> QED
      BY <3>1
  <2>2. Head(inbox) = inbox[1] /\ 1 \in DOMAIN inbox
    BY <1>1
  <2>3. current'.type = "shutdown" => current'.reply /\ current'.from \in Closers
    BY <1>1, <2>2 DEF OneShutdown
  <2> QED
    BY <1>1, <2>1, <2>3 DEF OneShutdown
<1> QED
  BY <1>4, <1>5, <1>6 DEF AnsweringInvariant

\* The dispatcher answers the call whose message it is handling.
LEMMA ReplyAnswers ==
  ASSUME SafetyInvariant, AnsweringInvariant, UNCHANGED <<inbox, callerState>>,
         dispatcher = "awaitWorkers", replies' = replies \cup {current.from},
         ~current'.reply, current'.type # "shutdown",
         dispatcher' = IF current.type = "shutdown" THEN "stopped" ELSE "loop"
  PROVE  AnsweringInvariant'
<1> DEFINE c == current.from
<1>1. /\ NoCallForgotten /\ OneRequest /\ OneShutdown /\ current.reply /\ c \in Callers
      /\ Closers \subseteq Callers
  BY DEF SafetyInvariant, AnsweringInvariant, RepliesHaveCallers, Callers
<1>2. /\ \A d : Requests(d)' = Requests(d) /\ ~BeingHandled(d)'
      /\ \A d : BeingHandled(d) <=> d = c
  BY <1>1 DEF Requests, BeingHandled
<1>3. Requests(c) = {} /\ c \notin replies /\ callerState[c] \in Awaiting(c)
  BY <1>1, <1>2 DEF OneRequest
<1>4. NoCallForgotten'
  <2> SUFFICES ASSUME NEW d \in Callers, callerState[d] = "waiting", d \notin replies, d # c
               PROVE  IF current.type = "shutdown" THEN d \notin Closers ELSE Requests(d) # {}
    BY <1>2 DEF NoCallForgotten
  <2>1. Requests(d) # {}
    BY <1>1, <1>2 DEF NoCallForgotten
  <2>2. current.type = "shutdown" /\ d \in Closers => d = c
    <3>1. current.type = "shutdown" => c \in Closers /\ callerState[c] = "waiting"
      BY <1>1, <1>3, CallFacts DEF OneShutdown
    <3> QED
      BY <1>1, <3>1 DEF OneShutdown
  <2> QED
    BY <2>1, <2>2
<1>5. OneRequest'
  BY <1>1, <1>2, <1>3 DEF OneRequest, Awaiting
<1>6. OneShutdown'
  BY <1>1 DEF OneShutdown
<1> QED
  BY <1>4, <1>5, <1>6 DEF AnsweringInvariant

\* Every step of the dispatcher keeps the calls answered.
LEMMA DispatcherAnswers ==
  ASSUME SafetyInvariant, AnsweringInvariant, DispatcherStep PROVE AnsweringInvariant'
<1>1. /\ NoMessage.reply = FALSE /\ NoMessage.type = "none"
      /\ OneRequest /\ OneShutdown /\ TypeOK /\ RepliesHaveCallers
      /\ dispatcher = "loop" => ~current.reply /\ current.type # "shutdown"
  BY DEF NoMessage, SafetyInvariant, AnsweringInvariant, OneRequest, OneShutdown
<1>2. UNCHANGED callerState
  BY DEF DispatcherStep, ReceiveMessage, ReceiveEvent, ReceiveFlush, ReceiveSyncOrShutdown,
     Receive, ReceiveResult, FlushTick, UsersResetTick, DiagnosticsTick, HandoffAccepted,
     HandoffRefused, ReplyToCaller, Shutdown, callerVars
<1>3. ASSUME NEW m, m.type = "shutdown" => m.reply, GoOn(m) \/ TriggerFlush(m)
      PROVE  /\ dispatcher' # "stopped"
             /\ m.reply => current' = m /\ dispatcher' \in {"handoff", "awaitWorkers"}
             /\ ~m.reply => ~current'.reply /\ current'.type # "shutdown"
  <2>1. CASE m.reply
    BY <1>3, <2>1 DEF GoOn, TriggerFlush, BeginHandoff
  <2>2. CASE ~m.reply
    BY <1>1, <1>3, <2>2 DEF GoOn, TriggerFlush, BeginHandoff
  <2> QED
    BY <2>1, <2>2
<1>4. CASE ReceiveMessage
  <2>1. /\ inbox # << >> /\ inbox' = Tail(inbox) /\ dispatcher = "loop" /\ UNCHANGED replies
        /\ \/ Head(inbox).type = "event" /\ UNCHANGED dispatcherVars
           \/ GoOn(Head(inbox)) \/ TriggerFlush(Head(inbox))
    BY <1>4 DEF ReceiveMessage, ReceiveEvent, ReceiveFlush, ReceiveSyncOrShutdown, Receive,
       AtSelect, callerVars
  <2>2. /\ Head(inbox) \in Message /\ Head(inbox) = inbox[1] /\ 1 \in DOMAIN inbox
    BY <1>1, <2>1 DEF TypeOK
  <2>3. /\ Head(inbox).type = "shutdown" => Head(inbox).reply
        /\ Head(inbox).type = "event" => ~Head(inbox).reply
    BY <1>1, <2>2 DEF OneShutdown, Message
  <2>4. /\ dispatcher' # "stopped"
        /\ Head(inbox).reply => /\ current' = Head(inbox)
                                /\ dispatcher' \in {"handoff", "awaitWorkers"}
        /\ ~Head(inbox).reply => ~current'.reply /\ current'.type # "shutdown"
    <3>1. CASE Head(inbox).type = "event" /\ UNCHANGED dispatcherVars
      BY <1>1, <2>1, <2>3, <3>1 DEF dispatcherVars
    <3>2. CASE GoOn(Head(inbox)) \/ TriggerFlush(Head(inbox))
      BY <1>3, <2>3, <3>2
    <3> QED
      BY <2>1, <3>1, <3>2
  <2> QED
    BY <1>2, <2>1, <2>4, ReceiveAnswers
<1>5. CASE ReplyToCaller \/ Shutdown
  <2>1. /\ UNCHANGED inbox /\ dispatcher = "awaitWorkers" /\ current' = NoMessage
        /\ replies' = replies \cup {current.from}
        /\ dispatcher' = IF current.type = "shutdown" THEN "stopped" ELSE "loop"
    BY <1>5 DEF ReplyToCaller, Shutdown, channelVars
  <2> QED
    BY <1>1, <1>2, <2>1, ReplyAnswers
<1>6. CASE ReceiveResult \/ UsersResetTick
  <2>1. UNCHANGED <<inbox, replies, dispatcher, current>>
    BY <1>6 DEF ReceiveResult, UsersResetTick, dispatcherVars, channelVars, callerVars
  <2> QED
    BY <1>1, <1>2, <2>1, QuietAnswers DEF OneRequest
<1>7. CASE FlushTick \/ DiagnosticsTick
  <2>1. /\ UNCHANGED <<inbox, replies>> /\ dispatcher = "loop"
        /\ TriggerFlush(NoMessage) \/ (current' = NoMessage /\ dispatcher' = "handoff")
    BY <1>7 DEF FlushTick, DiagnosticsTick, AtSelect, BeginHandoff, callerVars
  <2>2. dispatcher' # "stopped" /\ ~current'.reply /\ current'.type # "shutdown"
    BY <1>1, <1>3, <2>1
  <2> QED
    BY <1>1, <1>2, <2>1, <2>2, QuietAnswers
<1>8. CASE HandoffAccepted \/ HandoffRefused
  <2>1. UNCHANGED <<inbox, replies>> /\ dispatcher = "handoff" /\ GoOn(current)
    BY <1>8 DEF HandoffAccepted, HandoffRefused, callerVars
  <2>3. current.type = "shutdown" => current.reply
    BY <1>1 DEF OneShutdown
  <2>4. /\ dispatcher' # "stopped"
        /\ current.reply => current' = current /\ dispatcher' \in {"handoff", "awaitWorkers"}
        /\ ~current.reply => ~current'.reply /\ current'.type # "shutdown"
    BY <1>3, <2>1, <2>3
  <2> QED
    BY <1>1, <1>2, <2>1, <2>4, QuietAnswers
<1> QED
  BY <1>4, <1>5, <1>6, <1>7, <1>8 DEF DispatcherStep

\* Every step of every goroutine keeps the calls answered.
LEMMA AnsweringNext == SafetyInvariant /\ AnsweringInvariant /\ [Next]_vars => AnsweringInvariant'
<1> SUFFICES ASSUME SafetyInvariant, AnsweringInvariant, [Next]_vars PROVE AnsweringInvariant'
  OBVIOUS
<1>1. CASE UNCHANGED vars \/ (\E w \in Workers : WorkerStep(w)) \/ ServerClock
  <2>1. UNCHANGED <<inbox, dispatcher, current, callerState, replies>>
    BY <1>1 DEF vars, WorkerStep, TakePayload, SendReturns, PostResult, FinishPayload,
       ExitWorker, ServerClock, channelVars, dispatcherVars, callerVars
  <2> QED
    BY <2>1, QuietAnswers DEF AnsweringInvariant, OneRequest
<1> QED
  BY <1>1, ApplicationAnswers, DispatcherAnswers DEF Next

\* In every reachable state the messages of the blocking calls are where they are
\* answered from, once each.
THEOREM AnsweringInvariantHolds == Spec => []AnsweringInvariant
<1>1. ASSUME Init PROVE AnsweringInvariant
  <2>1. /\ DOMAIN inbox = {} /\ ~current.reply /\ current.type = "none" /\ replies = {}
        /\ dispatcher = "loop" /\ \A c \in Callers : callerState[c] = "idle"
    BY <1>1 DEF Init, NoMessage
  <2>2. \A c : Requests(c) = {} /\ ~BeingHandled(c)
    BY <2>1 DEF Requests, BeingHandled
  <2>3. NoCallForgotten /\ OneRequest
    BY <2>1, <2>2 DEF NoCallForgotten, OneRequest
  <2>4. OneShutdown
    BY <2>1 DEF OneShutdown, Callers
  <2> QED
    BY <2>3, <2>4 DEF AnsweringInvariant
<1> QED
  BY <1>1, AnsweringNext, SafetyInvariantHolds, PTL DEF Spec

\* No FlushBlocking, waitUntilInactive or Close is ever forgotten: while it waits, its
\* reply is there or its message is, and the Close that stops the loop has its reply.
THEOREM NoCallIsForgotten == Spec => []NoCallForgotten
<1>1. AnsweringInvariant => NoCallForgotten
  BY DEF AnsweringInvariant
<1> QED
  BY <1>1, AnsweringInvariantHolds, PTL

\* The dispatcher never waits for somebody to read a reply: whoever may have stopped
\* waiting has a channel with a buffer.
THEOREM RepliesFindTheirReaders == Spec => []ReplyFindsReader
<1>1. SafetyInvariant /\ AnsweringInvariant => ReplyFindsReader
  <2> SUFFICES ASSUME SafetyInvariant, AnsweringInvariant, current.reply
               PROVE  current.from \in Callers \ replies /\ CanReply(current.from)
    BY DEF ReplyFindsReader
  <2> DEFINE c == current.from
  <2>1. c \in Callers /\ c \notin replies /\ callerState[c] \in Awaiting(c)
    BY DEF SafetyInvariant, RepliesHaveCallers, AnsweringInvariant, OneRequest, BeingHandled
  <2>2. callerState[c] = "waiting" \/ c \in Flushers
    BY <2>1, DispatcherAssumption DEF Awaiting
  <2> QED
    BY <2>1, <2>2 DEF CanReply, ReplyBuffer
<1> QED
  BY <1>1, AnsweringInvariantHolds, SafetyInvariantHolds, PTL
=============================================================================
