--------------------------- MODULE EventProcessing --------------------------
(***************************************************************************)
(* The state that only the dispatcher goroutine touches (the fields of     *)
(* eventDispatcher and its eventsOutbox) and processEvent, the handler     *)
(* that turns one recorded input into output events.  EventDispatcher      *)
(* extends this module with the channels and the goroutines.               *)
(*                                                                         *)
(* An input is a member of Events; Input gives what processEvent reads of  *)
(* it.  An output event is named by its input and its kind, and the        *)
(* summary is the set of evaluations it has counted.                       *)
(***************************************************************************)
EXTENDS LruCache, SequencesExt

CONSTANTS Events,            \* the calls of the Record methods, one member per call
          Input,             \* Input[e]: the fields of e that processEvent looks at
          Contexts,          \* fully qualified context keys
          Capacity,          \* config.Capacity, of the inbox and of the outbox
          UserKeysCapacity,  \* config.UserKeysCapacity
          ClientTimes        \* the values currentTimestampFn may return

Kinds == {"evaluation", "identify", "custom", "migration", "raw"}

InputType ==
  [kind : Kinds, context : Contexts, requireFullEvent : BOOLEAN,
   excludeFromSummaries : BOOLEAN, debugEventsUntilDate : Nat,
   samplingRatio : Int, forceSampling : BOOLEAN]

ASSUME ProcessingAssumption ==
  /\ Input \in [Events -> InputType]
  /\ Capacity \in Nat \ {0}
  /\ UserKeysCapacity \in Nat
  /\ ClientTimes # {} /\ ClientTimes \subseteq Nat

OutputKinds == {"index", "feature", "debug", "identify", "custom", "migration", "raw"}
Output == [event : Events, kind : OutputKinds]

VARIABLES outbox,                \* events, summary and droppedEvents of eventsOutbox
          userKeys,              \* LRU cache of the contexts already indexed
          deduplicatedContexts, eventsInLastBatch, lastKnownPastTime, disabled,
          dropped,               \* history: the output events addEvent refused
          introducers            \* history: the inputs that put the contexts in userKeys,
                                 \* of those that are still there

processingVars == <<outbox, userKeys, deduplicatedContexts, eventsInLastBatch,
                    lastKnownPastTime, disabled, dropped, introducers>>

ProcessingTypeOK ==
  /\ outbox \in [events : Seq(Output), summary : SUBSET Events, droppedEvents : Nat]
  /\ Len(outbox.events) <= Capacity
  /\ IsCache(UserKeysCapacity, userKeys, Contexts)
  /\ deduplicatedContexts \in Nat
  /\ eventsInLastBatch \in Nat
  /\ lastKnownPastTime \in Nat
  /\ disabled \in BOOLEAN
  /\ dropped \subseteq Output
  /\ introducers \subseteq Events

ProcessingInit ==
  /\ outbox = [events |-> << >>, summary |-> {}, droppedEvents |-> 0]
  /\ userKeys = EmptyCache
  /\ deduplicatedContexts = 0
  /\ eventsInLastBatch = 0
  /\ lastKnownPastTime = 0
  /\ disabled = FALSE
  /\ dropped = {}
  /\ introducers = {}
-----------------------------------------------------------------------------
(* The outbox (outbox.go).                                                 *)

\* How many of the output events outs still fit.  (Faulty: one too many.)
FittingOneMore(outs) ==
  IF Len(outs) <= Capacity + 1 - Len(outbox.events)
  THEN Len(outs) ELSE Capacity + 1 - Len(outbox.events)
Fitting(outs) ==
  IF Len(outs) <= Capacity - Len(outbox.events)
  THEN Len(outs) ELSE Capacity - Len(outbox.events)

\* addEvent for each of outs in turn: what does not fit is dropped and counted.
\* counted is the set of evaluations addToSummary has counted just before.
AddToOutbox(outs, counted) ==
  LET n    == Fitting(outs)
      kept == SubSeq(outs, 1, n)
  IN  /\ outbox' = [events        |-> outbox.events \o kept,
                    summary       |-> outbox.summary \cup counted,
                    droppedEvents |-> outbox.droppedEvents + (Len(outs) - n)]
      /\ dropped' = dropped \cup {outs[i] : i \in (n + 1) .. Len(outs)}

\* clear(): droppedEvents survives, the diagnostics handler resets it.  (Faulty:
\* only the events, or only the summary, are cleared.)
OutboxKeepsSummary == [outbox EXCEPT !.events = << >>]
OutboxKeepsEvents == [outbox EXCEPT !.summary = {}]
ClearedOutbox ==
  [events |-> << >>, summary |-> {}, droppedEvents |-> outbox.droppedEvents]

\* What the diagnostics handler does to it.  (Faulty: nothing.)
DropsNotReset == outbox
DropsReset == [outbox EXCEPT !.droppedEvents = 0]
-----------------------------------------------------------------------------
(* processEvent.                                                           *)

\* ForceSampling overrides the ratio of everything but a raw event.
Ratio(e) == IF Input[e].forceSampling THEN 1 ELSE Input[e].samplingRatio

\* The answers sampler.Sample(ratio) may give: 1 in ratio, none for ratio <= 0.
Sample(ratio) == IF ratio = 1 THEN {TRUE} ELSE IF ratio <= 0 THEN {FALSE} ELSE BOOLEAN

\* Debugging is on until a date that neither clock has reached.
ShouldDebugEvent(e, now) ==
  /\ Input[e].kind = "evaluation"
  /\ Input[e].debugEventsUntilDate # 0
  /\ Input[e].debugEventsUntilDate > lastKnownPastTime
  /\ Input[e].debugEventsUntilDate > now

\* addToSummary is called for every evaluation that does not opt out.
CountedInSummary(e) ==
  IF Input[e].kind = "evaluation" /\ ~Input[e].excludeFromSummaries THEN {e} ELSE {}

WillAddFullEvent(e) == Input[e].kind = "evaluation" => Input[e].requireFullEvent

FullEvent(e) ==
  [event |-> e, kind |-> IF Input[e].kind = "evaluation" THEN "feature" ELSE Input[e].kind]

\* An index event may be added: the input's own full event, if there is one, does
\* not hold the context.  (Faulty: no index event beside any full event.)
MayIndexUnlessFull(e) == ~WillAddFullEvent(e)
MayIndex(e) == ~(WillAddFullEvent(e) /\ Input[e].kind = "identify")

\* <<o>> if the code adds o, else nothing.
AddIf(condition, o) == IF condition THEN <<o>> ELSE << >>

\* Migration operations and raw events: no context handling, no debug event.
ProcessPlainEvent(e) ==
  /\ Input[e].kind \in {"migration", "raw"}
  /\ \E sampled \in (IF Input[e].kind = "raw" THEN {TRUE} ELSE Sample(Ratio(e))) :
       AddToOutbox(AddIf(sampled, FullEvent(e)), {})
  /\ UNCHANGED <<userKeys, deduplicatedContexts, introducers>>

\* Evaluations, identify and custom events: the context's key is looked up and
\* refreshed, an unknown context is indexed before the event that refers to it
\* (unless that event is an identify event), and the full and the debug event
\* are sampled separately.
ProcessContextEvent(e) ==
  LET context     == Input[e].context
      alreadySeen == Seen(userKeys, context)
  IN  /\ Input[e].kind \in {"evaluation", "identify", "custom"}
      /\ userKeys' = Add(UserKeysCapacity, userKeys, context)
      /\ deduplicatedContexts' =
           IF MayIndex(e) /\ alreadySeen THEN deduplicatedContexts + 1 ELSE deduplicatedContexts
      /\ introducers' = {d \in introducers \cup (IF alreadySeen THEN {} ELSE {e}) :
                           Input[d].context \in Cached(userKeys')}
      /\ \E now \in ClientTimes, full \in Sample(Ratio(e)), debug \in Sample(Ratio(e)) :
           AddToOutbox(AddIf(MayIndex(e) /\ ~alreadySeen, [event |-> e, kind |-> "index"])
                         \o AddIf(WillAddFullEvent(e) /\ full, FullEvent(e))
                         \o AddIf(ShouldDebugEvent(e, now) /\ debug,
                                  [event |-> e, kind |-> "debug"]),
                       CountedInSummary(e))

\* (Faulty: events are still processed after an unrecoverable error.)
ProcessEventRegardless(e) ==
  /\ ProcessPlainEvent(e) \/ ProcessContextEvent(e)
  /\ UNCHANGED <<eventsInLastBatch, lastKnownPastTime, disabled>>

ProcessEvent(e) ==
  \/ disabled /\ UNCHANGED processingVars
  \/ /\ ~disabled
     /\ ProcessPlainEvent(e) \/ ProcessContextEvent(e)
     /\ UNCHANGED <<eventsInLastBatch, lastKnownPastTime, disabled>>

\* usersResetTicker: the dispatcher forgets the contexts it has indexed.
ResetUserKeys ==
  /\ userKeys' = EmptyCache
  /\ introducers' = {}
  /\ UNCHANGED <<outbox, deduplicatedContexts, eventsInLastBatch, lastKnownPastTime,
                 disabled, dropped>>
=============================================================================
