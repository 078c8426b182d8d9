---------------------------- MODULE EventsOutput ----------------------------
(***************************************************************************)
(* From a call of the SDK to the events of a payload: the structures that  *)
(* EventFactory fills (inputs.go) and the JSON that makeOutputEvents       *)
(* writes (events_output.go).  An output event is a record of the          *)
(* properties that tell who was evaluated and what was counted; a JSON     *)
(* property that is written only if it is defined is a sequence of at most *)
(* one.  Creation dates of single events, sampling ratios, the data of     *)
(* custom events and the measurements of migrations are left out.          *)
(***************************************************************************)
EXTENDS ContextFormatter, EventSummarizer
-----------------------------------------------------------------------------
(* EventFactory.  date is what timeFn returns.                             *)

\* An evaluation of a flag that does not exist: the value is the default.
NewUnknownFlagEvaluationData(factory, call, date) ==
  [kind |-> "evaluation", context |-> call.context, creationDate |-> date, key |-> call.key,
   version |-> <<>>, variation |-> <<>>, value |-> call.default, default |-> call.default,
   reason |-> factory.includeReasons, requireFullEvent |-> FALSE, debugged |-> FALSE,
   excludeFromSummaries |-> FALSE, debug |-> FALSE]

\* An evaluation of a flag; debugged stands for a debugEventsUntilDate to come.
NewEvaluationData(factory, call, date) ==
  [kind |-> "evaluation", context |-> call.context, creationDate |-> date, key |-> call.key,
   version |-> <<call.version>>, variation |-> call.variation, value |-> call.value,
   default |-> call.default, reason |-> factory.includeReasons \/ call.isExperiment,
   requireFullEvent |-> call.isExperiment \/ call.requireFullEvent, debugged |-> call.debugged,
   excludeFromSummaries |-> call.excludeFromSummaries, debug |-> FALSE]

\* NewCustomEventData, NewIdentifyEventData, and the two that the factory does not
\* make, migration operations and raw events.
OtherData(call, date) == [kind |-> call.kind, context |-> call.context, creationDate |-> date]

InputData(factory, call, date) ==
  CASE call.kind = "unknownFlag" -> NewUnknownFlagEvaluationData(factory, call, date)
    [] call.kind = "evaluation"  -> NewEvaluationData(factory, call, date)
    [] OTHER                     -> OtherData(call, date)

\* The sequences of events that processEvent may add for an input: which of them it
\* adds, EventProcessing says.
IndexEvent(data) == [kind |-> "index", context |-> data.context, creationDate |-> data.creationDate]
DebugEvent(data) == [data EXCEPT !.debug = TRUE]
Perhaps(event) == {<< >>, <<event>>}
EventsOf(data) ==
  CASE data.kind = "evaluation" ->
         {index \o full \o debug :
            index \in Perhaps(IndexEvent(data)),
            full  \in IF data.requireFullEvent THEN Perhaps(data) ELSE {<< >>},
            debug \in IF data.debugged THEN Perhaps(DebugEvent(data)) ELSE {<< >>}}
    [] data.kind = "custom" ->
         {index \o full : index \in Perhaps(IndexEvent(data)), full \in Perhaps(data)}
    [] OTHER -> Perhaps(data)
-----------------------------------------------------------------------------
(* The output formatter.                                                   *)

\* writeContextKeys: the keys by kind, and nothing else of the context.
ContextKeys(ec) == {[kind |-> c.kind, key |-> c.key] : c \in ec.contexts}

\* Anonymous contexts are redacted in feature events and not in debug events.
ContextOfEvaluation(f, data) ==
  IF data.debug THEN WriteContext(f, data.context)
  ELSE WriteContextRedactAnonymous(f, data.context)

WriteOutputEvent(f, data) ==
  CASE data.kind = "evaluation" ->
         [kind |-> IF data.debug THEN "debug" ELSE "feature", key |-> data.key,
          version |-> data.version, variation |-> data.variation, value |-> data.value,
          default |-> data.default, reason |-> data.reason,
          context |-> ContextOfEvaluation(f, data)]
    [] data.kind \in {"identify", "index"} ->
         [kind |-> data.kind, context |-> WriteContext(f, data.context)]
    [] data.kind \in {"custom", "migration"} ->
         [kind |-> data.kind, contextKeys |-> ContextKeys(data.context)]
    [] OTHER -> [kind |-> "raw"]

\* A counter without a version is that of an unknown flag.
WriteCounter(key, counter) ==
  [variation |-> key[1], version |-> key[2], unknown |-> key[2] = <<>>,
   value |-> counter.flagValue, count |-> counter.count]

WriteSummaryEvent(flags, dates) ==
  [kind |-> "summary", startDate |-> dates.startDate, endDate |-> dates.endDate,
   features |->
     [k \in DOMAIN flags |->
        [default      |-> flags[k].defaultValue,
         counters     |-> {WriteCounter(key, flags[k].counters[key]) : key \in DOMAIN flags[k].counters},
         contextKinds |-> flags[k].contextKinds]]]

\* The JSON array and the number of its events; there is no array without events.
OutputCount(events, flags) == Len(events) + (IF HasCounters(flags) THEN 1 ELSE 0)

MakeOutputEvents(f, events, flags, dates) ==
  [items |-> [i \in DOMAIN events |-> WriteOutputEvent(f, events[i])]
               \o (IF HasCounters(flags) THEN <<WriteSummaryEvent(flags, dates)>> ELSE << >>),
   count |-> OutputCount(events, flags)]
=============================================================================
