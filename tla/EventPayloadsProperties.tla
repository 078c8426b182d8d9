---------------------- MODULE EventPayloadsProperties -----------------------
(***************************************************************************)
(* What a payload has to contain when a worker reads it, and what leaves   *)
(* the SDK in it.                                                          *)
(***************************************************************************)
EXTENDS EventPayloads

InHand == {h \in Holders : held[h] # NoPayload}
Formatted == {h \in Holders : output[h] # NoOutput}

\* A slice without an array is empty.
Slice == {s \in [array : Locations \cup {0}, len : 0 .. Capacity] : s.array = 0 => s.len = 0}
SummaryDates == [startDate : Dates \cup {0}, endDate : Dates \cup {0}]
Payload == [events : Slice, flags : Locations \cup {0}, dates : SummaryDates]

TypeOK ==
  /\ scenario \in Scenarios
  /\ DOMAIN arrays = Locations /\ \A a \in Locations : DOMAIN arrays[a] = 1 .. Capacity
  /\ DOMAIN maps = Locations
  /\ outbox \in Payload /\ pending \in Payload /\ held \in [Holders -> Payload]
  /\ dispatcher \in {"loop", "offering", "clearing"}
  /\ shutdown \in {"no", "told", "done"}
  /\ recorded \subseteq Events
  /\ DOMAIN output = Holders /\ DOMAIN given = Holders
  /\ ManagerTypeOK
-----------------------------------------------------------------------------
(* The summary, from the evaluations it is about.                          *)

\* What the map and the dates have to say of a sequence of evaluations: how often
\* each variation of each version was returned and with which value first, the
\* first default of each flag, the kinds of context, the first and the last date.
OfFlag(evaluations, k) == {i \in DOMAIN evaluations : evaluations[i].key = k}
OfCounter(evaluations, k, key) ==
  {i \in OfFlag(evaluations, k) : <<evaluations[i].variation, evaluations[i].version>> = key}

FlagsOf(evaluations) ==
  [k \in {evaluations[i].key : i \in DOMAIN evaluations} |->
     LET ofFlag == OfFlag(evaluations, k)
     IN  [counters |->
            [key \in {<<evaluations[i].variation, evaluations[i].version>> : i \in ofFlag} |->
               LET same == OfCounter(evaluations, k, key)
               IN  [count |-> Cardinality(same), flagValue |-> evaluations[Min(same)].value]],
          contextKinds |-> {c.kind : c \in UNION {evaluations[i].context.contexts : i \in ofFlag}},
          defaultValue |-> evaluations[Min(ofFlag)].default]]

DatesOf(evaluations) ==
  LET dates == {evaluations[i].creationDate : i \in DOMAIN evaluations}
  IN  IF dates = {} THEN NoDates ELSE [startDate |-> Min(dates), endDate |-> Max(dates)]

IsContent(p, events, evaluations) ==
  /\ Deref(p.events) = events
  /\ maps[p.flags] = FlagsOf(evaluations)
  /\ p.dates = DatesOf(evaluations)

\* Until it is sent, a payload holds exactly the events and the evaluations that
\* were in the outbox when a worker took it, whatever is recorded, flushed and
\* cleared meanwhile; and the outbox holds those since.
PayloadsIntact ==
  /\ IsContent(outbox, buffered, counted)
  /\ \A h \in InHand : IsContent(held[h], given[h].events, given[h].evaluations)

\* The dispatcher never writes into an array or a map that a payload in the hands of
\* a worker refers to: the worker reads them without a lock.
NothingSharedIsWritten ==
  \A h \in InHand :
    /\ held[h].events.array # 0 => arrays'[held[h].events.array] = arrays[held[h].events.array]
    /\ maps'[held[h].flags] = maps[held[h].flags]
NoSharedWrites == [][NothingSharedIsWritten]_vars

\* The inductive invariant of the proofs: whose memory is whose.  Between the handoff
\* and the clear the dispatcher still refers to the map of the payload it has given.
OwnMemory ==
  /\ outbox.events.array \in Locations /\ outbox.flags \in Locations
  /\ IF dispatcher = "offering"
     THEN pending.events.array # outbox.events.array /\ pending.flags = outbox.flags
     ELSE pending = NoPayload
  /\ \A h \in Holders :
       /\ held[h].events.array # outbox.events.array
       /\ held[h] # NoPayload => held[h].flags \in Locations
       /\ dispatcher # "clearing" => held[h].flags # outbox.flags

PayloadsInvariant == TypeOK /\ OwnMemory /\ ManagerInvariant

\* The strengthening of PayloadsIntact.  What is offered is what the outbox holds, and
\* the evaluations that are counted are inputs of processEvent.
Summarized ==
  {InputData(scenario.config, scenario.calls[e], date) : e \in DOMAIN scenario.calls, date \in Dates}

IntactInvariant ==
  /\ PayloadsIntact
  /\ dispatcher = "offering" => IsContent(pending, buffered, counted)
  /\ counted \in Seq(Summarized)
  /\ \A h \in Holders : given[h].evaluations \in Seq(Summarized)

\* Every one of events has the context of a call.
OfCalls(events) ==
  \A i \in DOMAIN events : \E e \in DOMAIN scenario.calls :
    events[i].context = scenario.calls[e].context

\* What a worker has formatted is its payload, by the dispatcher's formatter, and the
\* contexts in it are those of the calls.
OutputInvariant ==
  /\ formatter = NewEventContextFormatter(scenario.config)
  /\ OfCalls(buffered) /\ \A h \in Holders : OfCalls(given[h].events)
  /\ \A h \in Formatted :
       /\ h \in InHand
       /\ output[h] = MakeOutputEvents(formatter, given[h].events, FlagsOf(given[h].evaluations),
                                       DatesOf(given[h].evaluations))
-----------------------------------------------------------------------------
(* What is sent.                                                           *)

\* The number of events told to the sender is that of the JSON array, and from the
\* summary in it one can tell for each flag how often each variation of each
\* version was returned and how often the flag was unknown.
OutputComplete ==
  \A h \in Formatted :
    LET items       == output[h].items
        evaluations == given[h].evaluations
    IN  /\ output[h].count = Len(items)
        /\ Len(items) = Len(given[h].events) + (IF evaluations # << >> THEN 1 ELSE 0)
        /\ evaluations # << >> =>
             \A i \in DOMAIN evaluations :
               LET ed == evaluations[i] IN
               \E counter \in Last(items).features[ed.key].counters :
                 /\ counter.variation = ed.variation
                 /\ IF ed.version = <<>> THEN counter.unknown ELSE counter.version = ed.version
                 /\ counter.count = Cardinality({j \in DOMAIN evaluations :
                       /\ evaluations[j].key = ed.key
                       /\ evaluations[j].variation = ed.variation
                       /\ evaluations[j].version = ed.version})

\* The attributes of c that refs or its own list designate, in part or as a whole.
PrivateIn(c, refs) ==
  {p \in c.attrs : \E ref \in refs \cup ToSet(c.private) : ref # <<>> /\ IsPrefix(ref, p)}

\* What may be written of c in an event of this kind, if refs are private.
Redacted(c, kind, refs) ==
  LET all     == scenario.config.allAttributesPrivate \/ (c.anonymous /\ kind = "feature")
      private == IF all THEN c.attrs ELSE PrivateIn(c, refs)
  IN  [kind |-> c.kind, key |-> c.key, anonymous |-> c.anonymous, attrs |-> c.attrs \ private,
       redactedAttributes |-> {p \in private : Len(p) = 1 \/ Front(p) \notin private}]

\* A configured reference takes effect unless one to something within the same
\* attribute precedes every occurrence of it.
Effective(refs) ==
  {refs[i] : i \in {j \in DOMAIN refs : \A k \in 1 .. (j - 1) : ~IsStrictPrefix(refs[j], refs[k])}}

\* The events with a context, each with the contexts it was made from.
ContextsSent ==
  UNION {{[kind |-> output[h].items[i].kind, context |-> output[h].items[i].context,
           source |-> given[h].events[i].context]
            : i \in {j \in DOMAIN given[h].events : "context" \in DOMAIN output[h].items[j]}}
         : h \in Formatted}

\* Every context is sent without exactly the attributes and properties that an
\* effective reference, or one of its own, designates, and says which they are; an
\* anonymous one is sent without any in feature events, and only there.
RedactionExact ==
  \A sent \in ContextsSent :
    ~sent.source.preserialized =>
      sent.context = {Redacted(c, sent.kind, Effective(scenario.config.privateAttributes))
                        : c \in sent.source.contexts}

\* config.go: "PrivateAttributes is a list of attribute references (either simple
\* names, or slash-delimited paths) that should be considered private."
PrivateAttributesNotSent ==
  \A sent \in ContextsSent :
    ~sent.source.preserialized =>
      \A c \in sent.source.contexts, written \in sent.context :
        c.kind = written.kind =>
          written.attrs \cap PrivateIn(c, ToSet(scenario.config.privateAttributes)) = {}
=============================================================================
