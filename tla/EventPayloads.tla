---------------------------- MODULE EventPayloads ---------------------------
(***************************************************************************)
(* What is in the payloads, and in whose memory.  The dispatcher collects  *)
(* output events in a slice and evaluations in a map of counters           *)
(* (outbox.go, event_summarizer.go); triggerFlush hands both to a worker,  *)
(* which formats them (events_output.go) while the dispatcher goes on.     *)
(* Slices and maps are references into memory, so that a payload may share *)
(* what the dispatcher changes.  EventDispatcher has the channels and      *)
(* workersGroup; here a payload on its way, in flushCh or with a worker,   *)
(* has a holder, and as many of them are formatted at once as there are.   *)
(***************************************************************************)
EXTENDS EventsOutput, DiagnosticsManager

CONSTANTS Events,      \* the calls that record events
          Holders,     \* of payloads on their way, each in flushCh and then with a worker
          Locations,   \* of slices' arrays and of maps
          Capacity,    \* config.Capacity, of the outbox
          Scenarios,   \* [config, calls]: a configuration, and what some Events call
          Names,       \* of attributes and of the properties nested in them
          Dates        \* what timeFn of the factory may return

ASSUME PayloadsAssumption ==
  /\ Capacity \in Nat \ {0}
  /\ Locations # {} /\ 0 \notin Locations
  /\ Dates \subseteq Nat
  /\ \A s \in Scenarios :
       /\ s.config.privateAttributes \in Seq(Seq(Names))
       /\ DOMAIN s.calls \subseteq Events
       /\ \A e \in DOMAIN s.calls : \A c \in s.calls[e].context.contexts :
            IsContext(c) /\ c.attrs \subseteq Seq(Names) /\ ToSet(c.private) \subseteq Seq(Names)

\* There is always memory to allocate.
ASSUME MemoryAssumption ==
  \A used \in [Holders -> Locations \cup {0}], own \in Locations :
    \E l \in Locations : l \notin {own, 0} \cup {used[h] : h \in Holders}

\* The time is never 0, which as a startDate stands for none.
ASSUME ClockAssumption == 0 \notin Dates

VARIABLES scenario, formatter,   \* set once: the calls to come, the output formatter
          arrays, maps,          \* memory
          outbox,                \* events: a slice; flags: a map; dates
          dispatcher, pending,   \* where the dispatcher is, the payload it offers
          shutdown,              \* "told" once senderResultCh has MustShutDown, then "done"
          held, output,          \* by holder: its payload, what it has formatted
          recorded,              \* the calls made so far
          buffered, counted,     \* history: the events and evaluations in the outbox
          given                  \* history: those of the payload of each holder

payloadVars == <<scenario, formatter, arrays, maps, outbox, dispatcher, pending, shutdown, held,
                 output, recorded, buffered, counted, given>>
vars == <<payloadVars, managerVars>>

Nil == [kind |-> "nil"]
NilSlice == [array |-> 0, len |-> 0]
NoPayload == [events |-> NilSlice, flags |-> 0, dates |-> NoDates]
NoOutput == [items |-> << >>, count |-> 0]
Nothing == [events |-> << >>, evaluations |-> << >>]

\* The elements of a slice.
Deref(slice) == [i \in 1 .. slice.len |-> arrays[slice.array][i]]

\* A location nobody refers to.
ArraysInUse == {outbox.events.array, pending.events.array} \cup {held[h].events.array : h \in Holders}
MapsInUse == {outbox.flags, pending.flags} \cup {held[h].flags : h \in Holders}
FreshArray == CHOOSE a \in Locations : a \notin ArraysInUse
FreshMap == CHOOSE m \in Locations : m \notin MapsInUse

AnyLocation == CHOOSE l \in Locations : TRUE

EmptyArray == [i \in 1 .. Capacity |-> Nil]

\* startEventDispatcher: the formatter is made from the configuration.
Init ==
  /\ scenario \in Scenarios
  /\ formatter = NewEventContextFormatter(scenario.config)
  /\ arrays = [a \in Locations |-> EmptyArray] /\ maps = [m \in Locations |-> NoFlags]
  /\ outbox = [events |-> [array |-> AnyLocation, len |-> 0], flags |-> AnyLocation, dates |-> NoDates]
  /\ dispatcher = "loop" /\ pending = NoPayload /\ shutdown = "no"
  /\ held = [h \in Holders |-> NoPayload] /\ output = [h \in Holders |-> NoOutput]
  /\ recorded = {} /\ buffered = << >> /\ counted = << >>
  /\ given = [h \in Holders |-> Nothing]
  /\ ManagerInit
-----------------------------------------------------------------------------
(* The dispatcher.                                                         *)

AtSelect == dispatcher = "loop" /\ creating = "no"
disabled == shutdown = "done"

\* How many of events addEvent finds room for.  (Faulty: one more.)
FittingOneMore(events) ==
  IF Len(events) <= Capacity + 1 - outbox.events.len THEN Len(events)
  ELSE Capacity + 1 - outbox.events.len
Fitting(events) ==
  IF Len(events) <= Capacity - outbox.events.len THEN Len(events) ELSE Capacity - outbox.events.len

\* addEvent for each of events in turn: append writes into the array in place.
AddEvents(events) ==
  LET a == outbox.events.array
      n == outbox.events.len
      k == Fitting(events)
  IN  /\ arrays' = [arrays EXCEPT ![a] = [i \in 1 .. Capacity |->
                      IF i \in (n + 1) .. (n + k) THEN events[i - n] ELSE @[i]]]
      /\ buffered' = buffered \o SubSeq(events, 1, k)

\* processEvent: an evaluation is summarized unless it opts out, and some of the
\* events it may lead to are added.  (Disabled, it does nothing.)
ProcessEvent(e) ==
  /\ AtSelect /\ ~disabled /\ e \in DOMAIN scenario.calls \ recorded
  /\ recorded' = recorded \cup {e}
  /\ \E date \in Dates :
       LET data       == InputData(scenario.config, scenario.calls[e], date)
           summarized == data.kind = "evaluation" /\ ~data.excludeFromSummaries
       IN  \E events \in EventsOf(data) :
             /\ AddEvents(events)
             /\ maps' = IF summarized THEN [maps EXCEPT ![outbox.flags] = CountedIn(@, data)] ELSE maps
             /\ outbox' =
                  [outbox EXCEPT !.events.len = @ + Fitting(events),
                                 !.dates = IF summarized THEN DatesWith(@, date) ELSE @]
             /\ counted' = IF summarized THEN Append(counted, data) ELSE counted
  /\ UNCHANGED <<scenario, formatter, dispatcher, pending, shutdown, held, output, given, managerVars>>

\* getPayload: the events are copied, the map of counters is not.  (Faulty: the
\* slice itself is passed on.)
SharedEvents == outbox.events
CopiedEvents == IF outbox.events.len = 0 THEN NilSlice ELSE [outbox.events EXCEPT !.array = FreshArray]

\* triggerFlush, up to the select on flushCh.
TriggerFlush ==
  /\ AtSelect /\ ~disabled
  /\ OutputCount(Deref(outbox.events), maps[outbox.flags]) > 0
  /\ pending' = [events |-> CopiedEvents, flags |-> outbox.flags, dates |-> outbox.dates]
  /\ arrays' = IF outbox.events.len = 0 THEN arrays
               ELSE [arrays EXCEPT ![FreshArray] = [i \in 1 .. Capacity |->
                       IF i <= outbox.events.len THEN arrays[outbox.events.array][i] ELSE Nil]]
  /\ dispatcher' = "offering"
  /\ UNCHANGED <<scenario, formatter, maps, outbox, shutdown, held, output, recorded, buffered,
                 counted, given, managerVars>>

\* From here on the holder may read the payload.
HandoffAccepted(h) ==
  /\ dispatcher = "offering" /\ held[h] = NoPayload
  /\ held' = [held EXCEPT ![h] = pending]
  /\ given' = [given EXCEPT ![h] = [events |-> buffered, evaluations |-> counted]]
  /\ pending' = NoPayload
  /\ dispatcher' = "clearing"
  /\ UNCHANGED <<scenario, formatter, arrays, maps, outbox, shutdown, output, recorded, buffered,
                 counted, managerVars>>

\* flushCh is full, so a payload is on its way: the offer is forgotten.
HandoffRefused ==
  /\ dispatcher = "offering" /\ \E h \in Holders : held[h] # NoPayload
  /\ pending' = NoPayload
  /\ dispatcher' = "loop"
  /\ UNCHANGED <<scenario, formatter, arrays, maps, outbox, shutdown, held, output, recorded,
                 buffered, counted, given, managerVars>>

\* clear(): the events are overwritten and their array is used again, the map of
\* counters is replaced.  (Faulty: it is emptied.)
EmptiedMap == outbox.flags
ReplacedMap == FreshMap

ClearOutbox ==
  /\ arrays' = [arrays EXCEPT ![outbox.events.array] =
                  [i \in 1 .. Capacity |-> IF i <= outbox.events.len THEN Nil ELSE @[i]]]
  /\ maps' = [maps EXCEPT ![ReplacedMap] = NoFlags]
  /\ outbox' = [events |-> [outbox.events EXCEPT !.len = 0], flags |-> ReplacedMap, dates |-> NoDates]
  /\ buffered' = << >> /\ counted' = << >>

Clear ==
  /\ dispatcher = "clearing"
  /\ ClearOutbox
  /\ dispatcher' = "loop"
  /\ UNCHANGED <<scenario, formatter, pending, shutdown, held, output, recorded, given, managerVars>>

\* A result with MustShutDown is read from senderResultCh: from now on nothing is
\* recorded and nothing is flushed, while workers may still have payloads.
TurnOff ==
  /\ AtSelect /\ shutdown = "told"
  /\ shutdown' = "done"
  /\ ClearOutbox
  /\ UNCHANGED <<scenario, formatter, dispatcher, pending, held, output, recorded, given, managerVars>>

\* diagnosticsTicker, and the other goroutines that share the manager with it.
DiagnosticsStep ==
  /\ scenario.config.diagnostics
  /\ ManagerNext
  /\ creating = "no" /\ creating' # "no" => AtSelect
  /\ UNCHANGED payloadVars
-----------------------------------------------------------------------------
(* The workers: runFlushTask.                                              *)

Format(h) ==
  /\ held[h] # NoPayload /\ output[h] = NoOutput
  /\ output' = [output EXCEPT ![h] =
       MakeOutputEvents(formatter, Deref(held[h].events), maps[held[h].flags], held[h].dates)]
  /\ UNCHANGED <<scenario, formatter, arrays, maps, outbox, dispatcher, pending, shutdown, held,
                 recorded, buffered, counted, given, managerVars>>

\* SendEventData has returned, perhaps with a result that has MustShutDown.
Sent(h) ==
  /\ output[h] # NoOutput
  /\ output' = [output EXCEPT ![h] = NoOutput]
  /\ held' = [held EXCEPT ![h] = NoPayload]
  /\ given' = [given EXCEPT ![h] = Nothing]
  /\ UNCHANGED shutdown \/ (shutdown = "no" /\ shutdown' = "told")
  /\ UNCHANGED <<scenario, formatter, arrays, maps, outbox, dispatcher, pending, recorded,
                 buffered, counted, managerVars>>

Next ==
  \/ \E e \in Events : ProcessEvent(e)
  \/ TriggerFlush \/ HandoffRefused \/ Clear \/ TurnOff
  \/ \E h \in Holders : HandoffAccepted(h) \/ Format(h) \/ Sent(h)
  \/ DiagnosticsStep

Spec == Init /\ [][Next]_vars
=============================================================================
