# A TLA+ model of go-sdk-events

go-sdk-events is the part of LaunchDarkly's Go SDK that turns evaluations, identify
calls and custom events into analytics events and delivers them to the events service.
This directory holds TLA+ modules translated from its Go source, TLC configurations that
check them on small instances, and proofs that the TLA+ proof system checks.
`PROJECT.json` maps each definition to the lines it stands for.

## The system

| Component | State | Operations | Where |
|---|---|---|---|
| event processor (API) | `inboxCh`, `closeOnce` | `Record*`, `Flush`, `FlushBlocking`, `Close` | `event_processor.go:20-149` |
| dispatcher | outbox, `userKeys`, `lastKnownPastTime`, counters, `disabled`; `flushCh`, `senderResultCh`, `workersGroup` | the cases of `runMainLoop`, `processEvent`, `triggerFlush`, `sendDiagnosticsEvent` | `event_processor.go:151-441` |
| flush workers | the payload in hand | `runFlushTask` | `event_processor.go:443-465` |
| outbox | `events`, summarizer, `droppedEvents` | `addEvent`, `addToSummary`, `getPayload`, `clear` | `outbox.go` |
| summarizer | counters per flag, context kinds, dates | `summarizeEvent`, `snapshot`, `reset` | `event_summarizer.go` |
| context key cache | map and LRU list | `add`, `clear` | `lru_cache.go` |
| event sender | none beyond one call | `SendEventDataWithRetry` | `event_sender.go`, `util.go` |
| diagnostics manager | `streamInits`, `dataSinceTime`, a lock | `RecordStreamInit`, `CreateInitEvent`, `CreateStatsEventAndReset` | `diagnostic_events.go` |
| output formatter | none | `makeOutputEvents` | `events_output.go` |
| context formatter | the lookup tree of private attributes | `WriteContext`, `makePrivateAttrLookupData` | `context_formatter.go` |
| event factory, inputs | none | constructors of inputs | `inputs.go` |
| null event processor | none | empty methods | `null_event_processor.go` |
| configuration, package info | plain data | none | `config.go`, `package_info.go` |

The application's goroutines post messages to `inboxCh`: `Record*` and `Flush` drop theirs
when it is full, `FlushBlocking` and `Close` block. One dispatcher goroutine takes messages,
results and ticks in a `select`. It hands copies of the outbox to a pool of workers through
`flushCh`, which holds one payload, and never waits for room there: a flush that finds it
full is put off, a diagnostic event discarded. Workers format and send payloads and post the
results of analytics payloads to `senderResultCh`; `workersGroup` counts the payloads on
their way, and the dispatcher waits for it before it answers a blocking call.

What is hard: the four shared objects are used by goroutines with different blocking rules;
`Add(1)` comes before the payload is accepted and has to be taken back otherwise; the
dispatcher sometimes waits where it does not receive; payloads, results and requests overtake
one another; contexts are taken for known before anything about them is sent; a request may be
processed although its response is lost; a payload takes over memory the dispatcher was using,
partly as a copy; stream initialisations are recorded by other goroutines than the one that
reports them; what is redacted depends on two lists of nested references and on the kind of event.

## Modules

| Module | Models |
|---|---|
| `LruCache` | `lru_cache.go` as operators on a sequence of keys, most recently used first |
| `LruCacheUse` | any sequence of calls of the cache, with the history of its `add` calls |
| `EventProcessing` | the dispatcher's own state, the outbox, `processEvent` |
| `EventDispatcher` | channels, callers, dispatcher, workers; extends `EventProcessing` |
| `EventDispatcherProperties` | its invariants, action and liveness properties; the refinement |
| `EventDelivery` | abstract specification: buffered, handed over, attempted, each once |
| `EventSender` | `SendEventDataWithRetry`, several calls at once, network and server |
| `EventSenderProperties` | its properties; the refinement |
| `DeliveryAttempts` | abstract specification: two copies of a payload at most, each processed at most once |
| `ContextFormatter` | `context_formatter.go` as operators: the lookup tree, the redaction of nested attributes |
| `EventSummarizer` | `event_summarizer.go` as operators on the map of counters and on the dates |
| `EventsOutput` | `EventFactory` of `inputs.go` and `events_output.go` as operators; extends the two above |
| `DiagnosticsManager` | `diagnostic_events.go` as a state machine, with its properties and the refinement |
| `DiagnosticsLog` | abstract specification: record and report, each in one step |
| `EventPayloads` | memory: the outbox's slice and map, payloads, formatting; extends `EventsOutput` and `DiagnosticsManager` |
| `EventPayloadsProperties` | its properties, reference definitions of the summary and of the redaction |
| `EventDispatcherProofs`, `EventDispatcherDeliveryProofs`, `EventDispatcherHistoryProofs` | the proofs about the dispatcher: its channels; delivery and the refinement; what the past explains |
| `EventPayloadsProofs` | the proofs about memory, the summary and the redaction |
| `LruCacheProofs`, `LruCacheUseProofs`, `EventSenderProofs`, `DiagnosticsManagerProofs` | the proofs about the cache, the sender and the diagnostics manager |
| `MCLruCache`, `MCEventDispatcher`, `MCEventSender`, `MCEventPayloads` | model values and inputs for TLC |

`EventSender` is what `SendReturns` of `EventDispatcher` abstracts: `Results` has the three
outcomes a call can have for the dispatcher (failure; success, with or without the server's
time; an unrecoverable error).

`EventDispatcher` and `EventPayloads` look at the same dispatcher from two sides. The first has
the channels, `workersGroup`, the callers, the cache and the sampler, and an event is a name. The
second has the contents of events, where they are in memory and what is written into the
request, and leaves the decisions of the first open: any of the events an input may lead to is
added or not, a flush is accepted by any holder that is free and refused whenever a payload is on
its way. `recorded` inputs, `TriggerFlush`, `HandoffAccepted` and `HandoffRefused` mean the same
in both; `HandoffAccepted` of the first is that and `Clear` of the second.

### How the state and the actions correspond to the code

*Inputs and output.* An input is a model value; `Input[e]` holds the fields `processEvent`
reads. An output event is named by its input and its kind. The summary is the set of
evaluations counted: enough to say whether it has counters and whether an evaluation is lost
or counted in two payloads. The sampler may give any answer its ratio allows
(`sampler.Sample` is external), and the client's clock any value of `ClientTimes`.

*Channels.* `inbox` is the buffer and, behind its first `Capacity` messages, the messages of
the blocked senders in the order they came, as the Go runtime queues them. A blocking send is
one step that queues the message; the sender goes on when its message has reached the buffer
(`Accepted`). Each caller is one call, so each input is recorded at most once and each caller
calls once; `Flush` may be called any number of times.

*Steps of the dispatcher.* Receiving a message and handling it is one step, as nobody else
touches what the handler touches. The exception is `triggerFlush` and `sendDiagnosticsEvent`:
`workersGroup.Add(1)` and the non-blocking send on `flushCh` are two steps (`BeginHandoff`,
then `HandoffAccepted` or `HandoffRefused`), since a worker may empty `flushCh` in between, and
so is waiting for `workersGroup`. `workersGroup.Wait()`, the closing of the two channels and
the reply are one step: after `Wait()` the workers are idle and see only closed channels. The
reply is sent when it can be (`CanReply`): the caller is receiving, or `replyCh` has a place for
it, as that of `FlushBlocking` has (`ReplyBuffer`). A caller that has timed out no longer receives.

*Steps of a worker.* Taking a payload, the return of `SendEventData`, posting the result
(blocking), `Done()`, and leaving when `flushCh` is closed.

*The sender.* A request in `network` may be handled at any later time, or never; the call gets
a response if it still waits for that attempt, or an error at any time. So a request may be
processed after its call has retried or given up. UUIDs are taken for fresh.

*Memory.* A slice is a location in `arrays` and a length, a map of counters a location in
`maps`; a payload is a record of both and of the two dates, as `flushPayload` is. `append` writes
into the array in place, `getPayload` copies the slice into a fresh array and shares the map,
`clear` overwrites the elements, keeps the array and takes a fresh map. From `HandoffAccepted` on
a worker may format the payload, so `Clear` is a step of its own; so is `TurnOff`, the other place
that calls `clear`, when a result with `MustShutDown` is read (`event_processor.go:254-260`) while
other workers may still have payloads. A fresh location is one nobody
refers to (`MemoryAssumption`: there always is one). Formatting is one step: that nobody writes
meanwhile is what `NoSharedWrites` says.

*Contexts.* An attribute reference is a path. A context has the paths of its attributes and of
what is nested in them, those whose value is an object, and its own list of private references.
The lookup tree is the set of its nodes and of those with an `attribute`. `NodeAt` is the loop of
`checkGlobalPrivateAttrRefs` as a recursive function of the round, `Outcome` the recursion of
`writeFilteredAttribute` as one of the path. `Names` are the names that occur in paths. A context in an output event is
what is written of it and `redactedAttributes`.

*Output events.* A JSON object is a record of the properties that tell who was evaluated and what
was counted; an optional property or integer is a sequence of at most one.

*The diagnostics manager.* `CreateStatsEventAndReset` is three steps (the lock, the event, the
reset), `RecordStreamInit` one, guarded by the lock. The clock ticks in between, and may be set
back at any time (`ClockSetBack`): `ldtime.UnixMillisNow` is the wall clock, and the code compares
no times. What a statistics event says of its interval is then still right for all intervals but
the one in which that happened, which is what `IntervalsFit` says. A call of `RecordStreamInit`
stands for the three values it records.

*Histories.* `recorded`, `covered`, `attempted`, `dropped`, `introducers` and `droppedReported`
are read by properties only; so are `buffered`, `counted` and `given` of `EventPayloads` and
`setBack` and `recordedAt` of `DiagnosticsManager` (the length of its `reports` also bounds their
number). `introducers` has, for each context in `userKeys`, the input that put it there; eviction
and `userKeys.clear()` remove it.

*Left out.* Logging and what only gates it (`inboxFullOnce`, `capacityExceeded`,
`loggers`); the test knobs `forceSampling`, `periodicEventGate` and
`forceDiagnosticRecordingInterval`; the `recover()` at the top of `runMainLoop`, which is not
deferred and so has no effect; `Capacity = 0`, with which the inbox is unbuffered and the
outbox drops everything. Of the output: sampling ratios, the creation dates of single events,
metric values, the data and measurements of migrations, the text of the JSON. Of diagnostics: the
ID, the platform and configuration data of the init event. `waitUntilInactive` (in the tests) is the only sender of
`syncEventsMessage` and is modelled as a caller. The five workers are a parameter, `Workers`,
and the capacity of `senderResultCh` is their number, as in the code.

## What the runs check

| Run | Question | Instance |
|---|---|---|
| `concurrency` | `TypeOK`; `workersGroup` is exact; nothing is queued or sent after the channels are closed; nothing is sent twice; a reply means that what was recorded before the call is settled; no call is forgotten, none is answered twice, and the dispatcher is never blocked by a caller that has timed out; `EventDelivery` is implemented | an evaluation and a raw event, capacities 1, 2 workers (symmetric), timed `FlushBlocking`, `Close` |
| `processing` | each context in the cache is there because the input that put it there, since it was last evicted or cleared, has its own index or identify event in the outbox, on its way, attempted or dropped, or is an identify event that may be sampled out; after an unrecoverable error nothing is buffered or offered; `EventDelivery` | one input of each of four kinds with two contexts, outbox 2, cache 1, 1 worker |
| `diagnostics` | `workersGroup` with discarded diagnostic events; no drop is reported twice; replies wait for both kinds of payload; only unread results can hold up the wait for `workersGroup` | 2 inputs, outbox 1, `waitUntilInactive`, server clock 0..1 |
| `closing` | both of two `Close` calls return, and the second is not forgotten by the shutdown of the first | 2 raw events, 2 workers, so never more results than `senderResultCh` holds |
| `draining` | a buffered item leaves the outbox, events and bare summaries alike; `FlushBlocking` returns; unless results are not read (`ResultsNotRead`) | an identify event, an evaluation of the same context and a raw event, outbox 1, 1 worker, so room for 1 result |
| `lru` | the cache holds the most recent keys in the order of their last use | 4 keys, cache 3, 6 calls |
| `sending` | IDs identify payloads; success is real; giving up comes after two attempts; calls return; `DeliveryAttempts` is implemented | 2 analytics payloads, a call of a wrong kind, one with a bad URI; statuses 202, 401, 413, 503; server clock 1..2 |
| `output` | what a worker reads stays as it was handed over; nothing it may read is written, also when the SDK is turned off; the output has every event and every count; contexts are redacted exactly; stream inits are reported once, in the right interval unless the clock was set back in it; `DiagnosticsLog` is implemented | 295 configurations and lists of calls (below), outbox 2, two payloads on their way, 3 stream inits, 2 statistics events |

`output` takes its initial states from `MCEventPayloads`. `RedactionScenarios` pairs every list of
up to two references to five paths three levels deep (and "all attributes private") with four
lists of a context's own, for a context with nested objects and one in which the same attribute
is no object, anonymous or not, and a preserialized one, each through an index, a feature and a
debug event. `SummaryScenarios` has twice three evaluations of one flag, with either of two dates,
in any order, with flushes anywhere: a variation, another version of it and the unknown flag; and
one variation twice, with different values, so that a counter reaches 2 and has to keep the value
it met first, beside another variation.
`OtherScenarios` has the other kinds of input beside an evaluation that is not summarized.
`DiagnosticsScenarios` has the manager's goroutines. `PayloadsIntact` compares the map of counters
with a definition over the whole sequence of evaluations, `RedactionExact` the recursive
function over the tree with one line of set theory: an attribute is left out if a reference is a
prefix of its path.

The bounds are chosen so that each limit is met and exceeded: an inbox of one with two events,
`Flush` and blocking senders; an outbox smaller than what one input can produce; fewer
workers than payloads; a cache smaller than the number of contexts; three index events against an
outbox of two. `MaxServerTime`, `MaxClock`, `MaxAdds`, `MaxTime` and `MaxReports` bound the counters that would otherwise grow. The dispatcher's runs say
`CHECK_DEADLOCK FALSE` because the system really stops: after `Close` the dispatcher and the
workers have left and only callers nobody answers remain. In `sending` it stops when all calls
have returned, in `output` when all calls are made and sent. A deadlock before that is what the
liveness properties of `closing` and `draining` would show, as `resultsNotDrained` does. In
`closing` there are as many places for results as payloads, so that the deadlock of
`resultsNotDrained` cannot occur and `CloseReturns` is about everything else that could go wrong.
In `draining` there are fewer, it does occur, and `FlushBlockingReturns` and `OutboxDrains` state
it as their one exception: the dispatcher waits, `senderResultCh` is full, and a worker has one more
result (`ResultsNotRead`). `lru` checks deadlock.

Four runs show where the code and what is said about it differ (`findings` in
`PROJECT.json` quotes both):

- `resultsNotDrained`: with more payloads in flight than `senderResultCh` holds, a worker
  blocks there while the dispatcher waits for the workers. `Close` then never returns. With the
  code's numbers this needs five unread results and a sixth payload; the run scales five to one.
  `FlushBlocking` without a timeout hangs in the same way (`event_processor.go:236`): `draining`
  reaches that state too, and its two properties except it and nothing else.
- `closeLosesEvents`: the flush that `Close` asks for may be refused, and what is in the
  outbox is then lost. `FlushBlocking` returns true in the same situation.
- `flushTimeout`: `FlushBlocking` with a timeout first waits without limit for room in the inbox.
- `privateShadowed`: with the private attributes `/address/street`, `/address` in this order, only
  `street` is left out of `address`. `RedactionExact` says precisely which references are without
  effect: those that come after one to something within the same attribute (`Effective`). A
  reference in the context's own list always has its effect.

Smaller differences have no run:

- A 413 does not set `MustShutDown` (`event_sender.go:100` against `:205`), and the `Date` header
  of a failed response is ignored (`:102` against `:188`).
- Two workers may post their results in the other order than the server sent its responses, and
  `lastKnownPastTime` goes back (`event_processor.go:262` against the comment at `:379-382`).
- An identify event that is sampled out suppresses the index event of its context
  (`event_processor.go:357` against the comment at `:354-355`). `KnownContextExplained` allows
  this, and that very event's being dropped at capacity, for the input that put the context in the
  cache, and nothing for any other input.

### Fairness

`FairSpec` of the dispatcher assumes that goroutines that can run do run: weak fairness of each
worker and of each call that has begun. `select` picks at random among ready cases, so a case
ready again and again is taken: strong fairness of receiving a message, of receiving a result and
of the flush tick. No fairness is assumed of the application, of the other tickers or of the
server's clock. `SendReturns` and the sender's `FairSpec` assume that `client.Do` returns some
day; `http.DefaultClient` has no timeout of its own.

## What is proved

All theorems hold for every value of the constants that satisfies the modules' assumptions:
any inputs, any capacities (at least 1 for the outbox), any finite non-empty set of workers, any
set of callers.

- `EventDispatcherProofs`: `SafetyInvariant` is inductive. It is the conjunction of `TypeOK`,
  `WorkersGroupExact`, `ShutdownQuiescent`, `DisabledStaysQuiet` and two facts none of them
  follows from alone. `PendingOnlyInHandoff`: a payload waits to be handed over only while the
  dispatcher is at that step, without which `DisabledStaysQuiet` would not survive the
  handling of a result. `RepliesHaveCallers`: who waits for a reply is a caller, which `TypeOK`
  needs for `replies`. Shutdown closes the channels when `workersGroup` is 0, and
  `WorkersGroupExact` turns this into "no payload queued, no worker busy". There is one lemma
  per goroutine, and one for each group of the dispatcher's cases. `TypeCorrect`,
  `WorkersGroupIsExact`, `ShutdownIsQuiescent` and `DisabledIsQuiet` follow. So does
  `WaitIsBlockedByResultsOnly`, with `WorkersStay`: a worker leaves only when the channels are
  closed. While the dispatcher waits and the count is positive, `WorkersGroupExact` finds a payload
  queued or with a worker, and a worker that is not blocked can take or finish it; only a full
  `senderResultCh` blocks one. `ResultsStayUnread` says that this state is never left: what the
  liveness properties except is a deadlock, not a delay.
- `EventDispatcherDeliveryProofs`: `NothingIsSentTwice` and `ImplementsDelivery`, the refinement.
  `DeliveryInvariant` adds two facts to `NothingSentTwice`. `InboxIsFresh`: an input is in the
  inbox once, and nothing made from it is anywhere yet, so that what `processEvent` adds is new.
  `PendingIsOutbox`: what is offered to the workers is still what the outbox holds, so that the
  payload a worker takes is what `clear` empties. One lemma for each kind of step shows that it
  preserves the invariant and is a step of `EventDelivery`, or a stutter, under the mapping of
  `EventDispatcherProperties`.
- `EventDispatcherHistoryProofs`: `RepliesMeanSettled`, from `SettlingInvariant`: the events
  recorded before a blocking call are ahead of its message in the inbox, and out of it once the
  message is handled, and the wait for `workersGroup` is then a wait for them.
  `KnownContextsAreExplained`: a key gets into the cache only in `ProcessContextEvent`, which makes
  its input the introducer; each answer of the sampler and of the outbox leaves one of the
  reasons for that input; and by `ImplementsDelivery` an event that is in the outbox, on its way or
  attempted stays one of these (`ReasonsStay`). `NoDropIsReportedTwice`, from
  `DropsInvariant`: the reported numbers, those on their way and `droppedEvents` are together at
  most the number of output events ever dropped (`DroppedOnce`: each was dropped once, after its
  input left the inbox). The sums over payloads are the library's `SumFunction`; `SumIsSize`
  turns a sum of natural numbers into the size of a finite set. `NoCallIsForgotten` and
  `RepliesFindTheirReaders` share `AnsweringInvariant`: a caller has at most one message in the
  inbox or being handled, and only before its reply (`OneRequest`); at most one call of `Close` is
  past `closeOnce`, and none returns before it (`OneShutdown`). Each step of a caller, of `receive`
  and of the reply then concerns one call, and no other loses its message or its reply. Together with
  `WaitIsBlockedByResultsOnly` this says where a blocking call can be stuck: behind messages still
  in the inbox, or behind results that nobody reads.
- `LruCacheProofs`: `add` returns a cache (no duplicates, within the capacity) that holds the
  value. `EventDispatcherProofs` cites it for `TypeOK`.
- `LruCacheUseProofs`: `CacheIsLRU`, the order of the cache after any sequence of calls, from
  `TypeOK` and `MostRecentFirst`, which are inductive together.
- `EventSenderProofs`: `SenderInvariant` is inductive, for any calls, IDs, kinds and statuses.
  `IDsIdentifyPayloads` is about requests the server has processed, so the invariant has to
  follow an ID from its choice (`IDsAreFresh`: no other call has it) through the network
  (`RequestsCarryIDs`: whatever is under way carries the ID of its call, and no call changes its
  ID once it has one). `SuccessMeansAccepted` needs the state before the return, when the
  response is in hand (`SuccessIsReal`), and `GivenUpAfterRetry` the count of attempts at each
  state (`AttemptsCounted`). One lemma per action; `IDsIdentify`, `SuccessIsAccepted` and
  `TwoAttemptsBeforeGivingUp` follow. `ImplementsAttempts` is the refinement to `DeliveryAttempts`,
  with `attempt` for the copies, the attempts in `accepted` for what was processed and the result
  of a call that has returned for its outcome. That the server processes no copy twice needs
  `RequestsAreAttempts`: requests in the network and processed ones are different attempts of
  their calls.
- `DiagnosticsManagerProofs`: `ManagerInvariant` is inductive. `StreamInitsReportedOnce` and
  `IntervalsFit` are about the list and the events already made, so the invariant has to describe
  the event between its making and the reset (`EventIsOfTheList`: it is about the list as it
  still is, which only the lock guarantees), the list since the last event
  (`ListIsSinceLastEvent`), and the clock, which is not behind the current interval unless it was
  set back in it (`NothingFromTheFuture`). From `EventIsOfTheList` follows also that `ResetStats` is the step of
  `DiagnosticsLog` that reports, and the two steps before it are stutters (`LogNext`).
- `EventPayloadsProofs`, in four parts, each resting on the one before it.
  - *Memory.* `PayloadsInvariant` is inductive. `NoSharedWrites` follows from `OwnMemory`, which
    says whose array and whose map is whose: the outbox never shares its array with a payload,
    and its map only between the handoff and the clear, when the dispatcher does not write into
    it. `MemoryAssumption` is used only to allocate. The manager is a part of this specification
    (`ManagerIsSeparate`), so `StreamInitsAreReportedOnce`, `IntervalsAreRight` and the
    refinement `ManagerIsAtomic` hold of the whole.
  - *Contents.* `PayloadsAreIntact`, from `IntactInvariant`: what is offered has the content of
    the outbox, and what was counted are inputs of `processEvent`. The map of counters is compared
    with a definition over the whole sequence of evaluations, so the proof has to show that
    `CountedIn` and `DatesWith` add one evaluation to that definition (`FlagsAdd`, `DatesAdd`):
    sizes of sets of positions grow by one, first positions stay first. `DatesAdd` needs
    `ClockAssumption`, since `summarizeEvent` takes a start date of 0 for none.
  - *Output.* `OutputInvariant`: what a worker has formatted is made from the payload as it was
    taken. `OutputIsComplete` follows from what `MakeOutputEvents` returns and from the counter
    the summary has for each evaluation.
  - *Redaction.* `RedactionIsExact`, for any list of references of any depth and any contexts.
    `LookupDataIsTree` gives the tree in closed form: its nodes are the prefixes of the references,
    and a reference is marked if no earlier one has made its node. `NodeAtFinds`: the search ends
    at the node of a path, if there is one, provided that nothing above it is marked
    (`NothingAbove`); the search stops short at nodes without children, which are marked ones
    (`UnmarkedHasChildren`). `OutcomeExists` gives the recursion of `writeFilteredAttribute` a
    solution, and `OutcomeMeans` says what it decides: a path is written if no private reference is
    a prefix of it, and named if moreover what it is in is written. `EffectiveAreMarked` connects
    the tree with `Effective`, in the terms of the property.

The assumptions are type facts about the constants, and three more. `MemoryAssumption`: an
allocation never fails. `ClockAssumption`: the clock does not show 0, the first millisecond of
1970. `PayloadsAssumption` includes that a context's nested properties lie in its objects
(`IsContext`), which is so for any JSON value. TLC evaluates them in the runs.

Sums, minima, folds and recursive functions over the data are reasoned about without the
library's induction theorems: a set of counterexamples would have a smallest member, by
`WFMin` over the finite subsets of a set (`LookupDataIsTree`, `SumIsSize`) or by `LeastOfNumbers`
over lengths (`NodeAtFinds`, `OutcomeMeans`), and the recursion leads from it to a smaller one.

Only model-checked: liveness (`CloseReturns`, `FlushBlockingReturns`, `OutboxDrains`,
`CallsReturn`), since the prover does not reason about fairness. Every invariant, action property
and refinement that a passing run checks is a theorem. What the four runs with an expected
violation show are counterexamples and need no proof.

## Not modelled, and the plan

Not modelled: contexts with an error, for which the output depends on what `jwriter` does after
`AddError`; the JSON text; `null_event_processor.go`, which does nothing; `config.go` and
`package_info.go`, which are data; and what "Left out" above lists.

What lies under the liveness properties without being liveness is proved: where a blocking call
can be stuck (above), and that a call of the sender has at most two attempts before it. That these
calls do go on is left to TLC. The link between the two views of the dispatcher, and that
`SendReturns` allows every outcome of a call of `EventSender`, are stated above in words only.
