-------------------------- MODULE MCEventDispatcher -------------------------
(***************************************************************************)
(* Instances of EventDispatcher for TLC.                                   *)
(***************************************************************************)
EXTENDS EventDispatcherProperties, TLC

CONSTANTS e1, e2, e3, e4, ctx1, ctx2, w1, w2

\* An input with every option off and the default sampling ratio.
Base(kind, context) ==
  [kind |-> kind, context |-> context, requireFullEvent |-> FALSE,
   excludeFromSummaries |-> FALSE, debugEventsUntilDate |-> 0, samplingRatio |-> 1,
   forceSampling |-> FALSE]

\* The concurrency runs use inputs that go straight to the outbox.
RawInput == [e \in Events |-> Base("raw", ctx1)]

\* An evaluation, summarized and indexed, and raw events.
MixedInput ==
  [e \in Events |-> IF e = e1 THEN Base("evaluation", ctx1) ELSE Base("raw", ctx1)]

\* An identify event and an evaluation of one context, which is summarized only if it
\* comes later, and a raw event.
DrainedInput ==
  [e \in Events |-> CASE e = e1 -> Base("identify", ctx1)
                      [] e = e2 -> Base("evaluation", ctx1)
                      [] OTHER  -> Base("raw", ctx1)]

\* One input of each kind that processEvent tells apart: an evaluation with a full
\* event and debugging until 1, an identify event that may be sampled out, a custom
\* event of another context and a migration operation that may be sampled out.
RichInput ==
  [e \in Events |->
     CASE e = e1 -> [Base("evaluation", ctx1) EXCEPT !.requireFullEvent = TRUE,
                                                     !.debugEventsUntilDate = 1]
       [] e = e2 -> [Base("identify", ctx1) EXCEPT !.samplingRatio = 2]
       [] e = e3 -> Base("custom", ctx2)
       [] OTHER  -> [Base("migration", ctx1) EXCEPT !.samplingRatio = 0, !.forceSampling = TRUE]]

Symmetry == Permutations(Workers)
=============================================================================
