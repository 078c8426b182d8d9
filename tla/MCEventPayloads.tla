--------------------------- MODULE MCEventPayloads --------------------------
(***************************************************************************)
(* Instances of EventPayloads for TLC.                                     *)
(***************************************************************************)
EXTENDS EventPayloadsProperties

A == <<"address">>
AS == <<"address", "street">>
ASN == <<"address", "street", "number">>
AC == <<"address", "city">>
N == <<"name">>
Paths == {A, AS, ASN, AC, N}

\* A context with attributes nested twice, and one where address is not an object.
Nested(private, anonymous) ==
  [kind |-> "user", key |-> "u", anonymous |-> anonymous, attrs |-> Paths, objects |-> {A, AS},
   private |-> private]
Flat(private, anonymous) ==
  [kind |-> "org", key |-> "o", anonymous |-> anonymous, attrs |-> {A, N}, objects |-> {},
   private |-> private]

Plain(contexts) == [contexts |-> contexts, preserialized |-> FALSE]

Config(refs) ==
  [allAttributesPrivate |-> FALSE, privateAttributes |-> refs, includeReasons |-> FALSE,
   diagnostics |-> FALSE]
AllPrivate == [Config(<< >>) EXCEPT !.allAttributesPrivate = TRUE]

Evaluation(context, variation, value) ==
  [kind |-> "evaluation", context |-> context, key |-> "flag", version |-> 1,
   variation |-> variation, value |-> value, default |-> "off", isExperiment |-> FALSE,
   requireFullEvent |-> FALSE, debugged |-> FALSE, excludeFromSummaries |-> FALSE]

\* One evaluation that leads to an index, a feature and a debug event.
FullEvaluation(context) ==
  [Evaluation(context, <<0>>, "on") EXCEPT !.isExperiment = TRUE, !.debugged = TRUE]

\* Every list of up to two references in the configuration, against contexts with
\* none, one or two of their own, in either order, anonymous or not.
OwnLists == {<< >>, <<AS>>, <<AS, A>>, <<ASN, N>>}
RedactionScenarios ==
  {[config |-> config, calls |-> (1 :> FullEvaluation(context))] :
     config \in {Config(refs) : refs \in BoundedSeq(Paths, 2)} \cup {AllPrivate},
     context \in {Plain({Nested(own, anonymous), Flat(own, ~anonymous)})
                    : own \in OwnLists, anonymous \in BOOLEAN}
                 \cup {[Plain({Nested(<<N>>, FALSE)}) EXCEPT !.preserialized = TRUE]}}

\* Evaluations of one flag that differ in one thing each; and three of which two have
\* the counter in common, with different values.
SummaryScenarios ==
  {[config |-> Config(<< >>),
    calls  |-> (1 :> Evaluation(Plain({Flat(<< >>, FALSE)}), <<0>>, "on"))
               @@ (2 :> Evaluation(Plain({Flat(<< >>, FALSE)}), <<0>>, "other"))
               @@ (3 :> Evaluation(Plain({Flat(<< >>, FALSE)}), <<1>>, "off"))],
   [config |-> Config(<<AC>>),
    calls  |-> (1 :> Evaluation(Plain({Nested(<< >>, FALSE)}), <<0>>, "on"))
               @@ (2 :> [Evaluation(Plain({Flat(<< >>, FALSE)}), <<0>>, "on") EXCEPT !.version = 2])
               @@ (3 :> [kind |-> "unknownFlag", context |-> Plain({Flat(<< >>, TRUE)}),
                         key |-> "flag", default |-> "none"])]}

\* Other kinds of input beside an evaluation that is not summarized.
OtherScenarios ==
  {[config |-> Config(<< >>),
    calls  |-> (1 :> [FullEvaluation(Plain({Flat(<< >>, FALSE)})) EXCEPT !.excludeFromSummaries = TRUE])
               @@ (2 :> [kind |-> k, context |-> Plain({Nested(<< >>, FALSE)})])]
     : k \in {"identify", "custom", "migration", "raw"}}

DiagnosticsScenarios == {[config |-> [Config(<< >>) EXCEPT !.diagnostics = TRUE], calls |-> << >>]}

AllScenarios == RedactionScenarios \cup SummaryScenarios \cup OtherScenarios \cup DiagnosticsScenarios
=============================================================================
