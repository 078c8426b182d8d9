--------------------------- MODULE EventSummarizer --------------------------
(***************************************************************************)
(* The summary of evaluations (event_summarizer.go).  An optional integer  *)
(* is a sequence of at most one.  flags maps a flag key to its counters,   *)
(* one for each variation and version; the two dates are separate fields,  *)
(* which a snapshot copies while it shares the map.                        *)
(***************************************************************************)
EXTENDS Naturals, SequencesExt

NoFlags == [k \in {} |-> {}]
NoDates == [startDate |-> 0, endDate |-> 0]

HasCounters(flags) == DOMAIN flags # {}

\* m with the value v for k, which m may have had before.
Put(m, k, v) == [j \in DOMAIN m \cup {k} |-> IF j = k THEN v ELSE m[j]]

\* The counters are kept apart by variation and version.  (Faulty: by variation.)
VariationOnly(ed) == <<ed.variation, <<>>>>
CounterKey(ed) == <<ed.variation, ed.version>>

NewFlagSummary(ed) == [counters |-> NoFlags, contextKinds |-> {}, defaultValue |-> ed.default]

\* summarizeEvent, as far as the map is concerned.
CountedIn(flags, ed) ==
  LET flag    == IF ed.key \in DOMAIN flags THEN flags[ed.key] ELSE NewFlagSummary(ed)
      key     == CounterKey(ed)
      counter == IF key \in DOMAIN flag.counters
                 THEN [flag.counters[key] EXCEPT !.count = @ + 1]
                 ELSE [count |-> 1, flagValue |-> ed.value]
  IN  Put(flags, ed.key,
          [counters     |-> Put(flag.counters, key, counter),
           contextKinds |-> flag.contextKinds \cup {c.kind : c \in ed.context.contexts},
           defaultValue |-> flag.defaultValue])

\* And as far as the dates are: 0 is no start date.
DatesWith(dates, date) ==
  [startDate |-> IF dates.startDate = 0 \/ date < dates.startDate THEN date ELSE dates.startDate,
   endDate   |-> IF date > dates.endDate THEN date ELSE dates.endDate]
=============================================================================
