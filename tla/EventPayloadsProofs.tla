------------------------ MODULE EventPayloadsProofs -------------------------
(***************************************************************************)
(* For any configuration, calls, capacity, number of holders and memory    *)
(* that does not run out: who may write where; that a payload stays what   *)
(* it was when it was taken; that all of it is sent, without exactly what  *)
(* is private; and the diagnostics manager as a part of the whole.         *)
(***************************************************************************)
EXTENDS EventPayloadsProperties, DiagnosticsManagerProofs, FiniteSetTheorems,
        WellFoundedInduction
-----------------------------------------------------------------------------
(* What has been summarized.                                               *)

\* A finite set of numbers, unless it is empty, has a smallest and a largest member.
LEMMA SmallestAndLargest ==
  ASSUME NEW S \in SUBSET Nat, IsFiniteSet(S), S # {}
  PROVE  /\ Min(S) \in S /\ \A y \in S : Min(S) <= y
         /\ Max(S) \in S /\ \A y \in S : y <= Max(S)
<1> DEFINE HasBoth(T) == \E x, z \in T : \A y \in T : x <= y /\ y <= z
           bad == {T \in SUBSET S : T # {} /\ ~HasBoth(T)}
<1>1. SUFFICES ASSUME bad # {} PROVE FALSE
  <2>1. bad = {}
    BY <1>1
  <2>2. PICK x \in S, z \in S : \A y \in S : x <= y /\ y <= z
    BY <2>1
  <2>3. Min(S) \in S /\ \A y \in S : Min(S) <= y
    BY <2>2 DEF Min
  <2>4. Max(S) \in S /\ \A y \in S : Max(S) >= y
    BY <2>2 DEF Max
  <2> QED
    BY <2>3, <2>4
<1>2. IsWellFoundedOn(StrictSubsetOrdering(S), SUBSET S)
  BY FS_StrictSubsetOrderingWellFounded, FS_FiniteSubsetsOfFinite
<1>3. PICK T \in bad : \A U \in bad : <<U, T>> \notin StrictSubsetOrdering(S)
  <2>1. bad \subseteq SUBSET S
    OBVIOUS
  <2> HIDE DEF bad
  <2> QED
    BY <1>1, <1>2, <2>1, WFMin
<1>4. PICK a \in T : TRUE
  BY <1>3
<1> DEFINE U == T \ {a}
<1>5. U \notin bad
  BY <1>3, <1>4 DEF StrictSubsetOrdering
<1>6. CASE U = {}
  BY <1>3, <1>4, <1>6
<1>7. CASE U # {}
  <2>1. PICK x \in U, z \in U : \A y \in U : x <= y /\ y <= z
    BY <1>3, <1>5, <1>7
  <2>2. \A y \in T : y \in Nat /\ (y \in U \/ y = a)
    BY <1>3
  <2>3. a \in Nat /\ x \in Nat /\ z \in Nat /\ a \in T /\ x \in T /\ z \in T
    BY <1>4, <2>1, <2>2
  <2>4. \E u \in {x, a} : \A y \in T : u <= y
    <3>1. CASE x <= a
      BY <2>1, <2>2, <3>1
    <3>2. CASE ~(x <= a)
      <4>1. \A y \in T : a <= y
        BY <2>1, <2>2, <2>3, <3>2
      <4> QED
        BY <4>1
    <3> QED
      BY <3>1, <3>2
  <2>5. \E v \in {z, a} : \A y \in T : y <= v
    <3>1. CASE a <= z
      BY <2>1, <2>2, <3>1
    <3>2. CASE ~(a <= z)
      <4>1. \A y \in T : y <= a
        BY <2>1, <2>2, <2>3, <3>2
      <4> QED
        BY <4>1
    <3> QED
      BY <3>1, <3>2
  <2>6. HasBoth(T)
    BY <2>3, <2>4, <2>5
  <2> QED
    BY <1>3, <2>6
<1> QED
  BY <1>6, <1>7

\* One member more.
LEMMA SmallestAndLargestWith ==
  ASSUME NEW S \in SUBSET Nat, IsFiniteSet(S), NEW x \in Nat
  PROVE  /\ S = {} => Min(S \cup {x}) = x /\ Max(S \cup {x}) = x
         /\ S # {} => /\ Min(S \cup {x}) = IF x < Min(S) THEN x ELSE Min(S)
                      /\ Max(S \cup {x}) = IF x > Max(S) THEN x ELSE Max(S)
<1> DEFINE T == S \cup {x}
<1>1. T \in SUBSET Nat /\ IsFiniteSet(T) /\ T # {}
  BY FS_AddElement
<1>2. /\ Min(T) \in T /\ \A y \in T : Min(T) <= y
      /\ Max(T) \in T /\ \A y \in T : y <= Max(T)
  <2> HIDE DEF T
  <2> QED
    BY <1>1, SmallestAndLargest
<1>3. CASE S = {}
  BY <1>2, <1>3
<1>4. CASE S # {}
  <2>1. /\ Min(S) \in S /\ \A y \in S : Min(S) <= y
        /\ Max(S) \in S /\ \A y \in S : y <= Max(S)
    BY <1>4, SmallestAndLargest
  <2>2. Min(T) \in Nat /\ Max(T) \in Nat /\ Min(S) \in Nat /\ Max(S) \in Nat
    BY <1>1, <1>2, <2>1
  <2>3. Min(T) = IF x < Min(S) THEN x ELSE Min(S)
    BY <1>2, <2>1, <2>2
  <2>4. Max(T) = IF x > Max(S) THEN x ELSE Max(S)
    BY <1>2, <2>1, <2>2
  <2> QED
    BY <1>4, <2>3, <2>4
<1> QED
  BY <1>3, <1>4

\* The evaluations s with one more, ed.
OneMore(X, s, t, ed) == s \in Seq(X) /\ ed \in X /\ t = Append(s, ed)

\* It comes last, and the others stay where they are.
LEMMA OneMoreElements ==
  ASSUME NEW X, NEW s, NEW t, NEW ed, OneMore(X, s, t, ed)
  PROVE  /\ Len(s) \in Nat /\ DOMAIN s = 1 .. Len(s) /\ IsFiniteSet(DOMAIN s)
         /\ DOMAIN t = DOMAIN s \cup {Len(s) + 1} /\ Len(s) + 1 \notin DOMAIN s
         /\ t[Len(s) + 1] = ed
         /\ \A i \in DOMAIN s : t[i] = s[i] /\ i < Len(s) + 1
<1>1. /\ Len(s) \in Nat /\ DOMAIN s = 1 .. Len(s) /\ DOMAIN t = DOMAIN s \cup {Len(s) + 1}
      /\ Len(s) + 1 \notin DOMAIN s /\ t[Len(s) + 1] = ed
      /\ \A i \in DOMAIN s : t[i] = s[i] /\ i < Len(s) + 1
  BY DEF OneMore
<1>2. IsFiniteSet(1 .. Len(s))
  BY <1>1, FS_Interval
<1> QED
  BY <1>1, <1>2

\* The dates of the summary are the first and the last one.
LEMMA DatesAdd ==
  ASSUME NEW X, NEW s, NEW t, NEW ed, OneMore(X, s, t, ed),
         \A x \in X : x.creationDate \in Nat \ {0}
  PROVE  DatesOf(t) = DatesWith(DatesOf(s), ed.creationDate)
<1>0. /\ Len(s) \in Nat /\ DOMAIN s = 1 .. Len(s) /\ IsFiniteSet(DOMAIN s)
      /\ DOMAIN t = DOMAIN s \cup {Len(s) + 1} /\ Len(s) + 1 \notin DOMAIN s
      /\ t[Len(s) + 1] = ed
      /\ \A i \in DOMAIN s : t[i] = s[i] /\ i < Len(s) + 1
  BY OneMoreElements
<1> DEFINE D == {s[i].creationDate : i \in DOMAIN s}
           E == {t[i].creationDate : i \in DOMAIN t}
           d == ed.creationDate
<1>1. E = D \cup {d}
  BY <1>0
<1>2. D \in SUBSET Nat /\ 0 \notin D /\ d \in Nat \ {0}
  <2>1. \A i \in DOMAIN s : s[i] \in X
    BY DEF OneMore
  <2> QED
    BY <2>1 DEF OneMore
<1>3. IsFiniteSet(D)
  <2> DEFINE g == [i \in DOMAIN s |-> s[i].creationDate]
  <2>1. g \in Surjection(DOMAIN s, D)
    BY DEF Surjection
  <2> QED
    BY <1>0, <2>1, FS_Surjection
<1>4. DatesOf(s) = IF D = {} THEN NoDates ELSE [startDate |-> Min(D), endDate |-> Max(D)]
  BY DEF DatesOf
<1>5. DatesOf(t) = [startDate |-> Min(D \cup {d}), endDate |-> Max(D \cup {d})]
  BY <1>1 DEF DatesOf
<1> HIDE DEF D, d
<1>6. CASE D = {}
  <2>1. Min(D \cup {d}) = d /\ Max(D \cup {d}) = d
    BY <1>2, <1>3, <1>6, SmallestAndLargestWith
  <2> QED
    BY <1>2, <1>4, <1>5, <1>6, <2>1 DEF DatesWith, NoDates, d
<1>7. CASE D # {}
  <2>1. /\ Min(D \cup {d}) = IF d < Min(D) THEN d ELSE Min(D)
        /\ Max(D \cup {d}) = IF d > Max(D) THEN d ELSE Max(D)
    BY <1>2, <1>3, <1>7, SmallestAndLargestWith
  <2>2. Min(D) # 0
    BY <1>2, <1>3, <1>7, SmallestAndLargest
  <2> DEFINE dates == [startDate |-> Min(D), endDate |-> Max(D)]
  <2>3. DatesWith(dates, d) = [startDate |-> IF d < Min(D) THEN d ELSE Min(D),
                               endDate   |-> IF d > Max(D) THEN d ELSE Max(D)]
    <3>1. dates.startDate = Min(D) /\ dates.endDate = Max(D)
      OBVIOUS
    <3> HIDE DEF dates
    <3> QED
      BY <2>2, <3>1 DEF DatesWith
  <2>4. DatesOf(s) = dates
    BY <1>4, <1>7
  <2> QED
    BY <1>5, <2>1, <2>3, <2>4 DEF d
<1> QED
  BY <1>6, <1>7

\* The evaluations of a flag are those before and perhaps the new one.
LEMMA OneMoreOfFlag ==
  ASSUME NEW X, NEW s, NEW t, NEW ed, OneMore(X, s, t, ed), NEW k
  PROVE  /\ OfFlag(t, k) = OfFlag(s, k) \cup (IF ed.key = k THEN {Len(s) + 1} ELSE {})
         /\ OfFlag(s, k) \subseteq DOMAIN s
<1>1. /\ Len(s) \in Nat /\ DOMAIN s = 1 .. Len(s) /\ IsFiniteSet(DOMAIN s)
      /\ DOMAIN t = DOMAIN s \cup {Len(s) + 1} /\ Len(s) + 1 \notin DOMAIN s
      /\ t[Len(s) + 1] = ed
      /\ \A i \in DOMAIN s : t[i] = s[i] /\ i < Len(s) + 1
  BY OneMoreElements
<1> QED
  BY <1>1 DEF OfFlag

\* The evaluations of a counter are those before and perhaps the new one.
LEMMA OneMoreOfCounter ==
  ASSUME NEW X, NEW s, NEW t, NEW ed, OneMore(X, s, t, ed), NEW k, NEW key
  PROVE  /\ OfCounter(t, k, key) =
              OfCounter(s, k, key)
                \cup (IF ed.key = k /\ CounterKey(ed) = key THEN {Len(s) + 1} ELSE {})
         /\ OfCounter(s, k, key) \subseteq OfFlag(s, k)
<1>1. /\ Len(s) \in Nat /\ DOMAIN s = 1 .. Len(s) /\ IsFiniteSet(DOMAIN s)
      /\ DOMAIN t = DOMAIN s \cup {Len(s) + 1} /\ Len(s) + 1 \notin DOMAIN s
      /\ t[Len(s) + 1] = ed
      /\ \A i \in DOMAIN s : t[i] = s[i] /\ i < Len(s) + 1
  BY OneMoreElements
<1>2. OfFlag(t, k) = OfFlag(s, k) \cup (IF ed.key = k THEN {Len(s) + 1} ELSE {})
  BY OneMoreOfFlag
<1>3. OfFlag(s, k) \subseteq DOMAIN s
  BY DEF OfFlag
<1>4. /\ OfCounter(s, k, key) =
           {i \in OfFlag(s, k) : <<s[i].variation, s[i].version>> = key}
      /\ OfCounter(t, k, key) =
           {i \in OfFlag(t, k) : <<t[i].variation, t[i].version>> = key}
      /\ CounterKey(ed) = <<ed.variation, ed.version>>
  BY DEF OfCounter, CounterKey
<1> QED
  BY <1>1, <1>2, <1>3, <1>4

\* The first of a set of evaluations stays the first.
LEMMA FirstStays ==
  ASSUME NEW S \in SUBSET Nat, IsFiniteSet(S), NEW n \in Nat, \A i \in S : i < n
  PROVE  Min(S \cup {n}) = (IF S = {} THEN n ELSE Min(S)) /\ (S # {} => Min(S) \in S)
<1>1. CASE S = {}
  BY <1>1, SmallestAndLargestWith
<1>2. CASE S # {}
  <2>1. Min(S) \in S
    BY <1>2, SmallestAndLargest
  <2>2. Min(S \cup {n}) = IF n < Min(S) THEN n ELSE Min(S)
    BY <1>2, SmallestAndLargestWith
  <2>3. ~(n < Min(S))
    <3>1. Min(S) \in Nat /\ Min(S) < n
      BY <2>1
    <3> QED
      BY <3>1
  <2> QED
    BY <1>2, <2>1, <2>2, <2>3
<1> QED
  BY <1>1, <1>2

\* The parts of FlagsOf for one flag.
CountersOf(s, k) ==
  [key \in {<<s[i].variation, s[i].version>> : i \in OfFlag(s, k)} |->
     [count     |-> Cardinality(OfCounter(s, k, key)),
      flagValue |-> s[Min(OfCounter(s, k, key))].value]]
KindsOf(s, k) == {c.kind : c \in UNION {s[i].context.contexts : i \in OfFlag(s, k)}}
FlagOf(s, k) ==
  [counters |-> CountersOf(s, k), contextKinds |-> KindsOf(s, k),
   defaultValue |-> s[Min(OfFlag(s, k))].default]

\* The map of counters has a flag if there is an evaluation of it.
LEMMA FlagsOfParts ==
  ASSUME NEW s
  PROVE  /\ FlagsOf(s) = [k \in DOMAIN FlagsOf(s) |-> FlagOf(s, k)]
         /\ \A k : k \in DOMAIN FlagsOf(s) <=> OfFlag(s, k) # {}
<1>1. FlagsOf(s) = [k \in {s[i].key : i \in DOMAIN s} |-> FlagOf(s, k)]
  BY DEF FlagsOf, FlagOf, CountersOf, KindsOf
<1>2. \A k : k \in {s[i].key : i \in DOMAIN s} <=> OfFlag(s, k) # {}
  BY DEF OfFlag
<1> QED
  BY <1>1, <1>2

\* The counters of the flag that is evaluated: one of them counts one more.
LEMMA CountersAdd ==
  ASSUME NEW X, NEW s, NEW t, NEW ed, OneMore(X, s, t, ed)
  PROVE  LET k       == ed.key
             key     == CounterKey(ed)
             counter == IF key \in DOMAIN CountersOf(s, k)
                        THEN [CountersOf(s, k)[key] EXCEPT !.count = @ + 1]
                        ELSE [count |-> 1, flagValue |-> ed.value]
         IN  CountersOf(t, k) = Put(CountersOf(s, k), key, counter)
<1> DEFINE k == ed.key
           key == CounterKey(ed)
           n == Len(s) + 1
           old == CountersOf(s, k)
           new == CountersOf(t, k)
           counter == IF key \in DOMAIN old THEN [old[key] EXCEPT !.count = @ + 1]
                      ELSE [count |-> 1, flagValue |-> ed.value]
<1>1. /\ Len(s) \in Nat /\ DOMAIN s = 1 .. Len(s) /\ IsFiniteSet(DOMAIN s)
      /\ DOMAIN t = DOMAIN s \cup {Len(s) + 1} /\ Len(s) + 1 \notin DOMAIN s
      /\ t[Len(s) + 1] = ed
      /\ \A i \in DOMAIN s : t[i] = s[i] /\ i < Len(s) + 1
  BY OneMoreElements
<1>2. OfFlag(t, k) = OfFlag(s, k) \cup {n} /\ OfFlag(s, k) \subseteq DOMAIN s
  BY OneMoreOfFlag
<1>3. ASSUME NEW q
      PROVE  /\ OfCounter(t, k, q) = OfCounter(s, k, q) \cup (IF key = q THEN {n} ELSE {})
             /\ OfCounter(s, k, q) \subseteq DOMAIN s /\ IsFiniteSet(OfCounter(s, k, q))
             /\ OfCounter(s, k, q) \in SUBSET Nat
  <2>1. /\ OfCounter(t, k, q) = OfCounter(s, k, q) \cup (IF key = q THEN {n} ELSE {})
        /\ OfCounter(s, k, q) \subseteq DOMAIN s
    BY <1>2, OneMoreOfCounter
  <2> QED
    BY <1>1, <2>1, FS_Subset
<1>4. /\ DOMAIN old = {<<s[i].variation, s[i].version>> : i \in OfFlag(s, k)}
      /\ DOMAIN new = {<<t[i].variation, t[i].version>> : i \in OfFlag(t, k)}
      /\ key = <<t[n].variation, t[n].version>>
  BY <1>1 DEF CountersOf, CounterKey
<1>5. DOMAIN new = DOMAIN old \cup {key}
  BY <1>1, <1>2, <1>4
<1>6. \A q : q \in DOMAIN old <=> OfCounter(s, k, q) # {}
  BY <1>4 DEF OfCounter
<1>7. \A q \in DOMAIN old : old[q] = [count |-> Cardinality(OfCounter(s, k, q)),
                                      flagValue |-> s[Min(OfCounter(s, k, q))].value]
  BY DEF CountersOf
<1>8. \A q \in DOMAIN new : new[q] = [count |-> Cardinality(OfCounter(t, k, q)),
                                      flagValue |-> t[Min(OfCounter(t, k, q))].value]
  BY DEF CountersOf
<1>9. new = [q \in DOMAIN new |-> new[q]]
  BY DEF CountersOf
<1> HIDE DEF old, new, k, key, n
<1>10. ASSUME NEW q \in DOMAIN old, q # key PROVE new[q] = old[q]
  <2> DEFINE C == OfCounter(s, k, q)
  <2>1. OfCounter(t, k, q) = C /\ C # {} /\ C \subseteq DOMAIN s
    BY <1>3, <1>6, <1>10
  <2>2. Min(C) \in C
    BY <1>3, <2>1, SmallestAndLargest
  <2>3. t[Min(C)] = s[Min(C)]
    BY <1>1, <2>1, <2>2
  <2> QED
    BY <1>5, <1>7, <1>8, <2>1, <2>3
<1>11. new[key] = counter
  <2> DEFINE C == OfCounter(s, k, key)
  <2>1. /\ OfCounter(t, k, key) = C \cup {n} /\ C \subseteq DOMAIN s /\ IsFiniteSet(C)
        /\ C \in SUBSET Nat /\ n \notin C /\ n \in Nat /\ (\A i \in C : i < n)
    BY <1>1, <1>3 DEF n
  <2>2. /\ Cardinality(C \cup {n}) = Cardinality(C) + 1
        /\ Cardinality(C) \in Nat /\ (C = {} => Cardinality(C) = 0)
    <3> HIDE DEF C
    <3> QED
      BY <2>1, FS_AddElement, FS_EmptySet, FS_CardinalityType
  <2>3. Min(C \cup {n}) = (IF C = {} THEN n ELSE Min(C)) /\ (C # {} => Min(C) \in C)
    <3> HIDE DEF C
    <3> QED
      BY <2>1, FirstStays
  <2>4. new[key] = [count |-> Cardinality(C) + 1, flagValue |-> t[Min(C \cup {n})].value]
    BY <1>5, <1>8, <2>1, <2>2
  <2>5. CASE C = {}
    <3>1. key \notin DOMAIN old
      BY <1>6, <2>5
    <3>2. Cardinality(C) + 1 = 1 /\ t[Min(C \cup {n})] = ed
      BY <1>1, <2>2, <2>3, <2>5 DEF n
    <3> QED
      BY <2>4, <3>1, <3>2
  <2>6. CASE C # {}
    <3>1. key \in DOMAIN old
      BY <1>6, <2>6
    <3>2. t[Min(C \cup {n})] = s[Min(C)]
      BY <1>1, <2>1, <2>3, <2>6
    <3>3. old[key] = [count |-> Cardinality(C), flagValue |-> s[Min(C)].value]
      BY <1>7, <3>1
    <3> QED
      BY <2>4, <3>1, <3>2, <3>3
  <2> QED
    BY <2>5, <2>6
<1>12. new = Put(old, key, counter)
  <2> HIDE DEF counter
  <2> QED
    BY <1>5, <1>9, <1>10, <1>11 DEF Put
<1> QED
  BY <1>12 DEF old, new, k, key

\* summarizeEvent keeps the map of counters what FlagsOf says of the evaluations.
LEMMA FlagsAdd ==
  ASSUME NEW X, NEW s, NEW t, NEW ed, OneMore(X, s, t, ed)
  PROVE  FlagsOf(t) = CountedIn(FlagsOf(s), ed)
<1> DEFINE f == FlagsOf(s)
           g == FlagsOf(t)
           k == ed.key
           n == Len(s) + 1
           flag == IF k \in DOMAIN f THEN f[k] ELSE NewFlagSummary(ed)
           key == CounterKey(ed)
           counter == IF key \in DOMAIN flag.counters
                      THEN [flag.counters[key] EXCEPT !.count = @ + 1]
                      ELSE [count |-> 1, flagValue |-> ed.value]
           newFlag == [counters |-> Put(flag.counters, key, counter),
                       contextKinds |-> flag.contextKinds \cup {c.kind : c \in ed.context.contexts},
                       defaultValue |-> flag.defaultValue]
<1>1. /\ Len(s) \in Nat /\ DOMAIN s = 1 .. Len(s) /\ IsFiniteSet(DOMAIN s)
      /\ DOMAIN t = DOMAIN s \cup {Len(s) + 1} /\ Len(s) + 1 \notin DOMAIN s
      /\ t[Len(s) + 1] = ed
      /\ \A i \in DOMAIN s : t[i] = s[i] /\ i < Len(s) + 1
  BY OneMoreElements
<1>2. /\ f = [j \in DOMAIN f |-> FlagOf(s, j)] /\ g = [j \in DOMAIN g |-> FlagOf(t, j)]
      /\ \A j : j \in DOMAIN f <=> OfFlag(s, j) # {}
      /\ \A j : j \in DOMAIN g <=> OfFlag(t, j) # {}
  BY FlagsOfParts
<1>3. /\ OfFlag(t, k) = OfFlag(s, k) \cup {n}
      /\ \A j : /\ OfFlag(s, j) \subseteq DOMAIN s
                /\ j # k => OfFlag(t, j) = OfFlag(s, j)
                /\ \A q : j # k => OfCounter(t, j, q) = OfCounter(s, j, q)
  <2>1. ASSUME NEW j
        PROVE  /\ OfFlag(s, j) \subseteq DOMAIN s
               /\ OfFlag(t, j) = OfFlag(s, j) \cup (IF k = j THEN {n} ELSE {})
    BY OneMoreOfFlag
  <2>2. ASSUME NEW j, NEW q, j # k PROVE OfCounter(t, j, q) = OfCounter(s, j, q)
    <3>1. OfCounter(t, j, q) = OfCounter(s, j, q)
              \cup (IF k = j /\ CounterKey(ed) = q THEN {n} ELSE {})
      BY OneMoreOfCounter
    <3> QED
      BY <2>2, <3>1
  <2> QED
    BY <2>1, <2>2
<1>4. CountedIn(f, ed) = Put(f, k, newFlag)
  BY DEF CountedIn
<1>5. DOMAIN g = DOMAIN f \cup {k}
  BY <1>2, <1>3
<1> HIDE DEF f, g, k
<1>6. ASSUME NEW j \in DOMAIN f, j # k PROVE FlagOf(t, j) = FlagOf(s, j)
  <2>1. OfFlag(t, j) = OfFlag(s, j) /\ OfFlag(s, j) \subseteq DOMAIN s /\ OfFlag(s, j) # {}
    BY <1>2, <1>3, <1>6
  <2>2. OfFlag(s, j) \in SUBSET Nat /\ IsFiniteSet(OfFlag(s, j))
    BY <1>1, <2>1, FS_Subset
  <2>3. t[Min(OfFlag(s, j))] = s[Min(OfFlag(s, j))]
    BY <1>1, <2>1, <2>2, SmallestAndLargest
  <2>4. KindsOf(t, j) = KindsOf(s, j)
    <3>1. \A i \in OfFlag(s, j) : t[i] = s[i]
      BY <1>1, <2>1
    <3> QED
      BY <2>1, <3>1 DEF KindsOf
  <2>5. CountersOf(t, j) = CountersOf(s, j)
    <3>1. {<<t[i].variation, t[i].version>> : i \in OfFlag(t, j)} =
            {<<s[i].variation, s[i].version>> : i \in OfFlag(s, j)}
      BY <1>1, <2>1
    <3>2. ASSUME NEW i \in OfFlag(s, j), NEW q, q = <<s[i].variation, s[i].version>>
          PROVE  /\ OfCounter(t, j, q) = OfCounter(s, j, q)
                 /\ t[Min(OfCounter(s, j, q))] = s[Min(OfCounter(s, j, q))]
      <4>1. OfCounter(t, j, q) = OfCounter(s, j, q)
        BY <1>3, <1>6
      <4>2. i \in OfCounter(s, j, q) /\ OfCounter(s, j, q) \subseteq OfFlag(s, j)
        BY <3>2 DEF OfCounter
      <4>3. OfCounter(s, j, q) \in SUBSET Nat /\ IsFiniteSet(OfCounter(s, j, q))
        BY <2>2, <4>2, FS_Subset
      <4>4. Min(OfCounter(s, j, q)) \in DOMAIN s
        BY <2>1, <4>2, <4>3, SmallestAndLargest
      <4> QED
        BY <1>1, <4>1, <4>4
    <3> QED
      BY <3>1, <3>2 DEF CountersOf
  <2> QED
    BY <2>1, <2>3, <2>4, <2>5 DEF FlagOf
<1>7. FlagOf(t, k) = newFlag
  <2>1. /\ flag.counters = CountersOf(s, k) /\ flag.contextKinds = KindsOf(s, k)
        /\ flag.defaultValue = IF OfFlag(s, k) = {} THEN ed.default ELSE s[Min(OfFlag(s, k))].default
    <3>1. CASE k \in DOMAIN f
      <4>1. flag = FlagOf(s, k) /\ OfFlag(s, k) # {}
        BY <1>2, <3>1
      <4> QED
        BY <4>1 DEF FlagOf
    <3>2. CASE k \notin DOMAIN f
      <4>1. flag = NewFlagSummary(ed) /\ OfFlag(s, k) = {}
        BY <1>2, <3>2
      <4>2. CountersOf(s, k) = NoFlags /\ KindsOf(s, k) = {}
        BY <4>1 DEF CountersOf, KindsOf, NoFlags
      <4> QED
        BY <4>1, <4>2 DEF NewFlagSummary
    <3> QED
      BY <3>1, <3>2
  <2>2. CountersOf(t, k) = Put(flag.counters, key, counter)
    <3>1. CountersOf(t, k) =
            Put(CountersOf(s, k), key,
                IF key \in DOMAIN CountersOf(s, k)
                THEN [CountersOf(s, k)[key] EXCEPT !.count = @ + 1]
                ELSE [count |-> 1, flagValue |-> ed.value])
      BY CountersAdd DEF k
    <3> HIDE DEF flag, key
    <3> QED
      BY <2>1, <3>1
  <2>3. KindsOf(t, k) = flag.contextKinds \cup {c.kind : c \in ed.context.contexts}
    <3>1. \A i \in OfFlag(s, k) : t[i] = s[i]
      BY <1>1, <1>3
    <3> QED
      BY <1>1, <1>3, <2>1, <3>1 DEF KindsOf
  <2>4. t[Min(OfFlag(t, k))].default = flag.defaultValue
    <3>1. /\ OfFlag(s, k) \in SUBSET Nat /\ IsFiniteSet(OfFlag(s, k)) /\ n \in Nat
          /\ \A i \in OfFlag(s, k) : i < n
      BY <1>1, <1>3, FS_Subset
    <3>2. /\ Min(OfFlag(t, k)) = IF OfFlag(s, k) = {} THEN n ELSE Min(OfFlag(s, k))
          /\ OfFlag(s, k) # {} => Min(OfFlag(s, k)) \in OfFlag(s, k)
      <4> DEFINE S == OfFlag(s, k)
      <4>1. OfFlag(t, k) = S \cup {n}
        BY <1>3
      <4>2. Min(S \cup {n}) = (IF S = {} THEN n ELSE Min(S)) /\ (S # {} => Min(S) \in S)
        <5> HIDE DEF S, n
        <5> QED
          BY <3>1, FirstStays DEF S
      <4> QED
        BY <4>1, <4>2
    <3> QED
      BY <1>1, <1>3, <2>1, <3>2
  <2> QED
    BY <2>2, <2>3, <2>4 DEF FlagOf
<1>8. g = Put(f, k, newFlag)
  <2> HIDE DEF newFlag
  <2> QED
    BY <1>2, <1>5, <1>6, <1>7 DEF Put
<1> QED
  BY <1>4, <1>8 DEF f, g, k
-----------------------------------------------------------------------------
(* What the steps allocate and write.                                      *)

\* A payload with nothing in it is well-formed.
LEMMA NoPayloadOK == NoPayload \in Payload
<1>1. NilSlice \in Slice
  BY PayloadsAssumption DEF NilSlice, Slice
<1>2. NoDates \in SummaryDates
  BY DEF NoDates, SummaryDates
<1> QED
  BY <1>1, <1>2 DEF NoPayload, Payload

\* A fresh array and a fresh map belong to nobody, while nothing is offered.
LEMMA FreshIsUnused ==
  ASSUME TypeOK, OwnMemory, dispatcher # "offering"
  PROVE  /\ FreshArray \in Locations /\ FreshArray # outbox.events.array
         /\ \A h \in Holders : FreshArray # held[h].events.array
         /\ FreshMap \in Locations /\ FreshMap # outbox.flags
         /\ \A h \in Holders : FreshMap # held[h].flags
<1>1. /\ outbox.events.array \in Locations /\ outbox.flags \in Locations
      /\ pending = NoPayload
      /\ \A h \in Holders : /\ held[h].events.array \in Locations \cup {0}
                            /\ held[h].flags \in Locations \cup {0}
  BY DEF TypeOK, OwnMemory, Payload, Slice
<1>2. pending.events.array = 0 /\ pending.flags = 0
  BY <1>1 DEF NoPayload, NilSlice
<1>3. \E a \in Locations : a \notin ArraysInUse
  <2> DEFINE used == [h \in Holders |-> held[h].events.array]
  <2>1. used \in [Holders -> Locations \cup {0}]
    BY <1>1
  <2>2. PICK a \in Locations : a \notin {outbox.events.array, 0} \cup {used[h] : h \in Holders}
    BY <1>1, <2>1, MemoryAssumption
  <2> QED
    BY <1>2, <2>2 DEF ArraysInUse
<1>4. \E m \in Locations : m \notin MapsInUse
  <2> DEFINE used == [h \in Holders |-> held[h].flags]
  <2>1. used \in [Holders -> Locations \cup {0}]
    BY <1>1
  <2>2. PICK m \in Locations : m \notin {outbox.flags, 0} \cup {used[h] : h \in Holders}
    BY <1>1, <2>1, MemoryAssumption
  <2> QED
    BY <1>2, <2>2 DEF MapsInUse
<1>5. FreshArray \in Locations /\ FreshArray \notin ArraysInUse
  BY <1>3 DEF FreshArray
<1>6. FreshMap \in Locations /\ FreshMap \notin MapsInUse
  BY <1>4 DEF FreshMap
<1> QED
  BY <1>5, <1>6 DEF ArraysInUse, MapsInUse

\* Whatever may be added for an input is a sequence.
LEMMA EventsAreSequences ==
  ASSUME NEW data, NEW events \in EventsOf(data)
  PROVE  Len(events) \in Nat /\ events \in Seq({IndexEvent(data), data, DebugEvent(data)})
<1> DEFINE X == {IndexEvent(data), data, DebugEvent(data)}
<1>1. /\ Perhaps(IndexEvent(data)) \subseteq Seq(X) /\ Perhaps(data) \subseteq Seq(X)
      /\ Perhaps(DebugEvent(data)) \subseteq Seq(X) /\ {<< >>} \subseteq Seq(X)
  <2>1. /\ << >> \in Seq(X) /\ <<IndexEvent(data)>> \in Seq(X) /\ <<data>> \in Seq(X)
        /\ <<DebugEvent(data)>> \in Seq(X)
    OBVIOUS
  <2> HIDE DEF X
  <2> QED
    BY <2>1 DEF Perhaps
<1> HIDE DEF X
<1>2. \A s, t \in Seq(X) : s \o t \in Seq(X)
  OBVIOUS
<1>3. events \in Seq(X)
  <2>1. CASE data.kind = "evaluation"
    <3> DEFINE Index == Perhaps(IndexEvent(data))
               Full == IF data.requireFullEvent THEN Perhaps(data) ELSE {<< >>}
               Debug == IF data.debugged THEN Perhaps(DebugEvent(data)) ELSE {<< >>}
    <3>1. EventsOf(data) = {index \o full \o debug : index \in Index, full \in Full, debug \in Debug}
      BY <2>1 DEF EventsOf
    <3>2. Index \subseteq Seq(X)
      BY <1>1
    <3>3. Full \subseteq Seq(X)
      BY <1>1
    <3>4. Debug \subseteq Seq(X)
      BY <1>1
    <3> HIDE DEF Index, Full, Debug
    <3>5. PICK index \in Index, full \in Full, debug \in Debug : events = index \o full \o debug
      BY <3>1
    <3>6. index \in Seq(X) /\ full \in Seq(X) /\ debug \in Seq(X)
      BY <3>2, <3>3, <3>4
    <3> QED
      BY <1>2, <3>5, <3>6
  <2>2. CASE data.kind = "custom"
    <3>1. PICK index \in Perhaps(IndexEvent(data)), full \in Perhaps(data) :
            events = index \o full
      BY <2>2 DEF EventsOf
    <3>2. index \in Seq(X) /\ full \in Seq(X)
      BY <1>1, <3>1
    <3> QED
      BY <1>2, <3>1, <3>2
  <2>3. CASE data.kind # "evaluation" /\ data.kind # "custom"
    <3>1. EventsOf(data) = Perhaps(data)
      BY <2>3 DEF EventsOf
    <3> QED
      BY <1>1, <3>1
  <2> QED
    BY <2>1, <2>2, <2>3
<1>4. Len(events) \in Nat
  BY <1>3
<1> QED
  BY <1>3, <1>4 DEF X

\* What fits is no more than there is room for.
LEMMA FittingFits ==
  ASSUME TypeOK, NEW events, Len(events) \in Nat
  PROVE  /\ Fitting(events) \in Nat
         /\ outbox.events.len + Fitting(events) \in 0 .. Capacity
<1>1. outbox.events.len \in 0 .. Capacity /\ Capacity \in Nat
  BY PayloadsAssumption DEF TypeOK, Payload, Slice
<1> QED
  BY <1>1 DEF Fitting

\* The date of an evaluation leaves the dates of the summary well-formed.
LEMMA DatesStayDates ==
  ASSUME NEW dates \in SummaryDates, NEW date \in Dates
  PROVE  DatesWith(dates, date) \in SummaryDates
  BY DEF DatesWith, SummaryDates
-----------------------------------------------------------------------------
(* The steps, one lemma for each action.                                   *)

\* An evaluation is written into the memory of the outbox.
LEMMA ProcessEventPreserves ==
  ASSUME TypeOK, OwnMemory, NEW e \in Events, ProcessEvent(e)
  PROVE  TypeOK' /\ OwnMemory' /\ NothingSharedIsWritten
<1>1. /\ dispatcher = "loop"
      /\ UNCHANGED <<scenario, formatter, dispatcher, pending, shutdown, held, output, given,
                     managerVars>>
      /\ recorded' = recorded \cup {e}
  BY DEF ProcessEvent, AtSelect
<1>2. PICK date \in Dates :
        LET data == InputData(scenario.config, scenario.calls[e], date) IN
        \E events \in EventsOf(data) :
          /\ AddEvents(events)
          /\ \/ maps' = maps
             \/ maps' = [maps EXCEPT ![outbox.flags] = CountedIn(@, data)]
          /\ \E dates \in {outbox.dates, DatesWith(outbox.dates, date)} :
               outbox' = [outbox EXCEPT !.events.len = @ + Fitting(events), !.dates = dates]
  BY DEF ProcessEvent
<1>3. PICK data, events :
        /\ events \in EventsOf(data)
        /\ AddEvents(events)
        /\ maps' = maps \/ maps' = [maps EXCEPT ![outbox.flags] = CountedIn(@, data)]
        /\ \E dates \in {outbox.dates, DatesWith(outbox.dates, date)} :
             outbox' = [outbox EXCEPT !.events.len = @ + Fitting(events), !.dates = dates]
  BY <1>2
<1>4. /\ outbox \in Payload /\ outbox.dates \in SummaryDates
      /\ outbox.events.array \in Locations /\ outbox.flags \in Locations
      /\ outbox.events.len + Fitting(events) \in 0 .. Capacity
  <2>1. Len(events) \in Nat
    BY <1>3, EventsAreSequences
  <2> QED
    BY <2>1, FittingFits DEF TypeOK, OwnMemory, Payload
<1>5. /\ outbox' \in Payload
      /\ outbox'.events.array = outbox.events.array /\ outbox'.flags = outbox.flags
  <2>1. DatesWith(outbox.dates, date) \in SummaryDates
    BY <1>4, DatesStayDates
  <2> DEFINE n == outbox.events.len + Fitting(events)
  <2>2. PICK dates \in SummaryDates :
          outbox' = [outbox EXCEPT !.events.len = outbox.events.len + Fitting(events), !.dates = dates]
    BY <1>3, <1>4, <2>1
  <2>3. /\ outbox'.events = [outbox.events EXCEPT !.len = n]
        /\ outbox'.flags = outbox.flags /\ outbox'.dates = dates
        /\ outbox' = [events |-> outbox'.events, flags |-> outbox'.flags, dates |-> outbox'.dates]
    BY <1>4, <2>2 DEF Payload
  <2>4. outbox.events \in Slice /\ n \in 0 .. Capacity /\ outbox.events.array # 0
    BY <1>4, PayloadsAssumption DEF Payload
  <2>5. outbox'.events \in Slice /\ outbox'.events.array = outbox.events.array
    <3> HIDE DEF n
    <3> QED
      BY <2>3, <2>4 DEF Slice
  <2> QED
    BY <1>4, <2>3, <2>5 DEF Payload
<1>6. /\ DOMAIN arrays' = Locations /\ \A a \in Locations : DOMAIN arrays'[a] = 1 .. Capacity
      /\ \A a \in Locations : a # outbox.events.array => arrays'[a] = arrays[a]
  BY <1>3 DEF AddEvents, TypeOK
<1>7. /\ DOMAIN maps' = Locations
      /\ \A m \in Locations : m # outbox.flags => maps'[m] = maps[m]
  BY <1>3 DEF TypeOK
<1>8. TypeOK'
  BY <1>1, <1>5, <1>6, <1>7 DEF TypeOK, ManagerTypeOK, managerVars
<1>9. OwnMemory'
  BY <1>1, <1>5 DEF OwnMemory
<1>10. NothingSharedIsWritten
  BY <1>1, <1>6, <1>7 DEF NothingSharedIsWritten, InHand, OwnMemory, TypeOK, Payload, Slice
<1> QED
  BY <1>8, <1>9, <1>10

\* The payload that is offered has an array of its own.
LEMMA TriggerFlushPreserves ==
  ASSUME TypeOK, OwnMemory, TriggerFlush
  PROVE  TypeOK' /\ OwnMemory' /\ NothingSharedIsWritten
<1>1. /\ dispatcher = "loop" /\ dispatcher' = "offering"
      /\ UNCHANGED <<scenario, maps, outbox, shutdown, held, output, recorded, given, managerVars>>
      /\ pending' = [events |-> CopiedEvents, flags |-> outbox.flags, dates |-> outbox.dates]
  BY DEF TriggerFlush, AtSelect
<1>2. /\ FreshArray \in Locations /\ FreshArray # outbox.events.array
      /\ \A h \in Holders : FreshArray # held[h].events.array
  BY <1>1, FreshIsUnused
<1>3. /\ outbox.events \in Slice /\ outbox.dates \in SummaryDates
      /\ outbox.events.array \in Locations /\ outbox.flags \in Locations
  BY DEF TypeOK, OwnMemory, Payload
<1>4. CopiedEvents \in Slice /\ CopiedEvents.array # outbox.events.array
  BY <1>2, <1>3, PayloadsAssumption DEF CopiedEvents, NilSlice, Slice
<1>5. pending' \in Payload /\ pending'.events = CopiedEvents /\ pending'.flags = outbox.flags
  BY <1>1, <1>3, <1>4 DEF Payload
<1>6. /\ DOMAIN arrays' = Locations /\ \A a \in Locations : DOMAIN arrays'[a] = 1 .. Capacity
      /\ \A a \in Locations : a # FreshArray => arrays'[a] = arrays[a]
  BY DEF TriggerFlush, TypeOK
<1>7. TypeOK'
  BY <1>1, <1>5, <1>6 DEF TypeOK, ManagerTypeOK, managerVars
<1>8. OwnMemory'
  BY <1>1, <1>4, <1>5 DEF OwnMemory
<1>9. NothingSharedIsWritten
  BY <1>1, <1>2, <1>6 DEF NothingSharedIsWritten, InHand, TypeOK, Payload, Slice
<1> QED
  BY <1>7, <1>8, <1>9

\* The payload changes hands with its memory.
LEMMA HandoffAcceptedPreserves ==
  ASSUME TypeOK, OwnMemory, NEW h \in Holders, HandoffAccepted(h)
  PROVE  TypeOK' /\ OwnMemory' /\ NothingSharedIsWritten
<1>1. /\ dispatcher = "offering" /\ dispatcher' = "clearing"
      /\ held' = [held EXCEPT ![h] = pending] /\ pending' = NoPayload
      /\ UNCHANGED <<scenario, arrays, maps, outbox, shutdown, output, recorded, managerVars>>
      /\ DOMAIN given' = DOMAIN given
  BY DEF HandoffAccepted
<1>2. TypeOK'
  BY <1>1, NoPayloadOK DEF TypeOK, ManagerTypeOK, managerVars
<1>3. OwnMemory'
  BY <1>1 DEF OwnMemory, TypeOK
<1>4. NothingSharedIsWritten
  BY <1>1 DEF NothingSharedIsWritten
<1> QED
  BY <1>2, <1>3, <1>4

\* A refused payload is forgotten.
LEMMA HandoffRefusedPreserves ==
  ASSUME TypeOK, OwnMemory, HandoffRefused
  PROVE  TypeOK' /\ OwnMemory' /\ NothingSharedIsWritten
<1>1. /\ dispatcher = "offering" /\ dispatcher' = "loop" /\ pending' = NoPayload
      /\ UNCHANGED <<scenario, arrays, maps, outbox, shutdown, held, output, recorded, given,
                     managerVars>>
  BY DEF HandoffRefused
<1>2. TypeOK'
  BY <1>1, NoPayloadOK DEF TypeOK, ManagerTypeOK, managerVars
<1>3. OwnMemory'
  BY <1>1 DEF OwnMemory
<1>4. NothingSharedIsWritten
  BY <1>1 DEF NothingSharedIsWritten
<1> QED
  BY <1>2, <1>3, <1>4

\* The outbox gets a map of its own again, and its array is only its own, after a
\* handoff and when the service has turned the SDK off.
LEMMA ClearPreserves ==
  ASSUME TypeOK, OwnMemory, Clear \/ TurnOff
  PROVE  TypeOK' /\ OwnMemory' /\ NothingSharedIsWritten
<1>1. /\ dispatcher # "offering" /\ dispatcher' = "loop"
      /\ outbox' = [events |-> [outbox.events EXCEPT !.len = 0], flags |-> FreshMap, dates |-> NoDates]
      /\ maps' = [maps EXCEPT ![FreshMap] = NoFlags]
      /\ UNCHANGED <<scenario, pending, held, output, recorded, given, managerVars>>
      /\ shutdown' = shutdown \/ shutdown' = "done"
  BY DEF Clear, TurnOff, AtSelect, ClearOutbox, ReplacedMap
<1>2. /\ FreshMap \in Locations
      /\ \A h \in Holders : FreshMap # held[h].flags
  BY <1>1, FreshIsUnused
<1>3. /\ outbox' \in Payload
      /\ outbox'.events.array = outbox.events.array /\ outbox'.flags = FreshMap
  <2>1. NoDates \in SummaryDates
    BY DEF NoDates, SummaryDates
  <2> QED
    BY <1>1, <1>2, <2>1, PayloadsAssumption DEF TypeOK, Payload, Slice
<1>4. /\ DOMAIN arrays' = Locations /\ \A a \in Locations : DOMAIN arrays'[a] = 1 .. Capacity
      /\ \A a \in Locations : a # outbox.events.array => arrays'[a] = arrays[a]
  BY DEF Clear, TurnOff, ClearOutbox, TypeOK
<1>5. TypeOK'
  BY <1>1, <1>3, <1>4 DEF TypeOK, ManagerTypeOK, managerVars
<1>6. OwnMemory'
  BY <1>1, <1>2, <1>3 DEF OwnMemory
<1>7. NothingSharedIsWritten
  BY <1>1, <1>2, <1>4 DEF NothingSharedIsWritten, InHand, OwnMemory, TypeOK, Payload, Slice
<1> QED
  BY <1>5, <1>6, <1>7

\* A worker only reads; when it is done it forgets its payload.
LEMMA WorkerPreserves ==
  ASSUME TypeOK, OwnMemory, NEW h \in Holders, Format(h) \/ Sent(h)
  PROVE  TypeOK' /\ OwnMemory' /\ NothingSharedIsWritten
<1>1. /\ held' = held \/ held' = [held EXCEPT ![h] = NoPayload]
      /\ shutdown' = shutdown \/ shutdown' = "told"
      /\ UNCHANGED <<scenario, arrays, maps, outbox, dispatcher, pending, recorded, managerVars>>
      /\ DOMAIN output' = DOMAIN output /\ DOMAIN given' = DOMAIN given
  BY DEF Format, Sent
<1>2. NoPayload.events.array = 0 /\ NoPayload.flags = 0 /\ 0 \notin Locations
  BY PayloadsAssumption DEF NoPayload, NilSlice
<1>3. TypeOK'
  BY <1>1, NoPayloadOK DEF TypeOK, ManagerTypeOK, managerVars
<1>4. OwnMemory'
  BY <1>1, <1>2 DEF OwnMemory, TypeOK
<1>5. NothingSharedIsWritten
  BY <1>1 DEF NothingSharedIsWritten
<1> QED
  BY <1>3, <1>4, <1>5

\* The manager's steps are its own, and everyone else leaves its state alone.
LEMMA ManagerIsSeparate == [Next]_vars => [ManagerNext]_managerVars
<1> SUFFICES ASSUME [Next]_vars PROVE [ManagerNext]_managerVars
  OBVIOUS
<1>1. CASE DiagnosticsStep
  BY <1>1 DEF DiagnosticsStep
<1>2. CASE \E e \in Events : ProcessEvent(e)
  BY <1>2 DEF ProcessEvent, managerVars
<1>3. CASE TriggerFlush \/ HandoffRefused \/ Clear \/ TurnOff
  BY <1>3 DEF TriggerFlush, HandoffRefused, Clear, TurnOff, managerVars
<1>4. CASE \E h \in Holders : HandoffAccepted(h) \/ Format(h) \/ Sent(h)
  BY <1>4 DEF HandoffAccepted, Format, Sent, managerVars
<1>5. CASE UNCHANGED vars
  BY <1>5 DEF vars, managerVars
<1> QED
  BY <1>1, <1>2, <1>3, <1>4, <1>5 DEF Next

\* At the start only the outbox has memory.
LEMMA PayloadsInitEstablishes == Init => PayloadsInvariant
<1> SUFFICES ASSUME Init PROVE PayloadsInvariant
  OBVIOUS
<1>1. AnyLocation \in Locations
  BY PayloadsAssumption DEF AnyLocation
<1>2. ManagerInvariant /\ ManagerTypeOK
  BY ManagerInitEstablishes DEF Init, ManagerInvariant
<1>3. outbox \in Payload /\ outbox.events.array = AnyLocation /\ outbox.flags = AnyLocation
  <2>1. NoDates \in SummaryDates
    BY DEF NoDates, SummaryDates
  <2> QED
    BY <1>1, <2>1, PayloadsAssumption DEF Init, Payload, Slice
<1>4. TypeOK
  BY <1>2, <1>3, NoPayloadOK DEF Init, TypeOK, EmptyArray
<1>5. OwnMemory
  BY <1>1, <1>3, PayloadsAssumption DEF Init, OwnMemory, NoPayload, NilSlice
<1> QED
  BY <1>2, <1>4, <1>5 DEF PayloadsInvariant

\* The two halves of the induction, and what no step does.
LEMMA PayloadsNextPreserves ==
  ASSUME PayloadsInvariant, [Next]_vars
  PROVE  PayloadsInvariant' /\ NothingSharedIsWritten
<1>1. TypeOK /\ OwnMemory /\ ManagerInvariant
  BY DEF PayloadsInvariant
<1>2. ManagerInvariant' /\ ManagerTypeOK'
  BY <1>1, ManagerIsSeparate, ManagerNextPreserves DEF ManagerInvariant
<1>3. TypeOK' /\ OwnMemory' /\ NothingSharedIsWritten
  <2>1. CASE \E e \in Events : ProcessEvent(e)
    BY <1>1, <2>1, ProcessEventPreserves
  <2>2. CASE TriggerFlush
    BY <1>1, <2>2, TriggerFlushPreserves
  <2>3. CASE HandoffRefused
    BY <1>1, <2>3, HandoffRefusedPreserves
  <2>4. CASE Clear \/ TurnOff
    BY <1>1, <2>4, ClearPreserves
  <2>5. CASE \E h \in Holders : HandoffAccepted(h)
    BY <1>1, <2>5, HandoffAcceptedPreserves
  <2>6. CASE \E h \in Holders : Format(h) \/ Sent(h)
    BY <1>1, <2>6, WorkerPreserves
  <2>7. CASE DiagnosticsStep \/ UNCHANGED vars
    <3>1. UNCHANGED payloadVars
      BY <2>7 DEF DiagnosticsStep, vars
    <3> QED
      BY <1>1, <1>2, <3>1 DEF payloadVars, TypeOK, OwnMemory, NothingSharedIsWritten
  <2> QED
    BY <2>1, <2>2, <2>3, <2>4, <2>5, <2>6, <2>7 DEF Next
<1> QED
  BY <1>2, <1>3 DEF PayloadsInvariant
-----------------------------------------------------------------------------
(* What the payloads contain.                                              *)

\* The first k elements of t, after those of s.
LEMMA ConcatPrefix ==
  ASSUME NEW X, NEW s \in Seq(X), NEW Y, NEW t \in Seq(Y), NEW k \in 0 .. Len(t)
  PROVE  s \o SubSeq(t, 1, k) =
           [i \in 1 .. (Len(s) + k) |-> IF i <= Len(s) THEN s[i] ELSE t[i - Len(s)]]
<1> DEFINE Z == X \cup Y
           u == SubSeq(t, 1, k)
<1>1. s \in Seq(Z) /\ t \in Seq(Z) /\ Len(s) \in Nat /\ Len(t) \in Nat /\ k \in Nat
  OBVIOUS
<1>2. u \in Seq(Z) /\ Len(u) = k /\ \A i \in 1 .. k : u[i] = t[i]
  BY <1>1
<1> HIDE DEF Z, u
<1>3. /\ s \o u \in Seq(Z) /\ Len(s \o u) = Len(s) + k
      /\ \A i \in 1 .. (Len(s) + k) : (s \o u)[i] = IF i <= Len(s) THEN s[i] ELSE u[i - Len(s)]
  BY <1>1, <1>2
<1>4. \A i \in 1 .. (Len(s) + k) : (s \o u)[i] = IF i <= Len(s) THEN s[i] ELSE t[i - Len(s)]
  BY <1>1, <1>2, <1>3
<1>5. \A w \in Seq(Z) : w = [i \in 1 .. Len(w) |-> w[i]]
  OBVIOUS
<1>6. s \o u = [i \in 1 .. Len(s \o u) |-> (s \o u)[i]]
  BY <1>3, <1>5
<1> QED
  BY <1>3, <1>4, <1>6 DEF u

\* The inputs that are summarized have a date, and it is not 0.
LEMMA SummarizedAtSomeTime ==
  /\ \A x \in Summarized : x.creationDate \in Nat \ {0}
  /\ \A e \in DOMAIN scenario.calls, date \in Dates :
       InputData(scenario.config, scenario.calls[e], date).creationDate = date
<1>1. ASSUME NEW call, NEW date \in Dates
      PROVE  InputData(scenario.config, call, date).creationDate = date
  BY DEF InputData, NewUnknownFlagEvaluationData, NewEvaluationData, OtherData
<1>2. \A date \in Dates : date \in Nat \ {0}
  BY PayloadsAssumption, ClockAssumption
<1> QED
  BY <1>1, <1>2 DEF Summarized

\* Without evaluations there is nothing in the summary.
LEMMA NothingSummarized == FlagsOf(<< >>) = NoFlags /\ DatesOf(<< >>) = NoDates
<1>1. DOMAIN << >> = {}
  OBVIOUS
<1>2. {(<< >>)[i].creationDate : i \in DOMAIN << >>} = {}
  BY <1>1
<1>3. {(<< >>)[i].key : i \in DOMAIN << >>} = {}
  BY <1>1
<1> QED
  BY <1>2, <1>3 DEF FlagsOf, DatesOf, NoFlags

\* What nobody writes to stays what it is.
LEMMA ContentStays ==
  ASSUME NEW p \in Payload, NEW events, NEW evaluations, IsContent(p, events, evaluations),
         p.events.array # 0 => arrays'[p.events.array] = arrays[p.events.array],
         maps'[p.flags] = maps[p.flags]
  PROVE  /\ [i \in 1 .. p.events.len |-> arrays'[p.events.array][i]] = events
         /\ maps'[p.flags] = FlagsOf(evaluations)
         /\ p.dates = DatesOf(evaluations)
<1>1. p.events.len \in Nat /\ (p.events.array = 0 => p.events.len = 0)
  BY DEF Payload, Slice
<1>2. [i \in 1 .. p.events.len |-> arrays'[p.events.array][i]] =
        [i \in 1 .. p.events.len |-> arrays[p.events.array][i]]
  BY <1>1
<1> QED
  BY <1>2 DEF IsContent, Deref

\* The payloads of the workers stay intact if they keep them.
LEMMA HeldStayIntact ==
  ASSUME TypeOK, PayloadsIntact, NothingSharedIsWritten, NEW h \in InHand,
         held'[h] = held[h], given'[h] = given[h]
  PROVE  IsContent(held[h], given[h].events, given[h].evaluations)'
<1>1. /\ held[h] \in Payload /\ IsContent(held[h], given[h].events, given[h].evaluations)
      /\ held[h].events.array # 0 => arrays'[held[h].events.array] = arrays[held[h].events.array]
      /\ maps'[held[h].flags] = maps[held[h].flags]
  BY DEF TypeOK, InHand, PayloadsIntact, NothingSharedIsWritten
<1>2. /\ [i \in 1 .. held[h].events.len |-> arrays'[held[h].events.array][i]] = given[h].events
      /\ maps'[held[h].flags] = FlagsOf(given[h].evaluations)
      /\ held[h].dates = DatesOf(given[h].evaluations)
  BY <1>1, ContentStays
<1> QED
  BY <1>2 DEF IsContent, Deref

\* processEvent: the outbox holds what has been added to it.
LEMMA ProcessEventKeepsIntact ==
  ASSUME TypeOK, OwnMemory, IntactInvariant, NEW e \in Events, ProcessEvent(e),
         NothingSharedIsWritten
  PROVE  IntactInvariant'
<1>1. /\ dispatcher = "loop" /\ UNCHANGED <<scenario, dispatcher, held, given>>
      /\ e \in DOMAIN scenario.calls
  BY DEF ProcessEvent, AtSelect
<1>2. PICK date \in Dates :
        LET data       == InputData(scenario.config, scenario.calls[e], date)
            summarized == data.kind = "evaluation" /\ ~data.excludeFromSummaries
        IN  \E events \in EventsOf(data) :
              /\ AddEvents(events)
              /\ maps' = IF summarized THEN [maps EXCEPT ![outbox.flags] = CountedIn(@, data)] ELSE maps
              /\ outbox' =
                   [outbox EXCEPT !.events.len = @ + Fitting(events),
                                  !.dates = IF summarized THEN DatesWith(@, date) ELSE @]
              /\ counted' = IF summarized THEN Append(counted, data) ELSE counted
  BY DEF ProcessEvent
<1> DEFINE data == InputData(scenario.config, scenario.calls[e], date)
           summarized == data.kind = "evaluation" /\ ~data.excludeFromSummaries
           n == outbox.events.len
           a == outbox.events.array
<1>3. PICK events \in EventsOf(data) :
        /\ AddEvents(events)
        /\ maps' = IF summarized THEN [maps EXCEPT ![outbox.flags] = CountedIn(@, data)] ELSE maps
        /\ outbox' = [outbox EXCEPT !.events.len = @ + Fitting(events),
                                    !.dates = IF summarized THEN DatesWith(@, date) ELSE @]
        /\ counted' = IF summarized THEN Append(counted, data) ELSE counted
  BY <1>2
<1> DEFINE k == Fitting(events)
<1>4. /\ data \in Summarized /\ data.creationDate = date
      /\ \A x \in Summarized : x.creationDate \in Nat \ {0}
  BY <1>1, SummarizedAtSomeTime DEF Summarized
<1>5. /\ Len(events) \in Nat /\ events \in Seq({IndexEvent(data), data, DebugEvent(data)})
      /\ k \in Nat /\ n \in Nat /\ n + k \in 0 .. Capacity /\ Capacity \in Nat
      /\ a \in Locations /\ outbox.flags \in Locations /\ outbox \in Payload
      /\ DOMAIN arrays = Locations /\ DOMAIN maps = Locations
  <2>1. Len(events) \in Nat /\ events \in Seq({IndexEvent(data), data, DebugEvent(data)})
    BY <1>3, EventsAreSequences
  <2>2. k \in Nat /\ n + k \in 0 .. Capacity
    BY <2>1, FittingFits
  <2> QED
    BY <2>1, <2>2, PayloadsAssumption DEF TypeOK, OwnMemory, Payload, Slice
<1>6. IsContent(outbox, buffered, counted) /\ counted \in Seq(Summarized)
  BY DEF IntactInvariant, PayloadsIntact
<1>7. /\ outbox'.events.len = n + k /\ outbox'.events.array = a /\ outbox'.flags = outbox.flags
      /\ outbox'.dates = IF summarized THEN DatesWith(outbox.dates, date) ELSE outbox.dates
  BY <1>3, <1>5 DEF Payload, Slice
<1>8. Deref(outbox.events)' = buffered'
  <2> DEFINE X == {arrays[a][i] : i \in 1 .. Capacity}
             Y == {IndexEvent(data), data, DebugEvent(data)}
  <2>1. buffered = [i \in 1 .. n |-> arrays[a][i]]
    BY <1>6 DEF IsContent, Deref
  <2>2. buffered \in Seq(X) /\ Len(buffered) = n
    <3>1. n \in Nat /\ \A i \in 1 .. n : arrays[a][i] \in X
      BY <1>5
    <3> HIDE DEF X, n
    <3> QED
      BY <2>1, <3>1
  <2>3. k \in 0 .. Len(events)
    BY <1>5 DEF Fitting
  <2>4. buffered' = buffered \o SubSeq(events, 1, k)
    BY <1>3 DEF AddEvents
  <2>5. buffered' = [i \in 1 .. (n + k) |-> IF i <= n THEN buffered[i] ELSE events[i - n]]
    <3>1. events \in Seq(Y)
      BY <1>5
    <3> HIDE DEF X, Y, k, n
    <3>2. buffered \o SubSeq(events, 1, k) =
            [i \in 1 .. (Len(buffered) + k) |->
               IF i <= Len(buffered) THEN buffered[i] ELSE events[i - Len(buffered)]]
      BY <2>2, <2>3, <3>1, ConcatPrefix
    <3> QED
      BY <2>2, <2>4, <3>2
  <2>6. \A i \in 1 .. Capacity :
          arrays'[a][i] = IF i \in (n + 1) .. (n + k) THEN events[i - n] ELSE arrays[a][i]
    BY <1>3, <1>5 DEF AddEvents
  <2>7. \A i \in 1 .. (n + k) : arrays'[a][i] = IF i <= n THEN buffered[i] ELSE events[i - n]
    BY <1>5, <2>1, <2>6
  <2>8. Deref(outbox.events)' = [i \in 1 .. (n + k) |-> arrays'[a][i]]
    BY <1>7 DEF Deref
  <2> QED
    BY <2>5, <2>7, <2>8
<1>9. /\ maps'[outbox.flags] = FlagsOf(counted') /\ outbox'.dates = DatesOf(counted')
      /\ counted' \in Seq(Summarized)
  <2>1. maps[outbox.flags] = FlagsOf(counted) /\ outbox.dates = DatesOf(counted)
    BY <1>6 DEF IsContent
  <2>2. CASE summarized
    <3>1. OneMore(Summarized, counted, counted', data)
      BY <1>3, <1>4, <1>6, <2>2 DEF OneMore
    <3>2. FlagsOf(counted') = CountedIn(FlagsOf(counted), data)
      BY <3>1, FlagsAdd
    <3>3. DatesOf(counted') = DatesWith(DatesOf(counted), date)
      BY <1>4, <3>1, DatesAdd
    <3>4. maps'[outbox.flags] = CountedIn(maps[outbox.flags], data)
      BY <1>3, <1>5, <2>2
    <3>5. counted' \in Seq(Summarized)
      BY <3>1 DEF OneMore
    <3> QED
      BY <1>7, <2>1, <2>2, <3>2, <3>3, <3>4, <3>5
  <2>3. CASE ~summarized
    BY <1>3, <1>6, <1>7, <2>1, <2>3
  <2> QED
    BY <2>2, <2>3
<1>10. IsContent(outbox, buffered, counted)'
  BY <1>7, <1>8, <1>9 DEF IsContent
<1>11. \A h \in InHand' : IsContent(held[h], given[h].events, given[h].evaluations)'
  BY <1>1, HeldStayIntact DEF InHand, IntactInvariant
<1>12. Summarized' = Summarized
  BY <1>1 DEF Summarized
<1> QED
  BY <1>1, <1>9, <1>10, <1>11, <1>12 DEF IntactInvariant, PayloadsIntact

\* getPayload: the copy has the same events, and the map is the same.
LEMMA TriggerFlushKeepsIntact ==
  ASSUME TypeOK, OwnMemory, IntactInvariant, TriggerFlush, NothingSharedIsWritten
  PROVE  IntactInvariant'
<1>1. /\ dispatcher = "loop" /\ dispatcher' = "offering"
      /\ UNCHANGED <<scenario, maps, outbox, held, buffered, counted, given>>
      /\ pending' = [events |-> CopiedEvents, flags |-> outbox.flags, dates |-> outbox.dates]
  BY DEF TriggerFlush, AtSelect
<1>2. /\ outbox.events.len \in 0 .. Capacity /\ Capacity \in Nat
      /\ FreshArray \in Locations /\ FreshArray # outbox.events.array
  BY <1>1, FreshIsUnused, PayloadsAssumption DEF TypeOK, Payload, Slice
<1>3. IsContent(outbox, buffered, counted)
  BY DEF IntactInvariant, PayloadsIntact
<1>4. arrays'[outbox.events.array] = arrays[outbox.events.array]
  BY <1>2 DEF TriggerFlush, TypeOK
<1>5. IsContent(outbox, buffered, counted)'
  BY <1>1, <1>3, <1>4 DEF IsContent, Deref
<1>6. Deref(pending.events)' = buffered
  <2>1. buffered = [i \in 1 .. outbox.events.len |-> arrays[outbox.events.array][i]]
    BY <1>3 DEF IsContent, Deref
  <2>2. Deref(pending.events)' =
          [i \in 1 .. CopiedEvents.len |-> arrays'[CopiedEvents.array][i]]
    BY <1>1 DEF Deref
  <2>3. CASE outbox.events.len = 0
    <3>1. CopiedEvents.len = 0
      BY <2>3 DEF CopiedEvents, NilSlice
    <3> QED
      BY <2>1, <2>2, <2>3, <3>1
  <2>4. CASE outbox.events.len # 0
    <3>1. CopiedEvents.len = outbox.events.len /\ CopiedEvents.array = FreshArray
      BY <2>4 DEF CopiedEvents, TypeOK, Payload, Slice
    <3>2. arrays' = [arrays EXCEPT ![FreshArray] = [i \in 1 .. Capacity |->
                       IF i <= outbox.events.len THEN arrays[outbox.events.array][i] ELSE Nil]]
      BY <2>4 DEF TriggerFlush
    <3>3. \A i \in 1 .. outbox.events.len : arrays'[FreshArray][i] = arrays[outbox.events.array][i]
      BY <1>2, <3>2 DEF TypeOK
    <3> QED
      BY <2>1, <2>2, <3>1, <3>3
  <2> QED
    BY <2>3, <2>4
<1>7. IsContent(pending, buffered, counted)'
  BY <1>1, <1>3, <1>6 DEF IsContent
<1>8. \A h \in InHand' : IsContent(held[h], given[h].events, given[h].evaluations)'
  BY <1>1, HeldStayIntact DEF InHand, IntactInvariant
<1>9. Summarized' = Summarized
  BY <1>1 DEF Summarized
<1> QED
  BY <1>1, <1>5, <1>7, <1>8, <1>9 DEF IntactInvariant, PayloadsIntact

\* The worker is given what was offered.
LEMMA HandoffAcceptedKeepsIntact ==
  ASSUME TypeOK, OwnMemory, IntactInvariant, NEW h \in Holders, HandoffAccepted(h),
         NothingSharedIsWritten
  PROVE  IntactInvariant'
<1>1. /\ dispatcher = "offering" /\ dispatcher' = "clearing"
      /\ UNCHANGED <<scenario, arrays, maps, outbox, buffered, counted>>
      /\ held' = [held EXCEPT ![h] = pending]
      /\ given' = [given EXCEPT ![h] = [events |-> buffered, evaluations |-> counted]]
  BY DEF HandoffAccepted
<1>2. /\ IsContent(outbox, buffered, counted) /\ IsContent(pending, buffered, counted)
      /\ counted \in Seq(Summarized)
  BY <1>1 DEF IntactInvariant, PayloadsIntact
<1>3. IsContent(outbox, buffered, counted)'
  BY <1>1, <1>2 DEF IsContent, Deref
<1>4. DOMAIN held = Holders /\ DOMAIN given = Holders
  BY DEF TypeOK
<1>5. ASSUME NEW i \in InHand'
      PROVE  IsContent(held[i], given[i].events, given[i].evaluations)'
  <2>1. CASE i = h
    <3>1. /\ held'[i] = pending /\ given'[i].events = buffered
          /\ given'[i].evaluations = counted
      BY <1>1, <1>4, <2>1
    <3> QED
      BY <1>1, <1>2, <3>1 DEF IsContent, Deref
  <2>2. CASE i # h
    <3>1. i \in InHand /\ held'[i] = held[i] /\ given'[i] = given[i]
      BY <1>1, <1>4, <2>2 DEF InHand
    <3> QED
      BY <3>1, HeldStayIntact DEF IntactInvariant
  <2> QED
    BY <2>1, <2>2
<1>6. Summarized' = Summarized
  BY <1>1 DEF Summarized
<1>7. \A i \in Holders : given'[i].evaluations \in Seq(Summarized)
  BY <1>1, <1>2, <1>4 DEF IntactInvariant
<1> QED
  BY <1>1, <1>2, <1>3, <1>5, <1>6, <1>7 DEF IntactInvariant, PayloadsIntact

\* clear: the outbox is empty again.
LEMMA ClearKeepsIntact ==
  ASSUME TypeOK, OwnMemory, IntactInvariant, Clear \/ TurnOff, NothingSharedIsWritten
  PROVE  IntactInvariant'
<1>1. /\ dispatcher # "offering" /\ dispatcher' = "loop"
      /\ outbox' = [events |-> [outbox.events EXCEPT !.len = 0], flags |-> FreshMap, dates |-> NoDates]
      /\ maps' = [maps EXCEPT ![FreshMap] = NoFlags]
      /\ buffered' = << >> /\ counted' = << >>
      /\ UNCHANGED <<scenario, held, given>>
  BY DEF Clear, TurnOff, AtSelect, ClearOutbox, ReplacedMap
<1>2. FreshMap \in Locations
  BY <1>1, FreshIsUnused
<1>3. IsContent(outbox, buffered, counted)'
  <2>1. outbox'.events.len = 0 /\ outbox'.flags = FreshMap /\ outbox'.dates = NoDates
    BY <1>1 DEF TypeOK, Payload, Slice
  <2>2. Deref(outbox.events)' = << >>
    <3>1. Deref(outbox.events)' = [i \in 1 .. 0 |-> arrays'[outbox'.events.array][i]]
      BY <2>1 DEF Deref
    <3> QED
      BY <3>1
  <2>3. maps'[outbox'.flags] = NoFlags
    BY <1>1, <1>2, <2>1 DEF TypeOK
  <2> QED
    BY <1>1, <2>1, <2>2, <2>3, NothingSummarized DEF IsContent
<1>4. \A h \in InHand' : IsContent(held[h], given[h].events, given[h].evaluations)'
  BY <1>1, HeldStayIntact DEF InHand, IntactInvariant
<1>5. Summarized' = Summarized
  BY <1>1 DEF Summarized
<1>6. << >> \in Seq(Summarized)
  OBVIOUS
<1> QED
  BY <1>1, <1>3, <1>4, <1>5, <1>6 DEF IntactInvariant, PayloadsIntact

\* A worker changes nothing but what it has itself.
LEMMA WorkerKeepsIntact ==
  ASSUME TypeOK, OwnMemory, IntactInvariant, NEW h \in Holders, Format(h) \/ Sent(h)
  PROVE  IntactInvariant'
<1>1. /\ UNCHANGED <<scenario, arrays, maps, outbox, dispatcher, pending, buffered, counted>>
      /\ \/ held' = held /\ given' = given
         \/ /\ held' = [held EXCEPT ![h] = NoPayload]
            /\ given' = [given EXCEPT ![h] = Nothing]
  BY DEF Format, Sent
<1>2. DOMAIN held = Holders /\ DOMAIN given = Holders
  BY DEF TypeOK
<1>3. IsContent(outbox, buffered, counted)' = IsContent(outbox, buffered, counted)
  BY <1>1 DEF IsContent, Deref
<1>4. IsContent(pending, buffered, counted)' = IsContent(pending, buffered, counted)
  BY <1>1 DEF IsContent, Deref
<1>5. ASSUME NEW i \in InHand'
      PROVE  IsContent(held[i], given[i].events, given[i].evaluations)'
  <2>1. i \in InHand /\ held'[i] = held[i] /\ given'[i] = given[i]
    BY <1>1, <1>2 DEF InHand
  <2>2. IsContent(held[i], given[i].events, given[i].evaluations)
    BY <2>1 DEF IntactInvariant, PayloadsIntact
  <2> QED
    BY <1>1, <2>1, <2>2 DEF IsContent, Deref
<1>6. Summarized' = Summarized
  BY <1>1 DEF Summarized
<1>7. \A i \in Holders : given'[i].evaluations \in Seq(Summarized)
  <2>1. Nothing.evaluations \in Seq(Summarized)
    BY DEF Nothing
  <2> QED
    BY <1>1, <1>2, <2>1 DEF IntactInvariant
<1> QED
  BY <1>1, <1>3, <1>4, <1>5, <1>6, <1>7 DEF IntactInvariant, PayloadsIntact

\* At the start the outbox is empty, and there is no payload.
LEMMA IntactInitEstablishes == Init => IntactInvariant
<1> SUFFICES ASSUME Init PROVE IntactInvariant
  OBVIOUS
<1>1. /\ outbox = [events |-> [array |-> AnyLocation, len |-> 0], flags |-> AnyLocation, dates |-> NoDates]
      /\ maps[AnyLocation] = NoFlags
      /\ dispatcher = "loop" /\ buffered = << >> /\ counted = << >>
      /\ InHand = {} /\ given = [h \in Holders |-> Nothing]
  BY PayloadsAssumption DEF Init, AnyLocation, InHand
<1>2. Deref(outbox.events) = << >>
  <2>1. Deref(outbox.events) = [i \in 1 .. 0 |-> arrays[AnyLocation][i]]
    BY <1>1 DEF Deref
  <2> QED
    BY <2>1
<1>3. IsContent(outbox, buffered, counted)
  BY <1>1, <1>2, NothingSummarized DEF IsContent
<1>4. << >> \in Seq(Summarized) /\ Nothing.evaluations = << >>
  BY DEF Nothing
<1> QED
  BY <1>1, <1>3, <1>4 DEF IntactInvariant, PayloadsIntact

\* The two invariants together are inductive.
LEMMA IntactNextPreserves ==
  ASSUME PayloadsInvariant, IntactInvariant, [Next]_vars
  PROVE  IntactInvariant'
<1>1. TypeOK /\ OwnMemory /\ NothingSharedIsWritten
  BY PayloadsNextPreserves DEF PayloadsInvariant
<1>2. CASE \E e \in Events : ProcessEvent(e)
  BY <1>1, <1>2, ProcessEventKeepsIntact
<1>3. CASE TriggerFlush
  BY <1>1, <1>3, TriggerFlushKeepsIntact
<1>4. CASE Clear \/ TurnOff
  BY <1>1, <1>4, ClearKeepsIntact
<1>5. CASE \E h \in Holders : HandoffAccepted(h)
  BY <1>1, <1>5, HandoffAcceptedKeepsIntact
<1>6. CASE \E h \in Holders : Format(h) \/ Sent(h)
  BY <1>1, <1>6, WorkerKeepsIntact
<1>7. CASE HandoffRefused \/ DiagnosticsStep \/ UNCHANGED vars
  <2>1. /\ UNCHANGED <<scenario, arrays, maps, outbox, held, buffered, counted, given>>
        /\ dispatcher' = "loop" \/ UNCHANGED <<dispatcher, pending>>
    BY <1>7 DEF HandoffRefused, DiagnosticsStep, payloadVars, vars
  <2>2. IsContent(outbox, buffered, counted)' = IsContent(outbox, buffered, counted)
    BY <2>1 DEF IsContent, Deref
  <2>3. dispatcher' # "loop" =>
          IsContent(pending, buffered, counted)' = IsContent(pending, buffered, counted)
    BY <2>1 DEF IsContent, Deref
  <2>4. ASSUME NEW i \in InHand'
        PROVE  IsContent(held[i], given[i].events, given[i].evaluations)'
    <3>1. i \in InHand /\ IsContent(held[i], given[i].events, given[i].evaluations)
      BY <2>1 DEF InHand, IntactInvariant, PayloadsIntact
    <3> QED
      BY <2>1, <3>1 DEF IsContent, Deref
  <2>5. Summarized' = Summarized
    BY <2>1 DEF Summarized
  <2> QED
    BY <2>1, <2>2, <2>3, <2>4, <2>5 DEF IntactInvariant, PayloadsIntact
<1> QED
  BY <1>2, <1>3, <1>4, <1>5, <1>6, <1>7 DEF Next
-----------------------------------------------------------------------------
(* Paths, and the lookup tree.                                             *)

\* A path is a prefix of another one if it is no longer and they agree on its names.
LEMMA PrefixMeans ==
  ASSUME NEW N, NEW s \in Seq(N), NEW t \in Seq(N)
  PROVE  IsPrefix(s, t) <=> Len(s) <= Len(t) /\ \A i \in 1 .. Len(s) : s[i] = t[i]
<1>1. Len(s) \in Nat /\ Len(t) \in Nat
  OBVIOUS
<1>2. ASSUME Len(s) <= Len(t)
      PROVE  /\ SubSeq(s, 1, Len(s)) = [i \in 1 .. Len(s) |-> s[i]]
             /\ SubSeq(t, 1, Len(s)) = [i \in 1 .. Len(s) |-> t[i]]
  <2>1. ASSUME NEW r \in Seq(N), NEW n \in 0 .. Len(r)
        PROVE  SubSeq(r, 1, n) = [i \in 1 .. n |-> r[i]]
    <3>1. /\ SubSeq(r, 1, n) \in Seq(N) /\ Len(SubSeq(r, 1, n)) = n
          /\ \A i \in 1 .. n : SubSeq(r, 1, n)[i] = r[i]
      OBVIOUS
    <3>2. \A w \in Seq(N) : w = [i \in 1 .. Len(w) |-> w[i]]
      OBVIOUS
    <3> QED
      BY <3>1, <3>2
  <2> QED
    BY <1>1, <1>2, <2>1
<1> QED
  BY <1>1, <1>2 DEF IsPrefix

\* Paths are the same if their names are.
LEMMA PathsAreEqual ==
  ASSUME NEW N, NEW s \in Seq(N), NEW t \in Seq(N), Len(s) = Len(t),
         \A i \in 1 .. Len(s) : s[i] = t[i]
  PROVE  s = t
  OBVIOUS

\* The first n names of a path.
Cut(p, n) == SubSeq(p, 1, n)

\* They are a path, and one name more is the next of these paths.
LEMMA CutMeans ==
  ASSUME NEW N, NEW p \in Seq(N), NEW n \in 0 .. Len(p)
  PROVE  /\ Cut(p, n) \in Seq(N) /\ Len(Cut(p, n)) = n /\ IsPrefix(Cut(p, n), p)
         /\ \A i \in 1 .. n : Cut(p, n)[i] = p[i]
         /\ Cut(p, n) = << >> <=> n = 0
         /\ n < Len(p) => Append(Cut(p, n), p[n + 1]) = Cut(p, n + 1)
<1>0. Len(p) \in Nat /\ n \in Nat
  OBVIOUS
<1>1. ASSUME NEW m \in 0 .. Len(p)
      PROVE  /\ Cut(p, m) \in Seq(N) /\ Len(Cut(p, m)) = m
             /\ \A i \in 1 .. m : Cut(p, m)[i] = p[i]
  BY DEF Cut
<1>2. IsPrefix(Cut(p, n), p)
  BY <1>0, <1>1, PrefixMeans
<1>3. Cut(p, n) = << >> <=> n = 0
  <2>1. \A s \in Seq(N) : s = << >> <=> Len(s) = 0
    OBVIOUS
  <2> QED
    BY <1>1, <2>1
<1>4. ASSUME n < Len(p) PROVE Append(Cut(p, n), p[n + 1]) = Cut(p, n + 1)
  <2> DEFINE s == Cut(p, n)
             t == Cut(p, n + 1)
             u == Append(s, p[n + 1])
  <2>1. n + 1 \in 0 .. Len(p) /\ p[n + 1] \in N
    BY <1>0, <1>4
  <2>2. /\ s \in Seq(N) /\ Len(s) = n /\ \A i \in 1 .. n : s[i] = p[i]
        /\ t \in Seq(N) /\ Len(t) = n + 1 /\ \A i \in 1 .. (n + 1) : t[i] = p[i]
    BY <1>1, <2>1
  <2> HIDE DEF s, t
  <2>3. u \in Seq(N) /\ Len(u) = n + 1 /\ \A i \in 1 .. (n + 1) : u[i] = p[i]
    BY <1>0, <2>1, <2>2
  <2> HIDE DEF u
  <2>4. u = t
    BY <2>2, <2>3, PathsAreEqual
  <2> QED
    BY <2>4 DEF u, s, t
<1> QED
  BY <1>1, <1>2, <1>3, <1>4

\* A prefix of a path is one of its cuts.
LEMMA PrefixIsCut ==
  ASSUME NEW N, NEW s \in Seq(N), NEW p \in Seq(N), IsPrefix(s, p)
  PROVE  Len(s) \in 0 .. Len(p) /\ s = Cut(p, Len(s))
<1>1. Len(s) \in 0 .. Len(p) /\ \A i \in 1 .. Len(s) : s[i] = p[i]
  BY PrefixMeans
<1>2. /\ Cut(p, Len(s)) \in Seq(N) /\ Len(Cut(p, Len(s))) = Len(s)
      /\ \A i \in 1 .. Len(s) : Cut(p, Len(s))[i] = p[i]
  BY <1>1, CutMeans
<1> QED
  BY <1>1, <1>2, PathsAreEqual

\* Prefixes are an order, and those of one path are a chain.
LEMMA PrefixOrder ==
  ASSUME NEW N, NEW r \in Seq(N), NEW s \in Seq(N), NEW t \in Seq(N)
  PROVE  /\ IsPrefix(s, s)
         /\ IsPrefix(r, s) /\ IsPrefix(s, t) => IsPrefix(r, t)
         /\ IsPrefix(s, t) /\ IsPrefix(t, s) => s = t
         /\ IsPrefix(s, t) /\ Len(s) = Len(t) => s = t
         /\ IsPrefix(r, t) /\ IsPrefix(s, t) /\ Len(r) <= Len(s) => IsPrefix(r, s)
         /\ IsPrefix(s, << >>) => s = << >>
<1>1. Len(r) \in Nat /\ Len(s) \in Nat /\ Len(t) \in Nat
  OBVIOUS
<1> DEFINE Means(u, v) ==
             IsPrefix(u, v) <=> Len(u) <= Len(v) /\ \A i \in 1 .. Len(u) : u[i] = v[i]
<1>2. Means(s, s) /\ Means(r, s) /\ Means(s, t) /\ Means(t, s) /\ Means(r, t)
  <2>1. Means(s, s)
    BY PrefixMeans
  <2>2. Means(r, s)
    BY PrefixMeans
  <2>3. Means(s, t)
    BY PrefixMeans
  <2>4. Means(t, s)
    BY PrefixMeans
  <2>5. Means(r, t)
    BY PrefixMeans
  <2> HIDE DEF Means
  <2> QED
    BY <2>1, <2>2, <2>3, <2>4, <2>5
<1>3. IsPrefix(s, s)
  BY <1>1, <1>2
<1>4. IsPrefix(r, s) /\ IsPrefix(s, t) => IsPrefix(r, t)
  BY <1>1, <1>2
<1>5. IsPrefix(s, t) /\ Len(s) = Len(t) => s = t
  BY <1>1, <1>2, PathsAreEqual
<1>6. IsPrefix(s, t) /\ IsPrefix(t, s) => s = t
  BY <1>1, <1>2, <1>5
<1>7. IsPrefix(r, t) /\ IsPrefix(s, t) /\ Len(r) <= Len(s) => IsPrefix(r, s)
  BY <1>1, <1>2
<1>8. IsPrefix(s, << >>) => s = << >>
  <2>1. << >> \in Seq(N) /\ Len(<< >>) = 0
    OBVIOUS
  <2>2. IsPrefix(s, << >>) => Len(s) = 0
    BY <1>1, <2>1 DEF IsPrefix
  <2> QED
    BY <2>2
<1> QED
  BY <1>3, <1>4, <1>5, <1>6, <1>7, <1>8

\* What is in front of the last name of a path.
LEMMA FrontMeans ==
  ASSUME NEW N, NEW p \in Seq(N), p # << >>
  PROVE  /\ Len(p) \in Nat \ {0} /\ Front(p) \in Seq(N) /\ Len(Front(p)) = Len(p) - 1
         /\ Front(p) = Cut(p, Len(p) - 1) /\ IsPrefix(Front(p), p)
         /\ Append(Front(p), Last(p)) = p
         /\ Front(p) = << >> <=> Len(p) = 1
         /\ \A q \in Seq(N) : IsPrefix(q, p) <=> q = p \/ IsPrefix(q, Front(p))
<1>1. Len(p) \in Nat \ {0}
  OBVIOUS
<1>2. Front(p) = Cut(p, Len(p) - 1)
  BY DEF Front, Cut
<1> DEFINE n == Len(p) - 1
<1>3. n \in 0 .. Len(p) /\ n < Len(p) /\ n + 1 = Len(p)
  BY <1>1
<1>4. /\ Front(p) \in Seq(N) /\ Len(Front(p)) = n /\ IsPrefix(Front(p), p)
      /\ Front(p) = << >> <=> n = 0
      /\ Append(Front(p), p[n + 1]) = Cut(p, n + 1)
  <2>1. Front(p) = Cut(p, n)
    BY <1>2
  <2> HIDE DEF n
  <2> QED
    BY <1>3, <2>1, CutMeans
<1>5. Cut(p, n + 1) = p
  <2>1. IsPrefix(p, p)
    BY PrefixOrder
  <2> QED
    BY <1>3, <2>1, PrefixIsCut
<1>6. ASSUME NEW q \in Seq(N) PROVE IsPrefix(q, p) <=> q = p \/ IsPrefix(q, Front(p))
  <2>1. ASSUME IsPrefix(q, p), q # p PROVE IsPrefix(q, Front(p))
    <3>1. Len(q) \in 0 .. Len(p) /\ Len(q) # Len(p)
      BY <2>1, PrefixIsCut, PrefixOrder
    <3>2. Len(q) <= Len(Front(p))
      BY <1>3, <1>4, <3>1
    <3> QED
      BY <1>4, <2>1, <3>2, PrefixOrder
  <2>2. IsPrefix(q, Front(p)) => IsPrefix(q, p)
    BY <1>4, PrefixOrder
  <2>3. IsPrefix(p, p)
    BY PrefixOrder
  <2> QED
    BY <2>1, <2>2, <2>3
<1>7. Append(Front(p), Last(p)) = p
  BY <1>3, <1>4, <1>5 DEF Last
<1>8. Front(p) = << >> <=> Len(p) = 1
  BY <1>1, <1>4
<1> QED
  BY <1>1, <1>2, <1>4, <1>6, <1>7, <1>8

\* The nodes that a reference makes.
LEMMA PrefixesMean ==
  ASSUME NEW N, NEW t \in Seq(N)
  PROVE  Prefixes(t) \ {<< >>} = {q \in Seq(N) : q # << >> /\ IsPrefix(q, t)}
<1>1. Prefixes(t) = {Cut(t, n) : n \in 0 .. Len(t)}
  BY DEF Prefixes, Cut
<1>2. \A n \in 0 .. Len(t) : Cut(t, n) \in Seq(N) /\ IsPrefix(Cut(t, n), t)
  BY CutMeans
<1>3. \A q \in Seq(N) : IsPrefix(q, t) => Len(q) \in 0 .. Len(t) /\ q = Cut(t, Len(q))
  BY PrefixIsCut
<1> QED
  BY <1>1, <1>2, <1>3

\* The tree of the references at the places S of a list: a node for each prefix; a
\* reference is marked if none before it has made its node.
Nodes(N, refs, S) == {q \in Seq(N) : q # << >> /\ \E i \in S : IsPrefix(q, refs[i])}
Marked(refs, S) ==
  {refs[i] : i \in {j \in S : refs[j] # << >>
                              /\ \A k \in S : k < j => ~IsPrefix(refs[j], refs[k])}}
TreeOf(N, refs, S) == [nodes |-> Nodes(N, refs, S), marked |-> Marked(refs, S)]

\* m is the last of the places S of the list of references refs.
IsLastOf(N, refs, S, m) ==
  /\ DOMAIN refs \subseteq Nat
  /\ \A i \in DOMAIN refs : refs[i] \in Seq(N)
  /\ S \subseteq DOMAIN refs
  /\ m \in S
  /\ \A k \in S : k <= m

\* The tree with the last reference is made from that without it.
LEMMA TreeAdd ==
  ASSUME NEW N, NEW refs, NEW S, NEW m, IsLastOf(N, refs, S, m)
  PROVE  TreeOf(N, refs, S) = AddRef(TreeOf(N, refs, S \ {m}), refs[m])
<1> DEFINE ref == refs[m]
           T == S \ {m}
           path == {q \in Seq(N) : q # << >> /\ IsPrefix(q, ref)}
<1>1. /\ DOMAIN refs \subseteq Nat /\ \A i \in DOMAIN refs : refs[i] \in Seq(N)
      /\ S \subseteq DOMAIN refs /\ m \in S /\ \A k \in S : k <= m
  BY DEF IsLastOf
<1>0. S = T \cup {m}
  BY <1>1
<1>2. ref \in Seq(N) /\ m \in Nat /\ m \notin T /\ \A k \in T : k \in Nat /\ k < m
  BY <1>1
<1>3. Prefixes(ref) \ {<< >>} = path
  BY <1>2, PrefixesMean
<1>4. Nodes(N, refs, S) = Nodes(N, refs, T) \cup path
  <2>1. \A q : (\E i \in S : IsPrefix(q, refs[i]))
                 <=> (\E i \in T : IsPrefix(q, refs[i])) \/ IsPrefix(q, ref)
    BY <1>1
  <2> QED
    BY <2>1 DEF Nodes
<1>5. Marked(refs, S) = Marked(refs, T) \cup ((path \ Nodes(N, refs, T)) \cap {ref})
  <2> DEFINE new(j, U) == refs[j] # << >> /\ \A k \in U : k < j => ~IsPrefix(refs[j], refs[k])
  <2>1. ASSUME NEW j \in T PROVE new(j, S) <=> new(j, T)
    <3>1. \A k \in S : k \in T \/ k = m
      OBVIOUS
    <3>2. ~(m < j)
      BY <1>2
    <3> QED
      BY <3>1, <3>2
  <2>2. new(m, S) <=> ref \in path \ Nodes(N, refs, T)
    <3>1. IsPrefix(ref, ref)
      BY <1>2, PrefixOrder
    <3>2. new(m, S) <=> ref # << >> /\ \A k \in T : ~IsPrefix(ref, refs[k])
      BY <1>2
    <3> QED
      BY <1>2, <3>1, <3>2 DEF Nodes
  <2>3. Marked(refs, S) = {refs[i] : i \in {j \in S : new(j, S)}}
    BY DEF Marked
  <2>4. Marked(refs, T) = {refs[i] : i \in {j \in T : new(j, T)}}
    BY DEF Marked
  <2> HIDE DEF new, path
  <2>5. {j \in S : new(j, S)} = {j \in T : new(j, T)} \cup (IF new(m, S) THEN {m} ELSE {})
    BY <1>0, <2>1
  <2> QED
    BY <2>2, <2>3, <2>4, <2>5
<1>6. AddRef(TreeOf(N, refs, T), ref) =
        [nodes  |-> Nodes(N, refs, T) \cup path,
         marked |-> Marked(refs, T) \cup ((path \ Nodes(N, refs, T)) \cap {ref})]
  BY <1>3 DEF AddRef, TreeOf
<1> QED
  BY <1>4, <1>5, <1>6 DEF TreeOf

\* makePrivateAttrLookupData without the library's folds.
IsTrees(h, refs) ==
  h = [s \in SUBSET (DOMAIN refs) |->
         IF s = {} THEN EmptyTree ELSE AddRef(h[s \ {Max(s)}], refs[Max(s)])]

\* It is the last of the trees of the parts of the list.
LEMMA LookupDataDef ==
  ASSUME NEW refs
  PROVE  MakePrivateAttrLookupData(refs) = (CHOOSE h : IsTrees(h, refs))[DOMAIN refs]
  BY DEF MakePrivateAttrLookupData, FoldLeft, MapThenFoldSet, IsTrees

\* makePrivateAttrLookupData returns the tree of all references.
LEMMA LookupDataIsTree ==
  ASSUME NEW N, NEW refs \in Seq(Seq(N))
  PROVE  MakePrivateAttrLookupData(refs) = TreeOf(N, refs, DOMAIN refs)
<1> DEFINE D == DOMAIN refs
           trees == [s \in SUBSET D |-> TreeOf(N, refs, s)]
<1>0. \A i \in D : refs[i] \in Seq(N)
  OBVIOUS
<1>1. D \subseteq Nat /\ IsFiniteSet(D)
  <2>1. D = 1 .. Len(refs) /\ Len(refs) \in Nat
    OBVIOUS
  <2> QED
    BY <2>1, FS_Interval
<1>2. ASSUME NEW s \in SUBSET D, s # {}
      PROVE  Max(s) \in s /\ \A k \in s : k <= Max(s)
  <2>1. s \in SUBSET Nat /\ IsFiniteSet(s)
    BY <1>1, FS_Subset
  <2> QED
    BY <1>2, <2>1, SmallestAndLargest
<1>3. TreeOf(N, refs, {}) = EmptyTree
  BY DEF TreeOf, Nodes, Marked, EmptyTree
<1>4. ASSUME NEW s \in SUBSET D
      PROVE  trees[s] = IF s = {} THEN EmptyTree ELSE AddRef(trees[s \ {Max(s)}], refs[Max(s)])
  <2>1. CASE s = {}
    BY <1>3, <2>1
  <2>2. CASE s # {}
    <3> DEFINE m == Max(s)
    <3>1. m \in s /\ \A k \in s : k <= m
      BY <1>2, <2>2
    <3>2. trees[s] = TreeOf(N, refs, s) /\ trees[s \ {m}] = TreeOf(N, refs, s \ {m})
      OBVIOUS
    <3>3. IsLastOf(N, refs, s, m)
      BY <1>0, <1>1, <3>1 DEF IsLastOf
    <3> HIDE DEF m, D, trees
    <3>4. TreeOf(N, refs, s) = AddRef(TreeOf(N, refs, s \ {m}), refs[m])
      BY <3>3, TreeAdd
    <3>5. trees[s] = AddRef(trees[s \ {m}], refs[m])
      BY <3>2, <3>4
    <3> QED
      BY <2>2, <3>5 DEF m
  <2> QED
    BY <2>1, <2>2
<1>5. IsTrees(trees, refs)
  BY <1>4 DEF IsTrees
<1> DEFINE h == CHOOSE h : IsTrees(h, refs)
<1>6. IsTrees(h, refs)
  BY <1>5
<1> HIDE DEF h
<1>7. \A s \in SUBSET D : h[s] = trees[s]
  <2> DEFINE bad == {s \in SUBSET D : h[s] # trees[s]}
  <2>1. SUFFICES ASSUME bad # {} PROVE FALSE
    OBVIOUS
  <2>2. IsWellFoundedOn(StrictSubsetOrdering(D), SUBSET D)
    BY <1>1, FS_StrictSubsetOrderingWellFounded, FS_FiniteSubsetsOfFinite
  <2>3. PICK s \in bad : \A t \in bad : <<t, s>> \notin StrictSubsetOrdering(D)
    <3>1. bad \subseteq SUBSET D
      OBVIOUS
    <3> HIDE DEF bad
    <3> QED
      BY <2>1, <2>2, <3>1, WFMin
  <2>4. h[s] = IF s = {} THEN EmptyTree ELSE AddRef(h[s \ {Max(s)}], refs[Max(s)])
    BY <1>6 DEF IsTrees
  <2>5. trees[s] = IF s = {} THEN EmptyTree ELSE AddRef(trees[s \ {Max(s)}], refs[Max(s)])
    BY <1>4
  <2>6. s # {}
    BY <2>4, <2>5
  <2> DEFINE t == s \ {Max(s)}
  <2>7. t \in SUBSET D /\ t \subseteq s /\ t # s
    BY <1>2, <2>6
  <2>8. t \notin bad
    BY <2>3, <2>7 DEF StrictSubsetOrdering
  <2> QED
    BY <2>4, <2>5, <2>6, <2>7, <2>8
<1> QED
  BY <1>7, LookupDataDef DEF h, trees

\* An unmarked node has another one below it.
LEMMA UnmarkedHasChildren ==
  ASSUME NEW N, NEW refs \in Seq(Seq(N)), NEW q \in Nodes(N, refs, DOMAIN refs),
         q \notin Marked(refs, DOMAIN refs)
  PROVE  \E m \in Nodes(N, refs, DOMAIN refs) : IsStrictPrefix(q, m)
<1> DEFINE D == DOMAIN refs
           made == {i \in D : IsPrefix(q, refs[i])}
           first == Min(made)
<1>1. D \subseteq Nat /\ IsFiniteSet(D) /\ \A i \in D : refs[i] \in Seq(N)
  <2>1. D = 1 .. Len(refs) /\ Len(refs) \in Nat
    OBVIOUS
  <2> QED
    BY <2>1, FS_Interval
<1>2. q \in Seq(N) /\ q # << >> /\ made # {}
  BY DEF Nodes
<1>3. first \in made /\ \A i \in made : first <= i
  <2>1. made \in SUBSET Nat /\ IsFiniteSet(made)
    BY <1>1, FS_Subset
  <2> QED
    BY <1>2, <2>1, SmallestAndLargest
<1>4. ASSUME NEW k \in D, k < first PROVE ~IsPrefix(q, refs[k])
  <2>1. first \in Nat /\ k \in Nat
    BY <1>1, <1>3
  <2>2. k \notin made
    <3> HIDE DEF made, first
    <3> QED
      BY <1>3, <1>4, <2>1
  <2> QED
    BY <2>2
<1>5. refs[first] # q
  BY <1>2, <1>3, <1>4 DEF Marked
<1>6. refs[first] # << >> /\ IsPrefix(refs[first], refs[first])
  BY <1>1, <1>2, <1>3, PrefixOrder
<1>7. refs[first] \in Nodes(N, refs, D)
  BY <1>1, <1>3, <1>6 DEF Nodes
<1> QED
  BY <1>3, <1>5, <1>7 DEF IsStrictPrefix

\* A node is there with all that is above it.
LEMMA NodesAreClosed ==
  ASSUME NEW N, NEW refs \in Seq(Seq(N)), NEW q \in Nodes(N, refs, DOMAIN refs),
         NEW r \in Seq(N), r # << >>, IsPrefix(r, q)
  PROVE  r \in Nodes(N, refs, DOMAIN refs)
<1>1. PICK i \in DOMAIN refs : IsPrefix(q, refs[i])
  BY DEF Nodes
<1>2. refs[i] \in Seq(N) /\ q \in Seq(N)
  BY DEF Nodes
<1>3. IsPrefix(r, refs[i])
  BY <1>1, <1>2, PrefixOrder
<1> QED
  BY <1>3 DEF Nodes

\* No reference that has taken effect is above p: the search gets to p.
NothingAbove(N, refs, p) ==
  \A q \in Seq(N) : q # << >> /\ IsPrefix(q, p) /\ q # p => q \notin Marked(refs, DOMAIN refs)

\* Where the search is after i rounds.
SearchedTo(N, refs, p, i) == {Cut(p, i)} \cap (Nodes(N, refs, DOMAIN refs) \cup {<< >>})

\* One round of the loop of checkGlobalPrivateAttrRefs.
LEMMA DescendAlong ==
  ASSUME NEW N, NEW refs \in Seq(Seq(N)), NEW p \in Seq(N), NEW i \in 1 .. (Len(p) - 1),
         NothingAbove(N, refs, p)
  PROVE  Descend(TreeOf(N, refs, DOMAIN refs), SearchedTo(N, refs, p, i - 1), p[i])
           = SearchedTo(N, refs, p, i)
<1> DEFINE nodes == Nodes(N, refs, DOMAIN refs)
           a == Cut(p, i - 1)
           b == Cut(p, i)
           lookup == SearchedTo(N, refs, p, i - 1)
           next == {Append(n, p[i]) : n \in lookup} \cap nodes
           deeper == \E n \in next, m \in nodes : IsStrictPrefix(n, m)
<1>1. Len(p) \in Nat /\ i \in Nat /\ i # 0 /\ i < Len(p) /\ i - 1 \in 0 .. Len(p) /\ i \in 0 .. Len(p)
      /\ i - 1 < Len(p) /\ (i - 1) + 1 = i
  OBVIOUS
<1>2. /\ a \in Seq(N) /\ Len(a) = i - 1 /\ IsPrefix(a, p)
      /\ a = << >> <=> i - 1 = 0
      /\ Append(a, p[i]) = b
  <2> DEFINE k == i - 1
  <2>1. k \in 0 .. Len(p) /\ k < Len(p) /\ k + 1 = i
    BY <1>1
  <2>2. /\ Cut(p, k) \in Seq(N) /\ Len(Cut(p, k)) = k /\ IsPrefix(Cut(p, k), p)
        /\ Cut(p, k) = << >> <=> k = 0
        /\ Append(Cut(p, k), p[k + 1]) = Cut(p, k + 1)
    <3> HIDE DEF k
    <3> QED
      BY <2>1, CutMeans
  <2> QED
    BY <2>1, <2>2
<1>3. b \in Seq(N) /\ Len(b) = i /\ IsPrefix(b, p) /\ b # << >>
  BY <1>1, CutMeans
<1>4. IsPrefix(a, b) /\ b # p
  BY <1>1, <1>2, <1>3, PrefixOrder
<1>5. Descend(TreeOf(N, refs, DOMAIN refs), lookup, p[i]) =
        IF deeper THEN next ELSE IF next = {} THEN {} ELSE lookup
  BY DEF Descend, TreeOf
<1>6. lookup = {a} \cap (nodes \cup {<< >>}) /\ SearchedTo(N, refs, p, i) = {b} \cap nodes
  BY <1>3 DEF SearchedTo
<1> HIDE DEF lookup, nodes, a, b
<1>7. CASE a \in nodes \cup {<< >>}
  <2>1. lookup = {a}
    BY <1>6, <1>7
  <2>2. next = {b} \cap nodes
    BY <1>2, <2>1
  <2>3. CASE b \in nodes
    <3>1. b \notin Marked(refs, DOMAIN refs)
      BY <1>3, <1>4 DEF NothingAbove
    <3>2. \E m \in nodes : IsStrictPrefix(b, m)
      BY <2>3, <3>1, UnmarkedHasChildren DEF nodes
    <3>3. deeper
      BY <2>2, <2>3, <3>2
    <3> QED
      BY <1>5, <1>6, <2>2, <3>3 DEF lookup
  <2>4. CASE b \notin nodes
    <3>1. next = {} /\ ~deeper
      BY <2>2, <2>4
    <3> QED
      BY <1>5, <1>6, <2>4, <3>1 DEF lookup
  <2> QED
    BY <2>3, <2>4
<1>8. CASE a \notin nodes \cup {<< >>}
  <2>1. lookup = {}
    BY <1>6, <1>8
  <2>2. next = {} /\ ~deeper
    BY <2>1
  <2>3. b \notin nodes
    BY <1>2, <1>3, <1>4, <1>8, NodesAreClosed DEF nodes
  <2> QED
    BY <1>5, <1>6, <2>2, <2>3 DEF lookup
<1> QED
  BY <1>7, <1>8

\* A function of the first n numbers that is determined by recursion is what satisfies
\* the recursion.
IsSearch(h, tree, path) ==
  h = [i \in 0 .. (Len(path) - 1) |->
         IF i = 0 THEN {<< >>} ELSE Descend(tree, h[i - 1], path[i])]

\* The loop of checkGlobalPrivateAttrRefs in these terms.
LEMMA NodeAtDef ==
  ASSUME NEW tree, NEW path
  PROVE  NodeAt(tree, path) =
           {Append(n, Last(path)) : n \in (CHOOSE h : IsSearch(h, tree, path))[Len(path) - 1]}
             \cap tree.nodes
  BY DEF NodeAt, IsSearch

\* The least of some numbers.
LEMMA LeastOfNumbers ==
  ASSUME NEW S \in SUBSET Nat, S # {}
  PROVE  \E n \in S : \A k \in S : n <= k
<1>1. PICK m \in S : TRUE
  OBVIOUS
<1> DEFINE T == {k \in S : k <= m}
<1>2. T \in SUBSET Nat /\ T # {} /\ IsFiniteSet(T)
  <2>1. T \subseteq 0 .. m /\ m \in T
    <3>1. \A k \in S : k \in Nat
      OBVIOUS
    <3>2. m \in Nat
      BY <1>1, <3>1
    <3>3. m \in T
      BY <3>2
    <3>4. \A k \in T : k \in Nat /\ k <= m
      BY <3>1
    <3>5. \A k \in T : k \in 0 .. m
      BY <3>2, <3>4
    <3> HIDE DEF T
    <3> QED
      BY <3>3, <3>5
  <2>2. IsFiniteSet(0 .. m)
    BY FS_Interval
  <2> QED
    BY <2>1, <2>2, FS_Subset
<1>3. Min(T) \in T /\ \A k \in T : Min(T) <= k
  <2> HIDE DEF T
  <2> QED
    BY <1>2, SmallestAndLargest
<1>4. ASSUME NEW k \in S PROVE Min(T) <= k
  <2>1. CASE k <= m
    BY <1>3, <2>1
  <2>2. CASE ~(k <= m)
    <3>1. Min(T) \in Nat /\ Min(T) <= m /\ k \in Nat
      BY <1>3
    <3> QED
      BY <2>2, <3>1
  <2> QED
    BY <2>1, <2>2
<1> QED
  BY <1>3, <1>4

\* checkGlobalPrivateAttrRefs finds the node of a path, if there is one.
LEMMA NodeAtFinds ==
  ASSUME NEW N, NEW refs \in Seq(Seq(N)), NEW p \in Seq(N), p # << >>, NothingAbove(N, refs, p)
  PROVE  NodeAt(TreeOf(N, refs, DOMAIN refs), p) = {p} \cap Nodes(N, refs, DOMAIN refs)
<1> DEFINE nodes == Nodes(N, refs, DOMAIN refs)
           tree == TreeOf(N, refs, DOMAIN refs)
           n == Len(p) - 1
           at == [i \in 0 .. n |-> SearchedTo(N, refs, p, i)]
<1>1. /\ Len(p) \in Nat \ {0} /\ Front(p) \in Seq(N) /\ Front(p) = Cut(p, n)
      /\ IsPrefix(Front(p), p) /\ Append(Front(p), Last(p)) = p
  BY FrontMeans
<1>2. Cut(p, 0) = << >>
  BY <1>1, CutMeans
<1>3. ASSUME NEW i \in 0 .. n
      PROVE  at[i] = IF i = 0 THEN {<< >>} ELSE Descend(tree, at[i - 1], p[i])
  <2>1. CASE i = 0
    BY <1>2, <2>1 DEF SearchedTo
  <2>2. CASE i # 0
    <3>1. i \in 1 .. (Len(p) - 1) /\ i - 1 \in 0 .. n
      BY <1>1, <2>2
    <3>2. Descend(tree, SearchedTo(N, refs, p, i - 1), p[i]) = SearchedTo(N, refs, p, i)
      BY <3>1, DescendAlong
    <3> QED
      BY <2>2, <3>1, <3>2
  <2> QED
    BY <2>1, <2>2
<1>4. IsSearch(at, tree, p)
  BY <1>3 DEF IsSearch
<1> DEFINE h == CHOOSE h : IsSearch(h, tree, p)
<1>5. IsSearch(h, tree, p)
  BY <1>4
<1>6. NodeAt(tree, p) = {Append(q, Last(p)) : q \in h[n]} \cap nodes
  BY NodeAtDef DEF TreeOf
<1> HIDE DEF h
<1>7. \A i \in 0 .. n : h[i] = at[i]
  <2> DEFINE bad == {i \in 0 .. n : h[i] # at[i]}
  <2>1. SUFFICES ASSUME bad # {} PROVE FALSE
    OBVIOUS
  <2>2. PICK i \in bad : \A k \in bad : i <= k
    <3>1. bad \in SUBSET Nat
      OBVIOUS
    <3> HIDE DEF bad
    <3> QED
      BY <2>1, <3>1, LeastOfNumbers
  <2>3. h[i] = IF i = 0 THEN {<< >>} ELSE Descend(tree, h[i - 1], p[i])
    <3>1. i \in 0 .. (Len(p) - 1)
      OBVIOUS
    <3> HIDE DEF tree, bad
    <3> QED
      BY <1>5, <3>1 DEF IsSearch
  <2>4. at[i] = IF i = 0 THEN {<< >>} ELSE Descend(tree, at[i - 1], p[i])
    BY <1>3
  <2>5. i # 0
    BY <2>3, <2>4
  <2>6. i - 1 \in 0 .. n /\ i - 1 \notin bad
    <3>1. i \in Nat /\ i - 1 \in 0 .. n /\ ~(i <= i - 1)
      BY <2>5
    <3> HIDE DEF bad
    <3> QED
      BY <2>2, <3>1
  <2>7. h[i - 1] = at[i - 1]
    BY <2>6
  <2> HIDE DEF at
  <2> QED
    BY <2>3, <2>4, <2>5, <2>7
<1>8. h[n] = {Front(p)} \cap (nodes \cup {<< >>})
  <2>1. n \in 0 .. n
    BY <1>1
  <2> QED
    BY <1>1, <1>7, <2>1 DEF SearchedTo
<1>9. CASE Front(p) \in nodes \cup {<< >>}
  BY <1>1, <1>6, <1>8, <1>9
<1>10. CASE Front(p) \notin nodes \cup {<< >>}
  <2>1. p \notin nodes
    BY <1>1, <1>10, NodesAreClosed
  <2> QED
    BY <1>6, <1>8, <1>10, <2>1
<1> QED
  BY <1>9, <1>10
-----------------------------------------------------------------------------
(* What is redacted.                                                       *)

\* What becomes of a path, from what becomes of what it is in and what maybeRedact says.
After(parent, own) ==
  CASE parent = "nested" -> own
    [] parent = "clear"  -> "clear"
    [] OTHER             -> "gone"

IsOutcome(h, f, c) ==
  h = [path \in c.attrs |->
         After(IF Len(path) = 1 THEN "nested" ELSE h[Front(path)], MaybeRedact(f, c, path))]

\* writeFilteredAttribute for every path is what satisfies its recursion.
LEMMA OutcomeDef ==
  ASSUME NEW f, NEW c PROVE Outcome(f, c) = CHOOSE h : IsOutcome(h, f, c)
  BY DEF Outcome, IsOutcome, After

\* The paths of a context and its references consist of the names N.
IsContextOf(N, c) ==
  IsContext(c) /\ c.attrs \subseteq Seq(N) /\ ToSet(c.private) \subseteq Seq(N)

\* A path of a context that has more than one name is in an object of the context.
LEMMA FrontOfAttribute ==
  ASSUME NEW N, NEW c, IsContextOf(N, c), NEW p \in c.attrs
  PROVE  /\ p \in Seq(N) /\ p # << >>
         /\ Len(p) # 1 => Front(p) \in c.attrs /\ Front(p) \in c.objects /\ Len(p) > 1
<1>1. p \in Seq(N) /\ p # << >>
  BY DEF IsContextOf, IsContext
<1>2. Len(p) \in Nat \ {0}
  BY <1>1, FrontMeans
<1>3. \A n \in Nat \ {0} : n # 1 => n > 1
  OBVIOUS
<1>4. Len(p) # 1 => Len(p) > 1
  BY <1>2, <1>3
<1> QED
  BY <1>1, <1>4 DEF IsContextOf, IsContext

\* The recursion of writeFilteredAttribute has a solution: everything depends on the
\* first object on the path that is not to be filtered.
LEMMA OutcomeExists ==
  ASSUME NEW N, NEW f, NEW c, IsContextOf(N, c)
  PROVE  IsOutcome(Outcome(f, c), f, c)
<1> DEFINE B(p) == MaybeRedact(f, c, p)
           Open(p, n) == \A i \in 1 .. (n - 1) : B(Cut(p, i)) = "nested"
           Clear_(p, n) == \E i \in 1 .. (n - 1) : B(Cut(p, i)) = "clear" /\ Open(p, i)
           Solution(p, n) == IF Open(p, n) THEN B(Cut(p, n))
                             ELSE IF Clear_(p, n) THEN "clear" ELSE "gone"
           h == [p \in c.attrs |-> Solution(p, Len(p))]
<1>1. ASSUME NEW p, NEW n \in Nat, n > 0
      PROVE  Solution(p, n + 1) = After(Solution(p, n), B(Cut(p, n + 1)))
  <2>1. \A i : i \in 1 .. ((n + 1) - 1) <=> i \in 1 .. (n - 1) \/ i = n
    BY <1>1
  <2>2. Open(p, n + 1) <=> Open(p, n) /\ B(Cut(p, n)) = "nested"
    BY <2>1
  <2>3. Clear_(p, n + 1) <=> Clear_(p, n) \/ (B(Cut(p, n)) = "clear" /\ Open(p, n))
    BY <2>1
  <2>4. Clear_(p, n) => ~Open(p, n)
    OBVIOUS
  <2> HIDE DEF B, Open, Clear_
  <2> QED
    BY <2>2, <2>3, <2>4 DEF After
<1>2. ASSUME NEW p PROVE Solution(p, 1) = B(Cut(p, 1))
  OBVIOUS
<1>3. ASSUME NEW p \in c.attrs
      PROVE  h[p] = After(IF Len(p) = 1 THEN "nested" ELSE h[Front(p)], MaybeRedact(f, c, p))
  <2>1. p \in Seq(N) /\ p # << >> /\ (Len(p) # 1 => Front(p) \in c.attrs /\ Len(p) > 1)
    BY FrontOfAttribute
  <2>2. /\ Len(p) \in Nat \ {0} /\ Front(p) \in Seq(N) /\ Len(Front(p)) = Len(p) - 1
        /\ Front(p) = Cut(p, Len(p) - 1)
    BY <2>1, FrontMeans
  <2>3. Cut(p, Len(p)) = p
    <3>1. IsPrefix(p, p)
      BY <2>1, PrefixOrder
    <3> QED
      BY <2>1, <3>1, PrefixIsCut
  <2>4. CASE Len(p) = 1
    <3>1. h[p] = B(p)
      BY <1>2, <2>3, <2>4
    <3> QED
      BY <2>4, <3>1 DEF After
  <2>5. CASE Len(p) # 1
    <3> DEFINE n == Len(p) - 1
               q == Front(p)
    <3>1. n \in Nat /\ n > 0 /\ n + 1 = Len(p) /\ q \in c.attrs /\ Len(q) = n
      BY <2>1, <2>2, <2>5
    <3>2. Solution(p, n + 1) = After(Solution(p, n), B(Cut(p, n + 1)))
      BY <1>1, <3>1
    <3>3. \A i \in 1 .. n : Cut(q, i) = Cut(p, i)
      <4>1. ASSUME NEW i \in 1 .. n PROVE Cut(q, i) = Cut(p, i)
        <5>1. i \in 0 .. Len(p) /\ i \in 0 .. Len(q) /\ \A j \in 1 .. i : j \in 1 .. n
          BY <3>1
        <5>2. n \in 0 .. Len(p)
          BY <3>1
        <5>3. /\ Cut(q, i) \in Seq(N) /\ Len(Cut(q, i)) = i
              /\ \A j \in 1 .. i : Cut(q, i)[j] = q[j]
          BY <2>2, <5>1, CutMeans
        <5>4. /\ Cut(p, i) \in Seq(N) /\ Len(Cut(p, i)) = i
              /\ \A j \in 1 .. i : Cut(p, i)[j] = p[j]
          BY <2>1, <5>1, CutMeans
        <5>5. \A j \in 1 .. n : Cut(p, n)[j] = p[j]
          BY <2>1, <5>2, CutMeans
        <5>6. \A j \in 1 .. i : q[j] = p[j]
          BY <2>2, <5>1, <5>5
        <5> QED
          BY <5>3, <5>4, <5>6, PathsAreEqual
      <4> QED
        BY <4>1
    <3>4. Solution(q, n) = Solution(p, n)
      <4>1. \A m \in 1 .. n : Open(q, m) <=> Open(p, m)
        BY <3>1, <3>3
      <4>2. n \in 1 .. n /\ \A i \in 1 .. (n - 1) : i \in 1 .. n
        BY <3>1
      <4>3. Clear_(q, n) <=> Clear_(p, n)
        <5> HIDE DEF n, q, B, Open
        <5> QED
          BY <3>3, <4>1, <4>2
      <4> HIDE DEF Open, Clear_, n, q, B
      <4> QED
        BY <3>3, <4>1, <4>2, <4>3 DEF B
    <3>5. h[p] = Solution(p, n + 1) /\ h[q] = Solution(q, n) /\ B(Cut(p, n + 1)) = B(p)
      BY <2>3, <3>1
    <3> HIDE DEF Solution, h, n
    <3> QED
      BY <2>5, <3>2, <3>4, <3>5
  <2> QED
    BY <2>4, <2>5
<1>4. IsOutcome(h, f, c)
  BY <1>3 DEF IsOutcome
<1> HIDE DEF h
<1> QED
  BY <1>4, OutcomeDef

\* The references that are private for a context: those of the configuration that have
\* taken effect, and its own.
PrivateRefs(refs, c) == Marked(refs, DOMAIN refs) \cup ToSet(c.private)

\* What S says of a path: it is one of S or within one; none of S is within it.
Designated(S, p) == \E ref \in S : ref # << >> /\ IsPrefix(ref, p)
Untouched(S, p) == \A ref \in S : ~IsPrefix(p, ref)

\* A reference that has taken effect has a node.
LEMMA MarkedAreNodes ==
  ASSUME NEW N, NEW refs \in Seq(Seq(N))
  PROVE  Marked(refs, DOMAIN refs) \subseteq Nodes(N, refs, DOMAIN refs)
<1>1. ASSUME NEW i \in DOMAIN refs, refs[i] # << >>
      PROVE  refs[i] \in Nodes(N, refs, DOMAIN refs)
  <2>1. refs[i] \in Seq(N)
    OBVIOUS
  <2>2. IsPrefix(refs[i], refs[i])
    BY <2>1, PrefixOrder
  <2> QED
    BY <1>1, <2>1, <2>2 DEF Nodes
<1> QED
  BY <1>1 DEF Marked

\* What maybeRedact says of a path the search gets to.
LEMMA MaybeRedactMeans ==
  ASSUME NEW N, NEW refs \in Seq(Seq(N)), NEW f,
         f.privateAttributes = TreeOf(N, refs, DOMAIN refs),
         NEW c, IsContextOf(N, c), NEW p \in c.attrs, NothingAbove(N, refs, p)
  PROVE  /\ MaybeRedact(f, c, p) \in {"redacted", "nested", "clear"}
         /\ MaybeRedact(f, c, p) = "redacted" <=> p \in PrivateRefs(refs, c)
         /\ MaybeRedact(f, c, p) = "clear" /\ p \in c.objects => Untouched(PrivateRefs(refs, c), p)
<1> DEFINE nodes == Nodes(N, refs, DOMAIN refs)
           marked == Marked(refs, DOMAIN refs)
           own == OwnRefsAt(c, p)
           node == {p} \cap nodes
<1>1. p \in Seq(N) /\ p # << >> /\ IsPrefix(p, p)
  BY FrontOfAttribute, PrefixOrder
<1>2. NodeAt(f.privateAttributes, p) = node
  BY <1>1, NodeAtFinds
<1>3. marked \subseteq nodes
  BY MarkedAreNodes
<1>4. f.privateAttributes.marked = marked
  BY DEF TreeOf
<1>5. p \in own <=> p \in ToSet(c.private)
  BY <1>1 DEF OwnRefsAt
<1>6. MaybeRedact(f, c, p) =
        IF node \cap marked # {} \/ p \in own THEN "redacted"
        ELSE IF node # {} \/ own # {} THEN "nested" ELSE "clear"
  BY <1>2, <1>4 DEF MaybeRedact
<1>7. node \cap marked # {} <=> p \in marked
  BY <1>3
<1>8. ASSUME node = {}, own = {}, p \in c.objects PROVE Untouched(PrivateRefs(refs, c), p)
  <2>1. \A i \in DOMAIN refs : ~IsPrefix(p, refs[i])
    BY <1>1, <1>8 DEF Nodes
  <2>2. \A ref \in ToSet(c.private) : ~IsPrefix(p, ref)
    BY <1>8 DEF OwnRefsAt
  <2> QED
    BY <2>1, <2>2 DEF Untouched, PrivateRefs, Marked
<1> HIDE DEF node, own, marked
<1> QED
  BY <1>5, <1>6, <1>7, <1>8 DEF PrivateRefs, marked

\* What becomes of a path, by what is private.
IsDecided(o, c, S, p) ==
  /\ o \in {"redacted", "nested", "clear", "gone"}
  /\ o \in {"nested", "clear"} <=> ~Designated(S, p)
  /\ o = "redacted" <=> Designated(S, p) /\ (Len(p) = 1 \/ ~Designated(S, Front(p)))
  /\ o = "clear" /\ p \in c.objects => Untouched(S, p)

\* If it is so for what a path is in, it is so for the path.
LEMMA OutcomeStep ==
  ASSUME NEW N, NEW refs \in Seq(Seq(N)), NEW f,
         f.privateAttributes = TreeOf(N, refs, DOMAIN refs),
         NEW c, IsContextOf(N, c), NEW p \in c.attrs, NEW parent,
         IF Len(p) = 1 THEN parent = "nested"
         ELSE IsDecided(parent, c, PrivateRefs(refs, c), Front(p))
  PROVE  IsDecided(After(parent, MaybeRedact(f, c, p)), c, PrivateRefs(refs, c), p)
<1> DEFINE S == PrivateRefs(refs, c)
           o == After(parent, MaybeRedact(f, c, p))
           q == Front(p)
<1>1. p \in Seq(N) /\ p # << >> /\ (Len(p) # 1 => q \in c.objects)
  BY FrontOfAttribute
<1>2. /\ q \in Seq(N) /\ IsPrefix(q, p) /\ (q = << >> <=> Len(p) = 1)
      /\ \A r \in Seq(N) : IsPrefix(r, p) <=> r = p \/ IsPrefix(r, q)
  BY <1>1, FrontMeans
<1>3. S \subseteq Seq(N)
  <2>1. \A i \in DOMAIN refs : refs[i] \in Seq(N)
    OBVIOUS
  <2> QED
    BY <2>1 DEF PrivateRefs, Marked, IsContextOf
<1>4. Designated(S, p) <=> p \in S \/ Designated(S, q)
  BY <1>1, <1>2, <1>3 DEF Designated
<1>5. Len(p) = 1 => ~Designated(S, q)
  BY <1>2, <1>3, PrefixOrder DEF Designated
<1>6. Untouched(S, q) => Untouched(S, p)
  BY <1>1, <1>2, <1>3, PrefixOrder DEF Untouched
<1>7. Untouched(S, q) => p \notin S
  BY <1>2 DEF Untouched
<1>8. ~Designated(S, q) => NothingAbove(N, refs, p)
  BY <1>2 DEF NothingAbove, Designated, PrivateRefs
<1>9. ~Designated(S, q) =>
        /\ MaybeRedact(f, c, p) \in {"redacted", "nested", "clear"}
        /\ MaybeRedact(f, c, p) = "redacted" <=> p \in S
        /\ MaybeRedact(f, c, p) = "clear" /\ p \in c.objects => Untouched(S, p)
  BY <1>8, MaybeRedactMeans
<1> HIDE DEF S, q
<1>10. CASE Len(p) = 1 \/ parent = "nested"
  <2>1. parent = "nested" /\ ~Designated(S, q)
    BY <1>5, <1>10 DEF IsDecided, S, q
  <2>2. o = MaybeRedact(f, c, p)
    BY <2>1 DEF After
  <2> QED
    BY <1>4, <1>9, <2>1, <2>2 DEF IsDecided, S, q
<1>11. CASE Len(p) # 1 /\ parent = "clear"
  <2>1. ~Designated(S, q) /\ Untouched(S, q)
    BY <1>1, <1>11 DEF IsDecided, S, q
  <2>2. o = "clear"
    BY <1>11 DEF After
  <2> QED
    BY <1>4, <1>6, <1>7, <2>1, <2>2 DEF IsDecided, S, q
<1>12. CASE Len(p) # 1 /\ parent \in {"redacted", "gone"}
  <2>1. Designated(S, q)
    BY <1>12 DEF IsDecided, S, q
  <2>2. o = "gone"
    BY <1>12 DEF After
  <2> QED
    BY <1>4, <1>12, <2>1, <2>2 DEF IsDecided, S, q
<1> QED
  BY <1>10, <1>11, <1>12 DEF IsDecided

\* What writeFilteredAttribute does with a path.
LEMMA OutcomeMeans ==
  ASSUME NEW N, NEW refs \in Seq(Seq(N)), NEW f,
         f.privateAttributes = TreeOf(N, refs, DOMAIN refs),
         NEW c, IsContextOf(N, c), NEW p \in c.attrs
  PROVE  IsDecided(Outcome(f, c)[p], c, PrivateRefs(refs, c), p)
<1> DEFINE Good(q) == IsDecided(Outcome(f, c)[q], c, PrivateRefs(refs, c), q)
           bad == {q \in c.attrs : ~Good(q)}
           lengths == {Len(q) : q \in bad}
<1>1. SUFFICES ASSUME bad # {} PROVE FALSE
  OBVIOUS
<1>2. \A q \in c.attrs : Len(q) \in Nat \ {0}
  BY FrontOfAttribute, FrontMeans
<1>3. PICK n \in lengths : \A k \in lengths : n <= k
  <2>1. lengths \in SUBSET Nat /\ lengths # {}
    BY <1>1, <1>2
  <2> HIDE DEF lengths
  <2> QED
    BY <2>1, LeastOfNumbers
<1>4. PICK q \in bad : Len(q) = n
  BY <1>3
<1>5. IsOutcome(Outcome(f, c), f, c)
  BY OutcomeExists
<1> DEFINE parent == IF Len(q) = 1 THEN "nested" ELSE Outcome(f, c)[Front(q)]
<1>6. Outcome(f, c)[q] = After(parent, MaybeRedact(f, c, q))
  BY <1>5 DEF IsOutcome
<1>7. Len(q) # 1 => Good(Front(q))
  <2>1. ASSUME Len(q) # 1 PROVE Front(q) \notin bad
    <3>1. Len(Front(q)) = Len(q) - 1
      BY FrontOfAttribute, FrontMeans
    <3>2. ~(Len(q) <= Len(q) - 1)
      BY <1>2
    <3>3. Len(Front(q)) \notin lengths
      <4> HIDE DEF lengths, bad
      <4> QED
        BY <1>3, <1>4, <3>1, <3>2
    <3> QED
      BY <3>3
  <2>2. Len(q) # 1 => Front(q) \in c.attrs
    BY FrontOfAttribute
  <2> HIDE DEF Good
  <2> QED
    BY <2>1, <2>2
<1>8. Good(q)
  <2>1. IF Len(q) = 1 THEN parent = "nested"
        ELSE IsDecided(parent, c, PrivateRefs(refs, c), Front(q))
    BY <1>7
  <2>2. q \in c.attrs
    OBVIOUS
  <2> HIDE DEF parent, bad
  <2> QED
    BY <1>6, <2>1, <2>2, OutcomeStep
<1> QED
  BY <1>8

\* The references that take effect are those that are marked.
LEMMA EffectiveAreMarked ==
  ASSUME NEW N, NEW refs \in Seq(Seq(N))
  PROVE  Marked(refs, DOMAIN refs) = Effective(refs) \ {<< >>}
<1> DEFINE D == DOMAIN refs
<1>1. D = 1 .. Len(refs) /\ Len(refs) \in Nat /\ \A i \in D : refs[i] \in Seq(N)
  OBVIOUS
<1>2. ASSUME NEW j \in D, refs[j] # << >>, \A k \in D : k < j => ~IsPrefix(refs[j], refs[k])
      PROVE  refs[j] \in Effective(refs) \ {<< >>}
  <2>1. \A k \in 1 .. (j - 1) : k \in D /\ k < j
    BY <1>1
  <2>2. \A k \in 1 .. (j - 1) : ~IsStrictPrefix(refs[j], refs[k])
    BY <1>2, <2>1 DEF IsStrictPrefix
  <2> QED
    BY <1>2, <2>2 DEF Effective
<1>3. ASSUME NEW j \in D, refs[j] # << >>, \A k \in 1 .. (j - 1) : ~IsStrictPrefix(refs[j], refs[k])
      PROVE  refs[j] \in Marked(refs, D)
  <2> DEFINE made == {i \in D : refs[i] = refs[j]}
             first == Min(made)
  <2>1. first \in made /\ \A i \in made : first <= i
    <3>1. made \in SUBSET Nat /\ made # {} /\ made \subseteq D
      BY <1>1
    <3>2. IsFiniteSet(made)
      <4>1. IsFiniteSet(D)
        BY <1>1, FS_Interval
      <4> QED
        BY <3>1, <4>1, FS_Subset
    <3> HIDE DEF made
    <3> QED
      BY <3>1, <3>2, SmallestAndLargest
  <2>2. first \in D /\ refs[first] = refs[j] /\ first <= j
    <3>1. j \in made
      OBVIOUS
    <3> HIDE DEF first
    <3> QED
      BY <2>1, <3>1
  <2>3. ASSUME NEW k \in D, k < first PROVE ~IsPrefix(refs[j], refs[k])
    <3>1. k \in 1 .. (j - 1) /\ ~(first <= k)
      <4>1. first \in Nat /\ j \in Nat /\ k \in Nat /\ 1 <= k
        BY <1>1, <2>2
      <4> HIDE DEF first
      <4> QED
        BY <2>2, <2>3, <4>1
    <3>2. k \notin made
      <4> HIDE DEF made, first
      <4> QED
        BY <2>1, <3>1
    <3> QED
      BY <1>3, <3>1, <3>2 DEF IsStrictPrefix
  <2> HIDE DEF first
  <2> QED
    BY <1>3, <2>2, <2>3 DEF Marked
<1>4. Marked(refs, D) \subseteq Effective(refs) \ {<< >>}
  BY <1>2 DEF Marked
<1>5. Effective(refs) \ {<< >>} \subseteq Marked(refs, D)
  BY <1>1, <1>3 DEF Effective
<1> QED
  BY <1>4, <1>5

\* writeContextInternalSingle writes of a context what may be written.
LEMMA WrittenIsRedacted ==
  ASSUME formatter = NewEventContextFormatter(scenario.config),
         scenario.config.privateAttributes \in Seq(Seq(Names)),
         NEW c, IsContextOf(Names, c), NEW kind, NEW redactAnonymous \in BOOLEAN,
         redactAnonymous <=> kind = "feature"
  PROVE  WriteContextInternalSingle(formatter, c, redactAnonymous)
           = Redacted(c, kind, Effective(scenario.config.privateAttributes))
<1> DEFINE refs == scenario.config.privateAttributes
           S == PrivateRefs(refs, c)
           outcome == Outcome(formatter, c)
           redactAll == formatter.allAttributesPrivate \/ (c.anonymous /\ redactAnonymous)
           all == scenario.config.allAttributesPrivate \/ (c.anonymous /\ kind = "feature")
           written == {p \in c.attrs : ~redactAll /\ outcome[p] \in {"clear", "nested"}}
           redacted == {p \in c.attrs : IF redactAll THEN Len(p) = 1 ELSE outcome[p] = "redacted"}
           within == {p \in c.attrs : Designated(S, p)}
           private == IF all THEN c.attrs ELSE within
           named == {p \in private : Len(p) = 1 \/ Front(p) \notin private}
<1>1. formatter.privateAttributes = TreeOf(Names, refs, DOMAIN refs)
  BY LookupDataIsTree DEF NewEventContextFormatter
<1>2. redactAll <=> all
  BY DEF NewEventContextFormatter
<1>3. \A p \in c.attrs : IsDecided(outcome[p], c, S, p)
  BY <1>1, OutcomeMeans
<1>4. PrivateIn(c, Effective(refs)) = within
  <2>1. \A ref : ref # << >> => (ref \in S <=> ref \in Effective(refs) \cup ToSet(c.private))
    BY EffectiveAreMarked DEF PrivateRefs
  <2> HIDE DEF S, refs
  <2> QED
    BY <2>1 DEF PrivateIn, Designated
<1>5. \A p \in c.attrs : Len(p) # 1 => Front(p) \in c.attrs
  BY FrontOfAttribute
<1> HIDE DEF S, outcome
<1>6. written = c.attrs \ private
  BY <1>2, <1>3 DEF IsDecided
<1>7. redacted = named
  <2>1. CASE all
    BY <1>2, <1>5, <2>1
  <2>2. CASE ~all
    <3>1. \A p \in c.attrs : outcome[p] = "redacted" <=> p \in named
      BY <1>3, <1>5, <2>2 DEF IsDecided
    <3> HIDE DEF redactAll, all
    <3> QED
      BY <1>2, <2>2, <3>1
  <2> QED
    BY <2>1, <2>2
<1>8. WriteContextInternalSingle(formatter, c, redactAnonymous) =
        [kind |-> c.kind, key |-> c.key, anonymous |-> c.anonymous, attrs |-> written,
         redactedAttributes |-> redacted]
  BY DEF WriteContextInternalSingle, outcome
<1>9. Redacted(c, kind, Effective(refs)) =
        [kind |-> c.kind, key |-> c.key, anonymous |-> c.anonymous, attrs |-> c.attrs \ private,
         redactedAttributes |-> named]
  BY <1>4 DEF Redacted
<1> HIDE DEF written, redacted, private, named
<1> QED
  BY <1>6, <1>7, <1>8, <1>9
-----------------------------------------------------------------------------
(* What is sent.                                                           *)

\* What may be added for a call has the context of the call.
LEMMA EventsOfCall ==
  ASSUME NEW factory, NEW call, NEW date, NEW data, data = InputData(factory, call, date),
         NEW x \in {IndexEvent(data), data, DebugEvent(data)}
  PROVE  x.context = call.context
<1>1. data.context = call.context /\ IndexEvent(data).context = call.context
  BY DEF InputData, NewUnknownFlagEvaluationData, NewEvaluationData, OtherData, IndexEvent
<1>2. DebugEvent(data).context = call.context
  <2>1. CASE call.kind = "unknownFlag"
    BY <2>1 DEF InputData, NewUnknownFlagEvaluationData, DebugEvent
  <2>2. CASE call.kind = "evaluation"
    BY <2>2 DEF InputData, NewEvaluationData, DebugEvent
  <2>3. CASE call.kind # "unknownFlag" /\ call.kind # "evaluation"
    BY <2>3 DEF InputData, OtherData, DebugEvent
  <2> QED
    BY <2>1, <2>2, <2>3
<1> QED
  BY <1>1, <1>2

\* The events in the outbox stay of calls, and so do those that are given to workers.
LEMMA EventsStayOfCalls ==
  ASSUME PayloadsInvariant, IntactInvariant, OutputInvariant, [Next]_vars
  PROVE  OfCalls(buffered)' /\ \A h \in Holders : OfCalls(given[h].events)'
<1>1. DOMAIN given = Holders /\ OfCalls(buffered) /\ \A h \in Holders : OfCalls(given[h].events)
  BY DEF PayloadsInvariant, TypeOK, OutputInvariant
<1>2. CASE \E e \in Events : ProcessEvent(e)
  <2>1. PICK e \in Events : ProcessEvent(e)
    BY <1>2
  <2>2. e \in DOMAIN scenario.calls /\ UNCHANGED <<scenario, given>>
    BY <2>1 DEF ProcessEvent
  <2>3. PICK date \in Dates :
          \E events \in EventsOf(InputData(scenario.config, scenario.calls[e], date)) :
            AddEvents(events)
    BY <2>1 DEF ProcessEvent
  <2> DEFINE data == InputData(scenario.config, scenario.calls[e], date)
             Y == {IndexEvent(data), data, DebugEvent(data)}
             X == {arrays[outbox.events.array][i] : i \in 1 .. outbox.events.len}
  <2>4. PICK events \in EventsOf(data) : AddEvents(events)
    BY <2>3
  <2> DEFINE k == Fitting(events)
             n == Len(buffered)
  <2>5. events \in Seq(Y) /\ Len(events) \in Nat
    BY EventsAreSequences
  <2>6. buffered \in Seq(X) /\ n \in Nat
    <3>1. outbox.events.len \in Nat
      BY PayloadsAssumption DEF PayloadsInvariant, TypeOK, Payload, Slice
    <3>2. buffered = [i \in 1 .. outbox.events.len |-> arrays[outbox.events.array][i]]
      BY DEF IntactInvariant, PayloadsIntact, IsContent, Deref
    <3> QED
      BY <3>1, <3>2
  <2>7. k \in 0 .. Len(events)
    <3>1. k \in Nat
      BY <2>5, FittingFits DEF PayloadsInvariant
    <3> QED
      BY <2>5, <3>1 DEF Fitting
  <2>8. buffered' = [i \in 1 .. (n + k) |-> IF i <= n THEN buffered[i] ELSE events[i - n]]
    <3>1. buffered' = buffered \o SubSeq(events, 1, k)
      BY <2>4 DEF AddEvents
    <3> HIDE DEF X, Y, k
    <3> QED
      BY <2>5, <2>6, <2>7, <3>1, ConcatPrefix
  <2>9. ASSUME NEW i \in 1 .. (n + k)
        PROVE  \E c \in DOMAIN scenario.calls : buffered'[i].context = scenario.calls[c].context
    <3>1. CASE i <= n
      <4>1. i \in DOMAIN buffered /\ buffered'[i] = buffered[i]
        BY <2>6, <2>7, <2>8, <3>1
      <4> QED
        BY <1>1, <4>1 DEF OfCalls
    <3>2. CASE ~(i <= n)
      <4>1. i - n \in 1 .. Len(events) /\ buffered'[i] = events[i - n]
        BY <2>5, <2>6, <2>7, <2>8, <3>2
      <4>2. events[i - n] \in Y
        <5> HIDE DEF Y
        <5> QED
          BY <2>5, <4>1
      <4>3. events[i - n].context = scenario.calls[e].context
        BY <4>2, EventsOfCall
      <4> QED
        BY <2>2, <4>1, <4>3
    <3> QED
      BY <3>1, <3>2
  <2>10. DOMAIN buffered' = 1 .. (n + k)
    BY <2>8
  <2>11. OfCalls(buffered)'
    BY <2>2, <2>9, <2>10 DEF OfCalls
  <2> QED
    BY <1>1, <2>2, <2>11 DEF OfCalls
<1>3. CASE Clear \/ TurnOff
  <2>1. buffered' = << >> /\ UNCHANGED <<scenario, given>>
    BY <1>3 DEF Clear, TurnOff, ClearOutbox
  <2>2. DOMAIN << >> = {}
    OBVIOUS
  <2> QED
    BY <1>1, <2>1, <2>2 DEF OfCalls
<1>4. CASE \E h \in Holders : HandoffAccepted(h)
  <2>1. PICK h \in Holders :
          /\ given' = [given EXCEPT ![h] = [events |-> buffered, evaluations |-> counted]]
          /\ UNCHANGED <<scenario, buffered>>
    BY <1>4 DEF HandoffAccepted
  <2>2. \A i \in Holders : given'[i].events = IF i = h THEN buffered ELSE given[i].events
    BY <1>1, <2>1
  <2> QED
    BY <1>1, <2>1, <2>2 DEF OfCalls
<1>5. CASE \E h \in Holders : Sent(h)
  <2>1. PICK h \in Holders :
          given' = [given EXCEPT ![h] = Nothing] /\ UNCHANGED <<scenario, buffered>>
    BY <1>5 DEF Sent
  <2>2. \A i \in Holders : given'[i].events = IF i = h THEN << >> ELSE given[i].events
    BY <1>1, <2>1 DEF Nothing
  <2>3. DOMAIN << >> = {}
    OBVIOUS
  <2> QED
    BY <1>1, <2>1, <2>2, <2>3 DEF OfCalls
<1>6. CASE UNCHANGED <<scenario, buffered, given>>
  BY <1>1, <1>6 DEF OfCalls
<1>7. CASE TriggerFlush \/ HandoffRefused \/ \E h \in Holders : Format(h)
  BY <1>6, <1>7 DEF TriggerFlush, HandoffRefused, Format
<1>8. CASE DiagnosticsStep \/ UNCHANGED vars
  BY <1>6, <1>8 DEF DiagnosticsStep, payloadVars, vars
<1> QED
  BY <1>2, <1>3, <1>4, <1>5, <1>7, <1>8 DEF Next

\* A worker formats the payload it has, and what it has formatted stays that.
LEMMA OutputNextPreserves ==
  ASSUME PayloadsInvariant, IntactInvariant, OutputInvariant, [Next]_vars
  PROVE  OutputInvariant'
<1>0. DOMAIN held = Holders /\ DOMAIN given = Holders /\ DOMAIN output = Holders
  BY DEF PayloadsInvariant, TypeOK
<1>1. UNCHANGED <<scenario, formatter>>
  <2>1. CASE \E e \in Events : ProcessEvent(e)
    BY <2>1 DEF ProcessEvent
  <2>2. CASE TriggerFlush \/ HandoffRefused \/ Clear \/ TurnOff
    BY <2>2 DEF TriggerFlush, HandoffRefused, Clear, TurnOff
  <2>3. CASE \E h \in Holders : HandoffAccepted(h) \/ Format(h) \/ Sent(h)
    BY <2>3 DEF HandoffAccepted, Format, Sent
  <2>4. CASE DiagnosticsStep \/ UNCHANGED vars
    BY <2>4 DEF DiagnosticsStep, payloadVars, vars
  <2> QED
    BY <2>1, <2>2, <2>3, <2>4 DEF Next
<1> DEFINE Written(i) == MakeOutputEvents(formatter, given[i].events, FlagsOf(given[i].evaluations),
                                          DatesOf(given[i].evaluations))
<1>2. \A i \in Formatted : i \in InHand /\ output[i] = Written(i)
  BY DEF OutputInvariant
<1>3. ASSUME NEW i \in Formatted'
      PROVE  /\ i \in InHand'
             /\ output'[i] = MakeOutputEvents(formatter, given'[i].events,
                               FlagsOf(given'[i].evaluations), DatesOf(given'[i].evaluations))
  <2>1. CASE held'[i] = held[i] /\ given'[i] = given[i] /\ output'[i] = output[i]
    BY <1>2, <2>1 DEF Formatted, InHand
  <2>2. ASSUME NEW h \in Holders, HandoffAccepted(h)
        PROVE  held'[i] = held[i] /\ given'[i] = given[i] /\ output'[i] = output[i]
    <3>1. /\ held[h] = NoPayload /\ output' = output
          /\ held' = [held EXCEPT ![h] = pending]
          /\ given' = [given EXCEPT ![h] = [events |-> buffered, evaluations |-> counted]]
      BY <2>2 DEF HandoffAccepted
    <3>2. i # h
      BY <1>2, <3>1 DEF Formatted, InHand
    <3> QED
      BY <1>0, <3>1, <3>2
  <2>3. CASE \E h \in Holders : Format(h)
    <3>1. PICK h \in Holders : Format(h)
      BY <2>3
    <3>2. /\ held[h] # NoPayload /\ UNCHANGED <<held, given>>
          /\ output' = [output EXCEPT ![h] =
               MakeOutputEvents(formatter, Deref(held[h].events), maps[held[h].flags], held[h].dates)]
      BY <3>1 DEF Format
    <3>3. IsContent(held[h], given[h].events, given[h].evaluations)
      BY <3>2 DEF IntactInvariant, PayloadsIntact, InHand
    <3>4. CASE i = h
      BY <1>0, <3>2, <3>3, <3>4 DEF IsContent, InHand
    <3>5. CASE i # h
      BY <1>0, <2>1, <3>2, <3>5
    <3> QED
      BY <3>4, <3>5
  <2>4. CASE \E h \in Holders : Sent(h)
    <3>1. PICK h \in Holders : Sent(h)
      BY <2>4
    <3>2. /\ held' = [held EXCEPT ![h] = NoPayload]
          /\ given' = [given EXCEPT ![h] = Nothing]
          /\ output' = [output EXCEPT ![h] = NoOutput]
      BY <3>1 DEF Sent
    <3>3. i # h
      BY <1>0, <3>2 DEF Formatted
    <3> QED
      BY <1>0, <2>1, <3>2, <3>3
  <2>5. CASE UNCHANGED <<held, given, output>>
    BY <2>1, <2>5
  <2>6. CASE \E e \in Events : ProcessEvent(e)
    BY <2>5, <2>6 DEF ProcessEvent
  <2>7. CASE TriggerFlush \/ HandoffRefused \/ Clear \/ TurnOff
    BY <2>5, <2>7 DEF TriggerFlush, HandoffRefused, Clear, TurnOff
  <2>8. CASE DiagnosticsStep \/ UNCHANGED vars
    BY <2>5, <2>8 DEF DiagnosticsStep, payloadVars, vars
  <2> QED
    BY <2>1, <2>2, <2>3, <2>4, <2>6, <2>7, <2>8 DEF Next
<1>4. OfCalls(buffered)' /\ \A h \in Holders : OfCalls(given[h].events)'
  BY EventsStayOfCalls
<1> QED
  BY <1>1, <1>3, <1>4 DEF OutputInvariant, Formatted

\* The summary of evaluations has for each of them a counter that counts it.
LEMMA CounterOfEvaluation ==
  ASSUME NEW s, NEW i \in DOMAIN s
  PROVE  LET ed   == s[i]
             flag == FlagsOf(s)[ed.key]
             key  == <<ed.variation, ed.version>>
         IN  /\ ed.key \in DOMAIN FlagsOf(s)
             /\ key \in DOMAIN flag.counters
             /\ flag.counters[key].count = Cardinality(OfCounter(s, ed.key, key))
<1> DEFINE ed == s[i]
           key == <<ed.variation, ed.version>>
<1>1. i \in OfFlag(s, ed.key)
  BY DEF OfFlag
<1>2. ed.key \in DOMAIN FlagsOf(s) /\ FlagsOf(s)[ed.key] = FlagOf(s, ed.key)
  BY <1>1, FlagsOfParts
<1>3. FlagsOf(s)[ed.key].counters = CountersOf(s, ed.key)
  BY <1>2 DEF FlagOf
<1>4. /\ key \in DOMAIN CountersOf(s, ed.key)
      /\ CountersOf(s, ed.key)[key].count = Cardinality(OfCounter(s, ed.key, key))
  BY <1>1 DEF CountersOf
<1> QED
  BY <1>2, <1>3, <1>4

\* There are counters if there are evaluations.
LEMMA CountersOfEvaluations ==
  ASSUME NEW X, NEW s \in Seq(X)
  PROVE  HasCounters(FlagsOf(s)) <=> s # << >>
<1>1. \A k : k \in DOMAIN FlagsOf(s) <=> OfFlag(s, k) # {}
  BY FlagsOfParts
<1>2. s # << >> <=> \E i \in DOMAIN s : TRUE
  <2>1. Len(s) \in Nat /\ DOMAIN s = 1 .. Len(s) /\ (s = << >> <=> Len(s) = 0)
    OBVIOUS
  <2>2. Len(s) # 0 => 1 \in DOMAIN s
    BY <2>1
  <2>3. Len(s) = 0 => DOMAIN s = {}
    BY <2>1
  <2> QED
    BY <2>1, <2>2, <2>3
<1>3. (\E i \in DOMAIN s : TRUE) <=> \E k : OfFlag(s, k) # {}
  <2>1. \A i \in DOMAIN s : i \in OfFlag(s, s[i].key)
    BY DEF OfFlag
  <2>2. \A k : OfFlag(s, k) \subseteq DOMAIN s
    BY DEF OfFlag
  <2> QED
    BY <2>1, <2>2
<1> QED
  BY <1>1, <1>2, <1>3 DEF HasCounters

\* What makeOutputEvents returns: the events in their order, then the summary, if there
\* is one; and the number of events is that of the array.
LEMMA MakeOutputEventsReturns ==
  ASSUME NEW f, NEW events, NEW flags, NEW dates,
         Len(events) \in Nat, DOMAIN events = 1 .. Len(events)
  PROVE  LET out == MakeOutputEvents(f, events, flags, dates) IN
         /\ out.count = Len(out.items)
         /\ Len(out.items) = Len(events) + (IF HasCounters(flags) THEN 1 ELSE 0)
         /\ \A i \in 1 .. Len(events) : out.items[i] = WriteOutputEvent(f, events[i])
         /\ HasCounters(flags) => Last(out.items) = WriteSummaryEvent(flags, dates)
<1> DEFINE n == Len(events)
           summary == WriteSummaryEvent(flags, dates)
           written == [i \in DOMAIN events |-> WriteOutputEvent(f, events[i])]
           items == written \o (IF HasCounters(flags) THEN <<summary>> ELSE << >>)
           Z == {WriteOutputEvent(f, events[i]) : i \in 1 .. n} \cup {summary}
           out == MakeOutputEvents(f, events, flags, dates)
<1>1. out.items = items /\ out.count = n + (IF HasCounters(flags) THEN 1 ELSE 0)
  BY DEF MakeOutputEvents, OutputCount
<1>2. written \in Seq(Z) /\ Len(written) = n
  <2>1. written = [i \in 1 .. n |-> WriteOutputEvent(f, events[i])]
    OBVIOUS
  <2> QED
    BY <2>1
<1>3. Len(items) = n + (IF HasCounters(flags) THEN 1 ELSE 0)
  <2>1. summary \in Z
    OBVIOUS
  <2> HIDE DEF written, Z, summary
  <2> QED
    BY <1>2, <2>1
<1>4. HasCounters(flags) => items[n + 1] = summary
  <2>1. summary \in Z
    OBVIOUS
  <2> HIDE DEF written, Z, summary
  <2> QED
    BY <1>2, <2>1
<1>5. HasCounters(flags) => Last(items) = summary
  <2> HIDE DEF items, summary
  <2> QED
    BY <1>3, <1>4 DEF Last
<1>6. \A i \in 1 .. n : items[i] = WriteOutputEvent(f, events[i])
  <2>1. \A i \in 1 .. n : items[i] = written[i]
    <3>1. summary \in Z
      OBVIOUS
    <3> HIDE DEF written, Z, summary
    <3> QED
      BY <1>2, <3>1
  <2>2. \A i \in 1 .. n : written[i] = WriteOutputEvent(f, events[i])
    OBVIOUS
  <2> HIDE DEF items, written
  <2> QED
    BY <2>1, <2>2
<1> HIDE DEF items, out
<1> QED
  BY <1>1, <1>3, <1>5, <1>6 DEF out

\* The events given to a worker are a sequence.
LEMMA GivenAreSequences ==
  ASSUME PayloadsInvariant, IntactInvariant, NEW h \in InHand
  PROVE  Len(given[h].events) \in Nat /\ DOMAIN given[h].events = 1 .. Len(given[h].events)
<1>1. held[h].events.len \in Nat
  BY DEF PayloadsInvariant, TypeOK, Payload, Slice, InHand
<1>2. given[h].events = [i \in 1 .. held[h].events.len |-> arrays[held[h].events.array][i]]
  BY DEF IntactInvariant, PayloadsIntact, IsContent, Deref
<1> QED
  BY <1>1, <1>2

\* So the invariants say that the output of every worker is.
LEMMA OutputIsThenComplete ==
  ASSUME PayloadsInvariant, IntactInvariant, OutputInvariant
  PROVE  OutputComplete
<1> SUFFICES ASSUME NEW h \in Formatted
             PROVE  LET items       == output[h].items
                        evaluations == given[h].evaluations
                    IN  /\ output[h].count = Len(items)
                        /\ Len(items) = Len(given[h].events) + (IF evaluations # << >> THEN 1 ELSE 0)
                        /\ evaluations # << >> =>
                             \A i \in DOMAIN evaluations :
                               LET ed == evaluations[i] IN
                               \E counter \in Last(items).features[ed.key].counters :
                                 /\ counter.variation = ed.variation
                                 /\ IF ed.version = <<>> THEN counter.unknown
                                    ELSE counter.version = ed.version
                                 /\ counter.count = Cardinality({j \in DOMAIN evaluations :
                                       /\ evaluations[j].key = ed.key
                                       /\ evaluations[j].variation = ed.variation
                                       /\ evaluations[j].version = ed.version})
  BY DEF OutputComplete
<1> DEFINE events == given[h].events
           s == given[h].evaluations
           flags == FlagsOf(s)
           items == output[h].items
<1>1. /\ h \in InHand /\ h \in Holders
      /\ output[h] = MakeOutputEvents(formatter, events, FlagsOf(s), DatesOf(s))
  BY DEF OutputInvariant, Formatted
<1>2. s \in Seq(Summarized)
  BY <1>1 DEF IntactInvariant
<1>3. Len(events) \in Nat /\ DOMAIN events = 1 .. Len(events)
  BY <1>1, GivenAreSequences
<1>4. /\ output[h].count = Len(items)
      /\ Len(items) = Len(events) + (IF s # << >> THEN 1 ELSE 0)
      /\ s # << >> => Last(items) = WriteSummaryEvent(flags, DatesOf(s))
  <2>1. HasCounters(flags) <=> s # << >>
    <3> HIDE DEF s
    <3> QED
      BY <1>2, CountersOfEvaluations
  <2>2. Len(events) \in Nat /\ DOMAIN events = 1 .. Len(events)
    BY <1>3
  <2> HIDE DEF events, s, flags
  <2> QED
    BY <1>1, <2>1, <2>2, MakeOutputEventsReturns DEF flags
<1>5. ASSUME s # << >>, NEW i \in DOMAIN s
      PROVE  LET ed == s[i] IN
             \E counter \in Last(items).features[ed.key].counters :
               /\ counter.variation = ed.variation
               /\ IF ed.version = <<>> THEN counter.unknown ELSE counter.version = ed.version
               /\ counter.count = Cardinality({j \in DOMAIN s :
                     /\ s[j].key = ed.key
                     /\ s[j].variation = ed.variation
                     /\ s[j].version = ed.version})
  <2> DEFINE ed == s[i]
             key == <<ed.variation, ed.version>>
             flag == flags[ed.key]
             counter == WriteCounter(key, flag.counters[key])
  <2>1. /\ ed.key \in DOMAIN flags /\ key \in DOMAIN flag.counters
        /\ flag.counters[key].count = Cardinality(OfCounter(s, ed.key, key))
    <3> HIDE DEF s
    <3> QED
      BY <1>5, CounterOfEvaluation
  <2>2. OfCounter(s, ed.key, key) =
          {j \in DOMAIN s : /\ s[j].key = ed.key
                            /\ s[j].variation = ed.variation
                            /\ s[j].version = ed.version}
    BY DEF OfCounter, OfFlag
  <2>3. Last(items).features[ed.key].counters =
          {WriteCounter(q, flag.counters[q]) : q \in DOMAIN flag.counters}
    <3> HIDE DEF flags, s, items
    <3> QED
      BY <1>4, <1>5, <2>1 DEF WriteSummaryEvent
  <2>4. counter \in Last(items).features[ed.key].counters
    <3> HIDE DEF flag, key, ed, items
    <3> QED
      BY <2>1, <2>3
  <2>5. /\ counter.variation = ed.variation /\ counter.version = ed.version
        /\ counter.unknown = (ed.version = << >>)
        /\ counter.count = flag.counters[key].count
    <3> HIDE DEF flag, ed
    <3> QED
      BY DEF WriteCounter
  <2> HIDE DEF counter, flag
  <2> QED
    BY <2>1, <2>2, <2>4, <2>5
<1> QED
  BY <1>4, <1>5

\* What writeOutputEvent writes of the context of an event, if anything.
LEMMA ContextOfItem ==
  ASSUME NEW data, "context" \in DOMAIN WriteOutputEvent(formatter, data),
         ~data.context.preserialized
  PROVE  LET item == WriteOutputEvent(formatter, data) IN
         \E redactAnonymous \in BOOLEAN :
           /\ redactAnonymous <=> item.kind = "feature"
           /\ item.context = WriteContextInternalMulti(formatter, data.context, redactAnonymous)
<1> DEFINE item == WriteOutputEvent(formatter, data)
<1>1. \A redact : DoWriteContext(formatter, data.context, redact)
                    = WriteContextInternalMulti(formatter, data.context, redact)
  BY DEF DoWriteContext
<1>2. CASE data.kind = "evaluation"
  <2>1. /\ item.kind = IF data.debug THEN "debug" ELSE "feature"
        /\ item.context = ContextOfEvaluation(formatter, data)
    BY <1>2 DEF WriteOutputEvent
  <2>2. CASE data.debug
    BY <1>1, <2>1, <2>2 DEF ContextOfEvaluation, WriteContext
  <2>3. CASE ~data.debug
    BY <1>1, <2>1, <2>3 DEF ContextOfEvaluation, WriteContextRedactAnonymous
  <2> QED
    BY <2>2, <2>3
<1>3. CASE data.kind \in {"identify", "index"}
  <2>1. item.kind # "feature" /\ item.context = WriteContext(formatter, data.context)
    BY <1>3 DEF WriteOutputEvent
  <2> QED
    BY <1>1, <2>1 DEF WriteContext
<1>4. CASE data.kind \notin {"evaluation", "identify", "index"}
  <2>1. CASE data.kind \in {"custom", "migration"}
    <3>1. item = [kind |-> data.kind, contextKeys |-> ContextKeys(data.context)]
      BY <2>1 DEF WriteOutputEvent
    <3>2. DOMAIN item = {"kind", "contextKeys"}
      BY <3>1
    <3> QED
      BY <3>2
  <2>2. CASE data.kind \notin {"custom", "migration"}
    <3>1. item = [kind |-> "raw"]
      BY <1>4, <2>2 DEF WriteOutputEvent
    <3>2. DOMAIN item = {"kind"}
      BY <3>1
    <3> QED
      BY <3>2
  <2> QED
    BY <2>1, <2>2
<1> QED
  BY <1>2, <1>3, <1>4

\* So the invariants say that every context is sent without what is private, and with
\* all the rest.
LEMMA OutputIsThenRedacted ==
  ASSUME PayloadsInvariant, IntactInvariant, OutputInvariant
  PROVE  RedactionExact
<1> DEFINE refs == scenario.config.privateAttributes
<1> SUFFICES ASSUME NEW h \in Formatted, NEW i \in DOMAIN given[h].events,
                    "context" \in DOMAIN output[h].items[i],
                    ~given[h].events[i].context.preserialized
             PROVE  output[h].items[i].context =
                      {Redacted(c, output[h].items[i].kind, Effective(refs))
                         : c \in given[h].events[i].context.contexts}
  BY DEF RedactionExact, ContextsSent
<1> DEFINE events == given[h].events
           s == given[h].evaluations
           data == events[i]
           item == output[h].items[i]
<1>1. h \in InHand /\ h \in Holders /\ OfCalls(events)
      /\ output[h] = MakeOutputEvents(formatter, events, FlagsOf(s), DatesOf(s))
      /\ formatter = NewEventContextFormatter(scenario.config)
  BY DEF OutputInvariant, Formatted
<1>2. Len(events) \in Nat /\ DOMAIN events = 1 .. Len(events)
  BY <1>1, GivenAreSequences
<1>3. item = WriteOutputEvent(formatter, data)
  <2>1. i \in 1 .. Len(events)
    BY <1>2
  <2> HIDE DEF events
  <2> QED
    BY <1>1, <1>2, <2>1, MakeOutputEventsReturns
<1>4. PICK e \in DOMAIN scenario.calls : data.context = scenario.calls[e].context
  BY <1>1 DEF OfCalls
<1>5. /\ refs \in Seq(Seq(Names))
      /\ \A c \in data.context.contexts : IsContextOf(Names, c)
  <2>1. scenario \in Scenarios
    BY DEF PayloadsInvariant, TypeOK
  <2> QED
    BY <1>4, <2>1, PayloadsAssumption DEF IsContextOf
<1>6. PICK redactAnonymous \in BOOLEAN :
        /\ redactAnonymous <=> item.kind = "feature"
        /\ item.context = WriteContextInternalMulti(formatter, data.context, redactAnonymous)
  <2> HIDE DEF data
  <2> QED
    BY <1>3, ContextOfItem DEF data
<1>7. \A c \in data.context.contexts :
        WriteContextInternalSingle(formatter, c, redactAnonymous)
          = Redacted(c, item.kind, Effective(refs))
  <2> HIDE DEF item, data
  <2> QED
    BY <1>1, <1>5, <1>6, WrittenIsRedacted
<1> HIDE DEF item, refs
<1> QED
  BY <1>6, <1>7 DEF WriteContextInternalMulti, item, refs
-----------------------------------------------------------------------------
\* The invariant holds in every reachable state.
THEOREM PayloadsInvariantHolds == Spec => []PayloadsInvariant
<1>1. PayloadsInvariant /\ [Next]_vars => PayloadsInvariant'
  BY PayloadsNextPreserves
<1> QED
  BY <1>1, PayloadsInitEstablishes, PTL DEF Spec

\* References refer to memory, slices do not exceed the capacity of their array, and
\* the manager's state is well-formed.
THEOREM PayloadsTypeCorrect == Spec => []TypeOK
<1>1. PayloadsInvariant => TypeOK
  BY DEF PayloadsInvariant
<1> QED
  BY <1>1, PayloadsInvariantHolds, PTL

\* What a worker reads is not written to, although the dispatcher goes on with the
\* slice the events were copied from and hands its map over without a copy.
THEOREM PayloadsAreNotShared == Spec => NoSharedWrites
<1>1. PayloadsInvariant /\ [Next]_vars => [NothingSharedIsWritten]_vars
  BY PayloadsNextPreserves
<1> QED
  BY <1>1, PayloadsInvariantHolds, PTL DEF Spec, NoSharedWrites

\* No call of RecordStreamInit is lost or reported twice, whenever it comes.
THEOREM StreamInitsAreReportedOnce == Spec => []StreamInitsReportedOnce
<1>1. PayloadsInvariant => StreamInitsReportedOnce
  BY DEF PayloadsInvariant, ManagerInvariant
<1> QED
  BY <1>1, PayloadsInvariantHolds, PTL

\* The intervals of statistics events follow one another, and each event is about
\* its own.
THEOREM IntervalsAreRight == Spec => []IntervalsFit
<1>1. PayloadsInvariant => IntervalsFit
  BY DEF PayloadsInvariant, ManagerInvariant
<1> QED
  BY <1>1, PayloadsInvariantHolds, PTL

\* RecordStreamInit and CreateStatsEventAndReset are atomic, whatever happens between
\* the steps of the second: the manager, in the whole, implements DiagnosticsLog.
THEOREM ManagerIsAtomic == Spec => OperationsAreAtomic
<1>1. Init => Log!Init
  BY LogInit DEF Init
<1>2. PayloadsInvariant /\ [Next]_vars => [Log!Next]_(Log!vars)
  <2> SUFFICES ASSUME PayloadsInvariant, [Next]_vars PROVE [Log!Next]_(Log!vars)
    OBVIOUS
  <2>1. ManagerInvariant /\ [ManagerNext]_managerVars
    BY ManagerIsSeparate DEF PayloadsInvariant
  <2> QED
    BY <2>1, LogNext
<1> QED
  BY <1>1, <1>2, PayloadsInvariantHolds, PTL DEF Spec, OperationsAreAtomic, Log!Spec

\* The inductive invariant about what is in the payloads holds in every reachable state.
THEOREM IntactInvariantHolds == Spec => []IntactInvariant
<1>1. PayloadsInvariant /\ IntactInvariant /\ [Next]_vars => IntactInvariant'
  BY IntactNextPreserves
<1> QED
  BY <1>1, IntactInitEstablishes, PayloadsInvariantHolds, PTL DEF Spec

\* Until it is sent, a payload holds exactly the events and the summary of exactly the
\* evaluations that were in the outbox when it was taken, and the outbox those since.
THEOREM PayloadsAreIntact == Spec => []PayloadsIntact
<1>1. IntactInvariant => PayloadsIntact
  BY DEF IntactInvariant
<1> QED
  BY <1>1, IntactInvariantHolds, PTL

\* What a worker has formatted is what its payload was when it was taken.
THEOREM OutputInvariantHolds == Spec => []OutputInvariant
<1>1. Init => OutputInvariant
  <2>1. DOMAIN << >> = {}
    OBVIOUS
  <2> QED
    BY <2>1 DEF Init, OutputInvariant, Formatted, OfCalls, Nothing
<1>2. PayloadsInvariant /\ IntactInvariant /\ OutputInvariant /\ [Next]_vars => OutputInvariant'
  BY OutputNextPreserves
<1> QED
  BY <1>1, <1>2, PayloadsInvariantHolds, IntactInvariantHolds, PTL DEF Spec

\* The sender is told the number of events there are in the JSON array, and the summary
\* in it says of every evaluation how often there was one like it.
THEOREM OutputIsComplete == Spec => []OutputComplete
<1>1. PayloadsInvariant /\ IntactInvariant /\ OutputInvariant => OutputComplete
  BY OutputIsThenComplete
<1> QED
  BY <1>1, PayloadsInvariantHolds, IntactInvariantHolds, OutputInvariantHolds, PTL

\* Every context is sent without exactly the attributes and properties that an effective
\* private reference designates, and says which they are; an anonymous one is sent
\* without any in feature events.
THEOREM RedactionIsExact == Spec => []RedactionExact
<1>1. PayloadsInvariant /\ IntactInvariant /\ OutputInvariant => RedactionExact
  BY OutputIsThenRedacted
<1> QED
  BY <1>1, PayloadsInvariantHolds, IntactInvariantHolds, OutputInvariantHolds, PTL
=============================================================================
