------------------------ MODULE CorroborationProofs ------------------------
(***************************************************************************)
(* Proofs about Corroboration, for any reports, items, versions and        *)
(* readings that may turn up, in any order of arrival and of handling.     *)
(***************************************************************************)
EXTENDS Corroboration, FiniteSetTheorems, WellFoundedInduction, SequenceTheorems, TLAPS

-----------------------------------------------------------------------------
(* Finite sets, their extremes and folds over them.                        *)

\* Among the subsets of a finite set that fail, one fails although it does
\* not when any element is taken away.
LEMMA SmallestBad ==
  ASSUME NEW S, IsFiniteSet(S), NEW Bad \in SUBSET (SUBSET S), Bad # {}
  PROVE  \E U \in Bad : IsFiniteSet(U) /\ \A x \in U : U \ {x} \notin Bad
<1>1. Bad \subseteq FiniteSubsetsOf(S)
  BY FS_Subset DEF FiniteSubsetsOf
<1>2. PICK U \in Bad : \A V \in Bad : ~ (<<V, U>> \in StrictSubsetOrdering(S))
  BY <1>1, FS_StrictSubsetOrderingWellFounded, WFMin
<1>3. ASSUME NEW x \in U, U \ {x} \in Bad PROVE FALSE
  <2>1. U \ {x} \subseteq U /\ U \ {x} # U
    OBVIOUS
  <2>2. <<U \ {x}, U>> \in StrictSubsetOrdering(S)
    BY <1>1, <1>3, <2>1 DEF StrictSubsetOrdering, FiniteSubsetsOf
  <2> QED
    BY <1>2, <1>3, <2>2
<1> QED
  BY <1>1, <1>2, <1>3 DEF FiniteSubsetsOf

\* A finite set of integers that is not empty has a least and a greatest element.
LEMMA Extremes ==
  ASSUME NEW S \in SUBSET Int, IsFiniteSet(S), S # {}
  PROVE  /\ Min(S) \in S /\ \A y \in S : Min(S) <= y
         /\ Max(S) \in S /\ \A y \in S : Max(S) >= y
<1> DEFINE Lowest(U) == \E x \in U : \A y \in U : x <= y
           Highest(U) == \E x \in U : \A y \in U : x >= y
           Bad == {U \in SUBSET S : U # {} /\ ~(Lowest(U) /\ Highest(U))}
<1>1. Bad = {}
  <2> SUFFICES ASSUME Bad # {} PROVE FALSE
    OBVIOUS
  <2>1. PICK U \in Bad : IsFiniteSet(U) /\ \A x \in U : U \ {x} \notin Bad
    BY SmallestBad
  <2>2. PICK x \in U : TRUE
    OBVIOUS
  <2>3. CASE U \ {x} = {}
    <3>1. U = {x} /\ x \in Int
      BY <2>2, <2>3
    <3>2. \A y \in U : x <= y /\ x >= y
      BY <3>1
    <3> QED
      BY <2>2, <3>2
  <2>4. CASE U \ {x} # {}
    <3>1. Lowest(U \ {x}) /\ Highest(U \ {x})
      BY <2>1, <2>4
    <3>2. PICK l \in U \ {x} : \A y \in U \ {x} : l <= y
      BY <3>1
    <3>3. PICK h \in U \ {x} : \A y \in U \ {x} : h >= y
      BY <3>1
    <3>4. U \subseteq Int
      OBVIOUS
    <3>5. Lowest(U)
      <4>1. CASE l <= x
        BY <3>2, <3>4, <4>1
      <4>2. CASE ~(l <= x)
        <5>1. \A y \in U : x <= y
          BY <2>2, <3>2, <3>4, <4>2
        <5> QED
          BY <5>1
      <4> QED
        BY <4>1, <4>2
    <3>6. Highest(U)
      <4>1. CASE h >= x
        BY <3>3, <3>4, <4>1
      <4>2. CASE ~(h >= x)
        <5>1. \A y \in U : x >= y
          BY <2>2, <3>3, <3>4, <4>2
        <5> QED
          BY <5>1
      <4> QED
        BY <4>1, <4>2
    <3> QED
      BY <3>5, <3>6
  <2> QED
    BY <2>3, <2>4
<1>2. Lowest(S) /\ Highest(S)
  BY <1>1
<1> QED
  BY <1>2 DEF Min, Max

\* A set of naturals that is not empty has a least element.
LEMMA LeastNatural ==
  ASSUME NEW S \in SUBSET Nat, S # {}
  PROVE  Min(S) \in S /\ \A y \in S : Min(S) <= y
<1>1. PICK n \in S : TRUE
  OBVIOUS
<1> DEFINE Low == {y \in S : y <= n}
<1>2. IsFiniteSet(Low) /\ Low \in SUBSET Int /\ Low # {}
  <2>1. n \in Nat /\ Low \in SUBSET Nat /\ \A y \in Low : y <= n
    OBVIOUS
  <2>2. IsFiniteSet(Low)
    <3> HIDE DEF Low
    <3> QED
      BY <2>1, FS_BoundedSetOfNaturals
  <2>3. n <= n
    BY <2>1
  <2>4. Low \in SUBSET Int /\ Low # {}
    <3>1. n \in Low
      BY <2>3
    <3> QED
      BY <2>1, <3>1
  <2> QED
    BY <2>2, <2>4
<1>3. Min(Low) \in Low /\ \A y \in Low : Min(Low) <= y
  BY <1>2, Extremes
<1> HIDE DEF Low
<1>4. ASSUME NEW y \in S PROVE Min(Low) <= y
  <2>1. CASE y \in Low
    BY <1>3, <2>1
  <2>2. CASE y \notin Low
    <3>1. n \in Nat /\ y \in Nat /\ ~(y <= n)
      BY <1>1, <2>2 DEF Low
    <3>2. \A z \in Low : z \in Nat /\ z <= n
      BY <1>1 DEF Low
    <3>3. Min(Low) \in Nat /\ Min(Low) <= n
      BY <1>3, <3>2
    <3> QED
      BY <3>1, <3>3
  <2> QED
    BY <2>1, <2>2
<1>5. Min(Low) \in S
  BY <1>3 DEF Low
<1> QED
  BY <1>4, <1>5 DEF Min

\* A fold picks the elements of a set one after the other.
Picked(s) == CHOOSE x \in s : TRUE
Folds(h, T, step, base) ==
  \A s \in SUBSET T : h[s] = IF s = {} THEN base ELSE step[Picked(s)][h[s \ {Picked(s)}]]

\* Two folds agree on the sets both are defined on.
LEMMA FoldIsUnique ==
  ASSUME NEW S, IsFiniteSet(S), NEW step, NEW base, NEW T \in SUBSET S, NEW U \in SUBSET S,
         NEW g, NEW h, Folds(g, T, step, base), Folds(h, U, step, base),
         NEW s \in SUBSET (T \cap U)
  PROVE  g[s] = h[s]
<1> DEFINE Bad == {t \in SUBSET (T \cap U) : g[t] # h[t]}
<1>1. IsFiniteSet(T \cap U)
  BY FS_Subset
<1>2. Bad = {}
  <2> SUFFICES ASSUME Bad # {} PROVE FALSE
    OBVIOUS
  <2>1. PICK t \in Bad : \A x \in t : t \ {x} \notin Bad
    BY <1>1, SmallestBad
  <2>2. t \in SUBSET T /\ t \in SUBSET U /\ g[t] # h[t]
    BY <2>1
  <2>3. t # {} /\ Picked(t) \in t
    BY <2>2 DEF Folds, Picked
  <2>4. g[t \ {Picked(t)}] = h[t \ {Picked(t)}]
    BY <2>1, <2>2, <2>3
  <2> QED
    BY <2>2, <2>3, <2>4 DEF Folds
<1> QED
  BY <1>2

\* The fold of a step over the subsets of a finite set exists.
LEMMA FoldExists ==
  ASSUME NEW S, IsFiniteSet(S), NEW V, NEW step \in [S -> [V -> V]], NEW base \in V
  PROVE  \E h \in [SUBSET S -> V] : Folds(h, S, step, base)
<1> DEFINE Exists(T) == \E h \in [SUBSET T -> V] : Folds(h, T, step, base)
           Bad == {T \in SUBSET S : ~Exists(T)}
<1>1. Bad = {}
  <2> SUFFICES ASSUME Bad # {} PROVE FALSE
    OBVIOUS
  <2>0. Bad \in SUBSET (SUBSET S)
    OBVIOUS
  <2>1. PICK U \in Bad : \A x \in U : U \ {x} \notin Bad
    <3> HIDE DEF Bad
    <3> QED
      BY <2>0, SmallestBad
  <2> DEFINE Value(s, v) == \E T \in SUBSET S : \E h \in [SUBSET T -> V] :
                              Folds(h, T, step, base) /\ s \in SUBSET T /\ v = h[s]
             g == [s \in SUBSET U |-> CHOOSE v \in V : Value(s, v)]
             last == IF U = {} THEN base ELSE step[Picked(U)][g[U \ {Picked(U)}]]
             h == [s \in SUBSET U |-> IF s = U THEN last ELSE g[s]]
  <2>2. ASSUME NEW s \in SUBSET U, s # U
        PROVE  \E T \in SUBSET S : \E k \in [SUBSET T -> V] :
                 Folds(k, T, step, base) /\ s \in SUBSET T
    <3>1. PICK x \in U : x \notin s
      BY <2>2
    <3>2. Exists(U \ {x}) /\ U \ {x} \in SUBSET S /\ s \in SUBSET (U \ {x})
      BY <2>1, <2>2, <3>1
    <3> QED
      BY <3>2
  <2>3. ASSUME NEW s \in SUBSET S, NEW v, NEW w, Value(s, v), Value(s, w) PROVE v = w
    <3>1. PICK T \in SUBSET S : \E k \in [SUBSET T -> V] :
            Folds(k, T, step, base) /\ s \in SUBSET T /\ v = k[s]
      BY <2>3
    <3>2. PICK k \in [SUBSET T -> V] : Folds(k, T, step, base) /\ s \in SUBSET T /\ v = k[s]
      BY <3>1
    <3>3. PICK R \in SUBSET S : \E j \in [SUBSET R -> V] :
            Folds(j, R, step, base) /\ s \in SUBSET R /\ w = j[s]
      BY <2>3
    <3>4. PICK j \in [SUBSET R -> V] : Folds(j, R, step, base) /\ s \in SUBSET R /\ w = j[s]
      BY <3>3
    <3>5. s \in SUBSET (T \cap R)
      BY <3>2, <3>4
    <3>6. k[s] = j[s]
      BY <3>2, <3>4, <3>5, FoldIsUnique
    <3> QED
      BY <3>2, <3>4, <3>6
  <2>4. ASSUME NEW T \in SUBSET S, NEW k \in [SUBSET T -> V], Folds(k, T, step, base),
               NEW s \in SUBSET U, s \in SUBSET T
        PROVE  g[s] = k[s]
    <3>1. k[s] \in V /\ Value(s, k[s])
      BY <2>4
    <3>2. g[s] = CHOOSE v \in V : Value(s, v)
      BY <2>4
    <3>3. Value(s, g[s])
      <4> HIDE DEF Value
      <4> QED
        BY <3>1, <3>2
    <3>4. s \in SUBSET S
      OBVIOUS
    <3> HIDE DEF Value, g
    <3> QED
      BY <2>3, <3>1, <3>3, <3>4
  <2> HIDE DEF g
  <2>5. ASSUME NEW s \in SUBSET U, s # U PROVE g[s] \in V
    <3>1. PICK T \in SUBSET S : \E k \in [SUBSET T -> V] : Folds(k, T, step, base) /\ s \in SUBSET T
      BY <2>2, <2>5
    <3>2. PICK k \in [SUBSET T -> V] : Folds(k, T, step, base) /\ s \in SUBSET T
      BY <3>1
    <3> QED
      BY <2>4, <3>2
  <2>6. U # {} => Picked(U) \in U /\ U \ {Picked(U)} \in SUBSET U /\ U \ {Picked(U)} # U
    BY DEF Picked
  <2>7. last \in V
    <3>1. CASE U = {}
      BY <3>1
    <3>2. CASE U # {}
      <4>1. Picked(U) \in S /\ g[U \ {Picked(U)}] \in V
        BY <2>5, <2>6, <3>2
      <4> QED
        BY <3>2, <4>1
    <3> QED
      BY <3>1, <3>2
  <2>8. h \in [SUBSET U -> V]
    <3>1. ASSUME NEW s \in SUBSET U PROVE (IF s = U THEN last ELSE g[s]) \in V
      BY <2>5, <2>7
    <3> HIDE DEF last
    <3> QED
      BY <3>1
  <2>9. ASSUME NEW s \in SUBSET U
        PROVE  h[s] = IF s = {} THEN base ELSE step[Picked(s)][h[s \ {Picked(s)}]]
    <3>1. CASE s = U
      <4>1. h[s] = last
        BY <3>1
      <4>2. U # {} => h[U \ {Picked(U)}] = g[U \ {Picked(U)}]
        BY <2>6
      <4> QED
        BY <3>1, <4>1, <4>2
    <3>2. CASE s # U
      <4>1. PICK T \in SUBSET S : \E k \in [SUBSET T -> V] : Folds(k, T, step, base) /\ s \in SUBSET T
        BY <2>2, <3>2
      <4>2. PICK k \in [SUBSET T -> V] : Folds(k, T, step, base) /\ s \in SUBSET T
        BY <4>1
      <4>3. h[s] = k[s]
        BY <2>4, <3>2, <4>2
      <4>4. CASE s = {}
        BY <4>2, <4>3, <4>4 DEF Folds
      <4>5. CASE s # {}
        <5>1. Picked(s) \in s
          BY <4>5 DEF Picked
        <5>2. s \ {Picked(s)} \in SUBSET U /\ s \ {Picked(s)} \in SUBSET T /\ s \ {Picked(s)} # U
          BY <3>2, <4>2, <5>1
        <5>3. g[s \ {Picked(s)}] = k[s \ {Picked(s)}]
          BY <2>4, <4>2, <5>2
        <5>4. h[s \ {Picked(s)}] = k[s \ {Picked(s)}]
          BY <5>2, <5>3
        <5>5. k[s] = step[Picked(s)][k[s \ {Picked(s)}]]
          BY <4>2, <4>5 DEF Folds
        <5> HIDE DEF h
        <5> QED
          BY <4>3, <4>5, <5>4, <5>5
      <4> QED
        BY <4>4, <4>5
    <3> QED
      BY <3>1, <3>2
  <2> HIDE DEF h
  <2>10. Folds(h, U, step, base)
    BY <2>9 DEF Folds
  <2> QED
    BY <2>1, <2>8, <2>10
<1> QED
  BY <1>1

-----------------------------------------------------------------------------
(* Products and combinations.                                              *)

\* A quotient is bounded by the quotient of the bounds.
LEMMA DivideBound ==
  ASSUME NEW n \in Nat, NEW d \in Nat \ {0}, NEW q \in Nat, n <= d * q
  PROVE  n \div d \in 0 .. q
<1>1. n = d * (n \div d) + (n % d) /\ n % d \in 0 .. d - 1 /\ n \div d \in Int
  OBVIOUS
<1>2. n \div d >= 0
  OBVIOUS
<1>3. CASE n \div d > q
  <2>1. d * (n \div d) >= d * (q + 1)
    BY <1>3, <1>1
  <2> QED
    BY <2>1, <1>1
<1> QED
  BY <1>1, <1>2, <1>3

\* A product of integers in 1/10000 is an integer.
LEMMA TimesType == \A a, b \in Int : Times(a, b) \in Int
BY DEF Times

\* It grows with a factor if the other one is not negative, and does not
\* exceed a factor if the other one is at most 1.
LEMMA TimesGrows == ASSUME NEW a \in Int, NEW b \in Int, NEW c \in Nat, a <= b
                    PROVE  Times(a, c) <= Times(b, c) /\ Times(c, a) <= Times(c, b)
<1>1. a * c <= b * c /\ c * a = a * c /\ c * b = b * c /\ a * c \in Int /\ b * c \in Int
  OBVIOUS
<1>2. \A x, y \in Int : x <= y => (x + 5000) \div 10000 <= (y + 5000) \div 10000
  OBVIOUS
<1> QED
  BY <1>1, <1>2 DEF Times

\* What is left when the strengths of a set have each taken their share.
Running(left, strength, weight) ==
  /\ left \in [SUBSET DOMAIN strength -> Int] /\ left[{}] = 10000
  /\ \A s \in SUBSET DOMAIN strength : s # {} =>
       \E x \in s : left[s] = Times(left[s \ {x}], 10000 - Times(weight, strength[x]))

\* How the strengths of what speaks for a report are combined: one after the
\* other takes its share of what is left.
LEMMA CombinedIs ==
  ASSUME NEW strength, IsFiniteSet(DOMAIN strength), NEW weight \in Int,
         \A x \in DOMAIN strength : strength[x] \in Int
  PROVE  \E left : /\ Running(left, strength, weight)
                   /\ Combined(strength, weight) = 10000 - left[DOMAIN strength]
<1> DEFINE D == DOMAIN strength
           step == [x \in D |-> [l \in Int |-> Times(l, 10000 - Times(weight, strength[x]))]]
           Next_(h, s) == IF s = {} THEN 10000
                          ELSE Times(h[s \ {Picked(s)}], 10000 - Times(weight, strength[Picked(s)]))
           Iter == CHOOSE h : h = [s \in SUBSET D |-> Next_(h, s)]
<1>1. ASSUME NEW x \in D, NEW l \in Int
      PROVE  step[x][l] = Times(l, 10000 - Times(weight, strength[x])) /\ step[x][l] \in Int
  <2>1. Times(weight, strength[x]) \in Int
    BY TimesType
  <2>2. Times(l, 10000 - Times(weight, strength[x])) \in Int
    BY <2>1, TimesType
  <2> QED
    BY <2>2
<1>2. step \in [D -> [Int -> Int]]
  <2>1. ASSUME NEW x \in D
        PROVE  [l \in Int |-> Times(l, 10000 - Times(weight, strength[x]))] \in [Int -> Int]
    BY <1>1
  <2> QED
    BY <2>1
<1> HIDE DEF step
<1>3. PICK g \in [SUBSET D -> Int] : Folds(g, D, step, 10000)
  <2> DEFINE base == 10000
  <2>1. IsFiniteSet(D) /\ base \in Int
    OBVIOUS
  <2> HIDE DEF D, base
  <2>2. \E g \in [SUBSET D -> Int] : Folds(g, D, step, base)
    BY <1>2, <2>1, FoldExists
  <2> QED
    BY <2>2 DEF base
<1>4. ASSUME NEW s \in SUBSET D PROVE g[s] = Next_(g, s)
  <2>1. CASE s = {}
    <3>1. g[{}] = 10000
      BY <1>3, SMT DEF Folds
    <3>2. Next_(g, {}) = 10000
      OBVIOUS
    <3> HIDE DEF Next_
    <3> QED
      BY <2>1, <3>1, <3>2
  <2>2. CASE s # {}
    <3>1. Picked(s) \in s /\ s \ {Picked(s)} \in SUBSET D
      BY <2>2 DEF Picked
    <3>2. g[s \ {Picked(s)}] \in Int /\ Picked(s) \in D
      BY <1>3, <3>1
    <3>3. g[s] = step[Picked(s)][g[s \ {Picked(s)}]]
      BY <1>3, <2>2 DEF Folds
    <3> QED
      BY <1>1, <2>2, <3>2, <3>3
  <2> QED
    BY <2>1, <2>2
<1>5. g = [s \in SUBSET D |-> Next_(g, s)]
  <2> HIDE DEF Next_
  <2> QED
    BY <1>3, <1>4
<1>6. Iter = [s \in SUBSET D |-> Next_(Iter, s)]
  <2> HIDE DEF Next_
  <2> QED
    BY <1>5
<1>7. Combined(strength, weight) = 10000 - Iter[D]
  BY DEF Combined, FoldFunction, FoldFunctionOnSet, MapThenFoldSet, Picked
<1> HIDE DEF Iter
<1>8. ASSUME NEW s \in SUBSET D PROVE Iter[s] = Next_(Iter, s)
  <2> HIDE DEF Next_
  <2> QED
    BY <1>6
<1>11. g[{}] = 10000
  BY <1>4
<1>16. Iter[{}] = 10000
  <2>1. {} \in SUBSET D
    OBVIOUS
  <2>2. Next_(Iter, {}) = 10000
    OBVIOUS
  <2> HIDE DEF Next_, D
  <2> QED
    BY <1>8, <2>1, <2>2
<1> DEFINE Bad == {s \in SUBSET D : Iter[s] # g[s]}
<1>9. Bad = {}
  <2> SUFFICES ASSUME Bad # {} PROVE FALSE
    OBVIOUS
  <2>1. PICK s \in Bad : \A x \in s : s \ {x} \notin Bad
    <3>1. Bad \in SUBSET (SUBSET D) /\ IsFiniteSet(D)
      OBVIOUS
    <3> HIDE DEF Bad, D
    <3> QED
      BY <3>1, SmallestBad
  <2>2. s \in SUBSET D /\ Iter[s] # g[s]
    BY <2>1
  <2>3. CASE s = {}
    BY <1>11, <1>16, <2>2, <2>3
  <2>4. CASE s # {}
    <3>1. Picked(s) \in s
      BY <2>4 DEF Picked
    <3>2. Iter[s \ {Picked(s)}] = g[s \ {Picked(s)}]
      BY <2>1, <2>2, <3>1
    <3>3. /\ g[s] = Times(g[s \ {Picked(s)}], 10000 - Times(weight, strength[Picked(s)]))
          /\ Iter[s] = Times(Iter[s \ {Picked(s)}], 10000 - Times(weight, strength[Picked(s)]))
      <4>1. g[s] = Times(g[s \ {Picked(s)}], 10000 - Times(weight, strength[Picked(s)]))
        BY <1>4, <2>2, <2>4, SMTT(30)
      <4>2. Iter[s] = Times(Iter[s \ {Picked(s)}], 10000 - Times(weight, strength[Picked(s)]))
        BY <1>8, <2>2, <2>4, SMTT(30)
      <4> QED
        BY <4>1, <4>2
    <3> QED
      BY <2>2, <3>2, <3>3
  <2> QED
    BY <2>3, <2>4
<1>10. Iter[D] = g[D]
  BY <1>9
<1>12. ASSUME NEW s \in SUBSET D, s # {}
       PROVE  \E x \in s : g[s] = Times(g[s \ {x}], 10000 - Times(weight, strength[x]))
  <2>1. Picked(s) \in s
    BY <1>12 DEF Picked
  <2> QED
    BY <1>4, <1>12, <2>1
<1>13. Combined(strength, weight) = 10000 - g[DOMAIN strength]
  BY <1>7, <1>10
<1>14. \A s \in SUBSET DOMAIN strength : s # {} =>
         \E x \in s : g[s] = Times(g[s \ {x}], 10000 - Times(weight, strength[x]))
  BY <1>12
<1>15. g \in [SUBSET DOMAIN strength -> Int]
  BY <1>3
<1>17. Running(g, strength, weight)
  BY <1>11, <1>14, <1>15 DEF Running
<1> HIDE DEF Next_, D, Bad
<1> QED
  BY <1>13, <1>17

\* What is combined is an integer, 0 if there is nothing to combine.
LEMMA CombinedType ==
  ASSUME NEW strength, IsFiniteSet(DOMAIN strength), NEW weight \in Int,
         \A x \in DOMAIN strength : strength[x] \in Int
  PROVE  Combined(strength, weight) \in Int /\ (DOMAIN strength = {} => Combined(strength, weight) = 0)
<1>1. PICK left : /\ Running(left, strength, weight)
                  /\ Combined(strength, weight) = 10000 - left[DOMAIN strength]
  BY CombinedIs
<1>2. left[DOMAIN strength] \in Int
  BY <1>1 DEF Running
<1>3. left[{}] = 10000
  BY <1>1 DEF Running
<1>4. DOMAIN strength = {} => left[DOMAIN strength] = 10000
  BY <1>3
<1> QED
  BY <1>1, <1>2, <1>4

-----------------------------------------------------------------------------
(* How an item is weighed against a report.                                *)

Roles == {"SUPPORTING", "RELATED", "CONTEXTUAL", "CONTRADICTORY", "IRRELEVANT"}
LinkRows == [role : Roles, confidence : Scores]

\* Two places are taken for the same only if they have a city in common or
\* the report names the other one.
LEMMA EntityScoreIs ==
  ASSUME NEW report, NEW place
  PROVE  /\ EntityScore(report, place) \in {0, 5000, 6000, 8000, 8500, 10000}
         /\ EntityScore(report, place) >= 7000 =>
              \/ place.city # None /\ IncidentCity(report) # None /\ place.city = IncidentCity(report)
              \/ place.place # None /\ Mentions(report, place.place)
BY DEF EntityScore

\* The place of a text bears the city and the name of one of its entries.
LEMMA PlaceOfText ==
  ASSUME NEW text, text \in Seq({text[n] : n \in DOMAIN text})
  PROVE  LET place == Resolve(text, << >>, NoPoint) IN
         /\ place.city = None \/ \E e \in Places(text) : e.city = place.city
         /\ place.place = None \/ \E e \in Places(text) : e.place = place.place
         /\ place.point = NoPoint \/ \E e \in Places(text) : e.point = place.point
<1> DEFINE First(type) == text[Min(OfType(text, type))]
           Known(place) ==
             /\ place.city = None \/ \E e \in Places(text) : e.city = place.city
             /\ place.place = None \/ \E e \in Places(text) : e.place = place.place
             /\ place.point = NoPoint \/ \E e \in Places(text) : e.point = place.point
<1>1. DOMAIN text \in SUBSET Nat
  BY LenProperties
<1>2. ASSUME NEW type, OfType(text, type) # {} PROVE Min(OfType(text, type)) \in DOMAIN text
  <2>1. OfType(text, type) \in SUBSET Nat /\ OfType(text, type) \subseteq DOMAIN text
    BY <1>1 DEF OfType
  <2> QED
    BY <1>2, <2>1, LeastNatural
<1>3. ASSUME NEW e \in Places(text) PROVE Known(Entry(e))
  BY DEF Entry
<1>4. ASSUME NEW n \in DOMAIN text
      PROVE  text[n] \in Places(text) /\ \A c \in text[n].candidates : c \in Places(text)
  BY DEF Places
<1>5. ASSUME NEW e \in Places(text) PROVE Known(AmbiguousPlace(e))
  BY DEF AmbiguousPlace, Unresolved
<1>6. Known(Unresolved)
  BY DEF Unresolved
<1>7. ASSUME NEW type, OfType(text, type) # {} PROVE Known(Entry(First(type)))
  BY <1>2, <1>3, <1>4, <1>7
<1> HIDE DEF Known
<1>8. Known(ResolveText(text))
  <2> DEFINE meant == IF OfType(text, "AMBIGUOUS") # {} THEN Disambiguated(First("AMBIGUOUS"), text) ELSE {}
  <2>1. ASSUME meant # {} PROVE Known(Entry(CHOOSE c \in meant : TRUE))
    <3>1. OfType(text, "AMBIGUOUS") # {}
      BY <2>1
    <3>2. meant \subseteq First("AMBIGUOUS").candidates
      BY <3>1 DEF Disambiguated
    <3>3. (CHOOSE c \in meant : TRUE) \in meant
      BY <2>1
    <3> QED
      BY <1>2, <1>3, <1>4, <3>1, <3>2, <3>3
  <2>2. ASSUME OfType(text, "AMBIGUOUS") # {} PROVE Known(AmbiguousPlace(First("AMBIGUOUS")))
    BY <1>2, <1>4, <1>5, <2>2
  <2> QED
    BY <1>6, <1>7, <2>1, <2>2 DEF ResolveText
<1>9. Resolve(text, << >>, NoPoint) = ResolveText(<< >> \o text)
  BY DEF Resolve, NoPoint, Invalid
<1>10. << >> \o text = text
  BY ConcatEmptySeq
<1> QED
  BY <1>8, <1>9, <1>10 DEF Known

\* A weighed mean of scores is a score.
LEMMA WeighedSum ==
  ASSUME NEW a \in Scores, NEW b \in Scores, NEW c \in Scores, NEW d \in Scores, NEW e \in Scores
  PROVE  (30 * a + 25 * b + 20 * c + 15 * d + 10 * e) \div 100 \in Scores
<1> DEFINE A == 30 * a
           B == 25 * b
           C == 20 * c
           D == 15 * d
           E == 10 * e
           n == 30 * a + 25 * b + 20 * c + 15 * d + 10 * e
<1>1. A \in Nat /\ A <= 300000
  BY SMT DEF Scores
<1>2. B \in Nat /\ B <= 250000
  BY SMT DEF Scores
<1>3. C \in Nat /\ C <= 200000
  BY SMT DEF Scores
<1>4. D \in Nat /\ D <= 150000
  BY SMT DEF Scores
<1>5. E \in Nat /\ E <= 100000
  BY SMT DEF Scores
<1>6. n = A + B + C + D + E
  OBVIOUS
<1> HIDE DEF A, B, C, D, E, n
<1>7. n \in Nat /\ n <= 1000000
  BY <1>1, <1>2, <1>3, <1>4, <1>5, <1>6, SMT
<1>8. n \div 100 \in Scores
  BY <1>7, SMT DEF Scores
<1> QED
  BY <1>8 DEF n

\* Nearness in time is a score.
LEMMA TimeScoreIs == ASSUME NEW lag \in Nat PROVE TimeScore(lag) \in Scores
<1> DEFINE m == 3000 * (lag - 2)
           n == 4000 * (lag - 24)
<1>1. CASE lag <= 2
  BY <1>1, SMT DEF TimeScore, Scores
<1>2. CASE lag > 2 /\ lag <= 24
  <2>1. m \in Nat /\ m <= 66000
    BY <1>2, SMT
  <2>2. TimeScore(lag) = 10000 - m \div 22
    BY <1>2, SMT DEF TimeScore
  <2> HIDE DEF m
  <2> QED
    BY <2>1, <2>2, SMT DEF Scores
<1>3. CASE lag > 24 /\ lag <= MaxWindow
  <2>1. n \in Nat /\ n <= 96000
    BY <1>3, SMT DEF MaxWindow
  <2>2. TimeScore(lag) = 7000 - n \div 24
    BY <1>3, SMT DEF TimeScore, MaxWindow
  <2> HIDE DEF n
  <2> QED
    BY <2>1, <2>2, SMT DEF Scores
<1>4. CASE lag > MaxWindow
  <2> HIDE DEF m, n
  <2>1. TimeScore(lag) = 0
    BY <1>4, SMT DEF TimeScore, MaxWindow
  <2>2. 0 \in Scores
    BY SMT DEF Scores
  <2> QED
    BY <2>1, <2>2
<1>5. lag <= 2 \/ (lag > 2 /\ lag <= 24) \/ (lag > 24 /\ lag <= MaxWindow) \/ lag > MaxWindow
  BY SMT DEF MaxWindow
<1> QED
  BY <1>1, <1>2, <1>3, <1>4, <1>5, Zenon

\* A version of an item that supports a report names its city, or a place the
\* report names, in India, near in time and without a word of another hazard.
Local(report, v, words) ==
  /\ "foreign" \notin v.marks /\ words \notin {"opposite", "metaphor"}
  /\ \E e \in Places(v.text) : \/ e.city # None /\ e.city = IncidentCity(report)
                              \/ Mentions(report, e.place)
  /\ Apart(v.published, report.at) <= MaxWindow

LEMMA ScoreLinkIs ==
  ASSUME NEW report, IsReport(report), NEW rs, NEW v, IsVersion(v, rs), NEW r \in rs
  PROVE  LET row == ScoreLink(report, v, v.similar[r], v.words[r]) IN
         row \in LinkRows /\ (row.role = "SUPPORTING" => Local(report, v, v.words[r]))
<1> DEFINE similarity == v.similar[r]
           words == v.words[r]
           place == Resolve(v.text, << >>, NoPoint)
           lag == Apart(v.published, report.at)
           entity == EntityScore(report, place)
           distance == Distance(report, place)
           overall == (30 * similarity + 25 * entity + 20 * TimeScore(lag)
                         + 15 * CategoryRelevance(words) + 10 * NearScore(distance)) \div 100
           row == ScoreLink(report, v, v.similar[r], v.words[r])
<1> HIDE DEF similarity, words, place, lag, entity, distance, overall, row
<1>1. /\ v.published \in Int /\ report.at \in Int /\ report.point \in Int
      /\ v.text \in Seq({v.text[n] : n \in DOMAIN v.text})
      /\ \A e \in Places(v.text) : e.point \in Int
      /\ similarity \in Scores /\ words \in Wordings
  <2>1. report.at \in Int /\ report.point \in Int
    BY DEF IsReport
  <2>2. /\ v.published \in Int /\ v.text \in Seq({v.text[n] : n \in DOMAIN v.text})
        /\ \A e \in Places(v.text) : e.point \in Int
    BY Zenon DEF IsVersion
  <2>3. similarity \in Scores /\ words \in Wordings
    BY Zenon DEF IsVersion, similarity, words
  <2> QED
    BY <2>1, <2>2, <2>3, Zenon
<1>2. lag \in Nat
  BY <1>1 DEF lag, Apart
<1>3. TimeScore(lag) \in Scores
  BY <1>2, TimeScoreIs
<1>4. CategoryRelevance(words) \in Scores /\ (words \in {"opposite", "metaphor"} => CategoryRelevance(words) = 0)
  BY <1>1 DEF CategoryRelevance, Wordings, Scores
<1>5. /\ place.city = None \/ \E e \in Places(v.text) : e.city = place.city
      /\ place.place = None \/ \E e \in Places(v.text) : e.place = place.place
      /\ place.point = NoPoint \/ \E e \in Places(v.text) : e.point = place.point
  BY <1>1, PlaceOfText DEF place
<1>6. distance = NoPoint \/ distance \in Nat
  <2>1. place.point \in Int
    BY <1>1, <1>5 DEF NoPoint
  <2> QED
    BY <1>1, <2>1 DEF distance, Distance, Apart
<1>7. NearScore(distance) \in Scores
  BY <1>6 DEF NearScore, NoPoint, MaxRadius, Scores
<1>8. entity \in Scores
  <2>1. entity \in {0, 5000, 6000, 8000, 8500, 10000}
    BY EntityScoreIs DEF entity
  <2> QED
    BY <2>1 DEF Scores
<1>9. entity >= 7000 => \E e \in Places(v.text) : \/ e.city # None /\ e.city = IncidentCity(report)
                                                  \/ Mentions(report, e.place)
  <2> SUFFICES ASSUME entity >= 7000
               PROVE  \E e \in Places(v.text) : \/ e.city # None /\ e.city = IncidentCity(report)
                                                \/ Mentions(report, e.place)
    OBVIOUS
  <2>1. \/ place.city # None /\ IncidentCity(report) # None /\ place.city = IncidentCity(report)
        \/ place.place # None /\ Mentions(report, place.place)
    BY EntityScoreIs DEF entity
  <2> QED
    BY <1>5, <2>1
<1>10. overall \in Scores
  BY <1>1, <1>3, <1>4, <1>7, <1>8, WeighedSum DEF overall
<1>11. /\ row \in LinkRows
       /\ row.role = "SUPPORTING" => /\ "foreign" \notin v.marks /\ CategoryRelevance(words) # 0
                                     /\ ~(lag > MaxWindow) /\ entity >= 7000
  <2> DEFINE Verdict(role, confidence) == [role |-> role, confidence |-> confidence]
             general == "advisory" \in v.marks
                          \/ (place.state # None /\ place.city = None /\ place.locality = None)
  <2>1. row = IF \/ place.country # "India" \/ "foreign" \in v.marks
                 \/ CategoryRelevance(words) = 0
                 \/ distance > MaxRadius
                 \/ entity = 0
                 \/ lag > MaxWindow
              THEN Verdict("IRRELEVANT", 0)
              ELSE IF "denial" \in v.marks /\ entity >= 7000 THEN Verdict("CONTRADICTORY", 8500)
              ELSE IF general /\ overall >= ContextualThreshold THEN Verdict("CONTEXTUAL", overall)
              ELSE IF overall >= SupportingThreshold /\ similarity >= 3500 /\ entity >= 7000
                        /\ TimeScore(lag) >= 5000 THEN Verdict("SUPPORTING", overall)
              ELSE IF overall >= RelatedThreshold /\ (entity >= 5000 \/ similarity >= 4000)
              THEN Verdict("RELATED", overall)
              ELSE Verdict("IRRELEVANT", overall)
    BY DEF row, ScoreLink, overall, place, entity, distance, lag, similarity, words
  <2> HIDE DEF general
  <2> QED
    BY <1>10, <2>1 DEF LinkRows, Roles, Scores
<1>12. ASSUME row.role = "SUPPORTING" PROVE Local(report, v, words)
  <2>1. lag <= MaxWindow
    BY <1>2, <1>11, <1>12 DEF MaxWindow
  <2>2. Apart(v.published, report.at) <= MaxWindow
    BY <2>1 DEF lag
  <2> QED
    BY <1>4, <1>9, <1>11, <1>12, <2>2 DEF Local
<1> QED
  BY <1>11, <1>12 DEF row, words

-----------------------------------------------------------------------------
(* How a reading is weighed against a report.                              *)

Relations == {"CORROBORATING", "CONSISTENT", "WEAK", "CONTRADICTORY", "IRRELEVANT",
              "INSUFFICIENT_DATA"}
CorrRows == [rel : Relations, score : Scores, points : Nat]

\* The least of two and of three integers.
LEMMA MinOfTwo == ASSUME NEW a \in Int, NEW b \in Int
                  PROVE  Min({a, b}) \in Int /\ Min({a, b}) \in {a, b} /\ Min({a, b}) <= a /\ Min({a, b}) <= b
<1>1. IsFiniteSet({a, b}) /\ {a, b} \in SUBSET Int /\ {a, b} # {}
  <2>1. IsFiniteSet({a} \cup {b}) /\ {a} \cup {b} = {a, b}
    BY FS_Singleton, FS_Union
  <2> QED
    BY <2>1
<1>2. Min({a, b}) \in {a, b} /\ \A y \in {a, b} : Min({a, b}) <= y
  <2> DEFINE S == {a, b}
  <2>1. IsFiniteSet(S) /\ S \in SUBSET Int /\ S # {}
    BY <1>1
  <2> HIDE DEF S
  <2>2. Min(S) \in S /\ \A y \in S : Min(S) <= y
    BY <2>1, Extremes
  <2> QED
    BY <2>2 DEF S
<1> QED
  BY <1>2

LEMMA MaxOfTwo == ASSUME NEW a \in Int, NEW b \in Int
                  PROVE  Max({a, b}) \in Int /\ Max({a, b}) \in {a, b} /\ Max({a, b}) >= a /\ Max({a, b}) >= b
<1>1. IsFiniteSet({a, b}) /\ {a, b} \in SUBSET Int /\ {a, b} # {}
  <2>1. IsFiniteSet({a} \cup {b}) /\ {a} \cup {b} = {a, b}
    BY FS_Singleton, FS_Union
  <2> QED
    BY <2>1
<1>2. Max({a, b}) \in {a, b} /\ \A y \in {a, b} : Max({a, b}) >= y
  <2> DEFINE S == {a, b}
  <2>1. IsFiniteSet(S) /\ S \in SUBSET Int /\ S # {}
    BY <1>1
  <2> HIDE DEF S
  <2>2. Max(S) \in S /\ \A y \in S : Max(S) >= y
    BY <2>1, Extremes
  <2> QED
    BY <2>2 DEF S
<1> QED
  BY <1>2

LEMMA MinOfThree ==
  ASSUME NEW a \in Int, NEW b \in Int, NEW c \in Int
  PROVE  /\ Min({a, b, c}) \in Int /\ Min({a, b, c}) \in {a, b, c}
         /\ Min({a, b, c}) <= a /\ Min({a, b, c}) <= b /\ Min({a, b, c}) <= c
<1>1. IsFiniteSet({a, b, c}) /\ {a, b, c} \in SUBSET Int /\ {a, b, c} # {}
  <2>1. IsFiniteSet({a} \cup {b}) /\ IsFiniteSet({c})
    BY FS_Singleton, FS_Union
  <2>2. IsFiniteSet(({a} \cup {b}) \cup {c}) /\ ({a} \cup {b}) \cup {c} = {a, b, c}
    BY <2>1, FS_Union
  <2> QED
    BY <2>2
<1>2. Min({a, b, c}) \in {a, b, c} /\ \A y \in {a, b, c} : Min({a, b, c}) <= y
  <2> DEFINE S == {a, b, c}
  <2>1. IsFiniteSet(S) /\ S \in SUBSET Int /\ S # {}
    BY <1>1
  <2> HIDE DEF S
  <2>2. Min(S) \in S /\ \A y \in S : Min(S) <= y
    BY <2>1, Extremes
  <2> QED
    BY <2>2 DEF S
<1> QED
  BY <1>2

\* A score that decays with every hour is a score.
LEMMA PostDecayIs == \A n \in 1 .. 24 : PostDecay[n] \in Scores
BY SMTT(30) DEF PostDecay, Scores

\* The context of a station is a score, and it is better than the report's
\* district only if the place of the report names the river.
LEMMA StationContextIs ==
  ASSUME NEW facts
  PROVE  /\ StationContext(facts) \in Scores
         /\ StationContext(facts) > 5500 => IsRiverMention(facts.locationRiver)
BY SMT DEF StationContext, Scores

Trending(trend) ==
  trend.direction \in {"INSUFFICIENT_DATA", "SINGLE_POINT", "STEADY", "RISING", "FALLING"}

\* Two readings of a station in the hours before an anchor, the later one higher.
Rose(rs, station, anchor) ==
  \E o, p \in rs : /\ o.station = station /\ p.station = station
                   /\ anchor - Lookback <= o.at /\ o.at < p.at /\ p.at <= anchor
                   /\ o.level < p.level

\* A trend counts its points; it rises only if two readings show it.
LEMMA TrendIs ==
  ASSUME NEW rs, \A o \in rs : o.at \in Int /\ o.level \in Int, NEW station, NEW anchor \in Int
  PROVE  LET trend == WaterLevelTrend(rs, station, anchor) IN
         /\ trend.points \in Nat /\ TrendScore(trend) \in Scores
         /\ trend.direction = "RISING" => Rose(rs, station, anchor)
<1> DEFINE points == {o \in rs : /\ o.station = station /\ o.level # NoLevel
                                 /\ o.at \in anchor - Lookback .. anchor}
           times == {o.at : o \in points}
           Level(t) == (CHOOSE o \in points : o.at = t).level
           first == Min(times)
           last == Max(times)
           delta == Level(last) - Level(first)
           Gap(t) == t # last /\ \A u \in times : u > t => u - t > 2
           gaps == \E t \in times : Gap(t)
           trend == WaterLevelTrend(rs, station, anchor)
           full == [direction |-> IF AbsVal(delta) < 5 THEN "STEADY"
                                  ELSE IF delta > 0 THEN "RISING" ELSE "FALLING",
                    delta |-> delta, rate |-> delta \div (last - first),
                    points |-> Cardinality(times), gaps |-> gaps]
<1>1. IsFiniteSet(times) /\ times \in SUBSET Int /\ times \subseteq anchor - Lookback .. anchor
  <2>1. times \subseteq anchor - Lookback .. anchor
    OBVIOUS
  <2>2. IsFiniteSet(anchor - Lookback .. anchor)
    BY FS_Interval DEF Lookback
  <2> HIDE DEF times
  <2>3. IsFiniteSet(times)
    BY <2>1, <2>2, FS_Subset
  <2> QED
    BY <2>1, <2>3
<1>2. Cardinality(times) \in Nat
  <2> HIDE DEF times
  <2> QED
    BY <1>1, FS_CardinalityType
<1>3. trend = IF Cardinality(times) < 2 THEN NoTrend(Cardinality(times)) ELSE full
  BY DEF WaterLevelTrend
<1>4. CASE Cardinality(times) < 2
  <2> HIDE DEF times, trend, full
  <2>1. trend = NoTrend(Cardinality(times))
    BY <1>3, <1>4
  <2>2. trend.points = Cardinality(times)
    BY <2>1 DEF NoTrend
  <2>3. trend.direction \in {"INSUFFICIENT_DATA", "SINGLE_POINT"}
    BY <2>1 DEF NoTrend
  <2>4. TrendScore(trend) \in Scores
    <3>1. TrendScore(trend) \in {0, 2500}
      BY <2>3 DEF TrendScore
    <3> QED
      BY <3>1, SMT DEF Scores
  <2> QED
    BY <1>2, <2>2, <2>3, <2>4 DEF trend
<1>5. CASE ~(Cardinality(times) < 2)
  <2>1. /\ first \in times /\ \A y \in times : first <= y
        /\ last \in times /\ \A y \in times : last >= y
    <3> HIDE DEF times
    <3>1. times # {}
      BY <1>5, FS_EmptySet
    <3> QED
      BY <1>1, <3>1, Extremes
  <2>2. first \in Int /\ last \in Int /\ first < last
    <3> HIDE DEF times, first, last
    <3>1. first \in Int /\ last \in Int /\ first <= last
      BY <1>1, <2>1
    <3>2. CASE first = last
      <4>1. \A y \in times : y = first
        BY <1>1, <2>1, <3>1, <3>2
      <4>2. times = {first}
        BY <2>1, <4>1
      <4> QED
        BY <1>5, <4>2, FS_Singleton
    <3> QED
      BY <3>1, <3>2
  <2>3. ASSUME NEW t \in times
        PROVE  \E o \in points : o.at = t /\ Level(t) = o.level
    OBVIOUS
  <2>4. PICK o \in points : o.at = first /\ Level(first) = o.level
    BY <2>1, <2>3
  <2>5. PICK p \in points : p.at = last /\ Level(last) = p.level
    BY <2>1, <2>3
  <2>6. /\ o \in rs /\ o.station = station /\ anchor - Lookback <= o.at /\ o.level \in Int /\ o.at \in Int
        /\ p \in rs /\ p.station = station /\ p.at <= anchor /\ p.level \in Int /\ p.at \in Int
    <3>1. \A q \in points : q \in rs /\ q.station = station /\ q.at \in anchor - Lookback .. anchor
      OBVIOUS
    <3> HIDE DEF points
    <3> QED
      BY <3>1 DEF Lookback
  <2>7. delta = p.level - o.level
    BY <2>4, <2>5
  <2>8. trend = full
    BY <1>3, <1>5
  <2> HIDE DEF gaps, trend, points, times, first, last, Level, delta
  <2>9. /\ trend.direction = IF AbsVal(delta) < 5 THEN "STEADY" ELSE IF delta > 0 THEN "RISING" ELSE "FALLING"
        /\ trend.rate = delta \div (last - first) /\ trend.points = Cardinality(times)
    BY <2>8
  <2> HIDE DEF full
  <2>10. delta \in Int
    BY <2>6, <2>7
  <2>11. ASSUME delta > 0 PROVE Rose(rs, station, anchor)
    <3>1. o.level < p.level
      BY <2>6, <2>7, <2>11
    <3> QED
      BY <2>2, <2>4, <2>5, <2>6, <3>1 DEF Rose
  <2>12. trend.direction = "RISING" => delta > 0
    BY <2>9
  <2>13. trend.direction \in {"STEADY", "RISING", "FALLING"}
    BY <2>9
  <2>14. TrendScore(trend) \in Scores
    <3>1. CASE trend.direction # "RISING"
      <4>1. TrendScore(trend) \in {3000, 4000}
        BY <2>13, <3>1 DEF TrendScore
      <4> QED
        BY <4>1, SMT DEF Scores
    <3>2. CASE trend.direction = "RISING"
      <4> DEFINE n == last - first
                 rate == trend.rate
      <4>1. n \in Nat /\ n > 0 /\ rate = delta \div n
        BY <2>2, <2>9
      <4> HIDE DEF n, rate
      <4>2. rate \in Int /\ rate >= 0
        BY <2>10, <2>12, <3>2, <4>1
      <4>3. TrendScore(trend) = Least(10000, 6000 + 80 * rate)
        BY <3>2 DEF TrendScore, rate
      <4> QED
        BY <4>2, <4>3, SMT DEF Least, Scores
    <3> QED
      BY <3>1, <3>2
  <2> QED
    BY <1>2, <2>9, <2>11, <2>12, <2>14 DEF trend
<1> QED
  BY <1>4, <1>5

\* The composite of seven signals is a score.
LEMMA CompositeIs ==
  ASSUME NEW spatial \in Scores \cup {Missing}, NEW temporal \in Scores, NEW metric \in Scores,
         NEW context \in Scores, NEW trend, TrendScore(trend) \in Scores
  PROVE  Composite(spatial, temporal, metric, context, trend) \in Scores
<1> DEFINE near == Max({0, spatial})
           tr == TrendScore(trend)
           A == 20 * near
           B == 15 * temporal
           C == 15 * metric
           D == 20 * context
           E == 20 * tr
           n == A + B + C + D + E + 5 * 10000 + 5 * SourceTrust + 50
<1>1. near \in Scores
  <2>1. 0 \in Int /\ spatial \in Int /\ 0 \in Scores
    BY SMT DEF Scores, Missing
  <2>2. near \in {0, spatial} /\ near >= 0
    BY <2>1, MaxOfTwo
  <2> HIDE DEF near
  <2> QED
    BY <2>1, <2>2, SMT DEF Scores, Missing
<1> HIDE DEF near, tr
<1>2. tr \in Scores
  BY DEF tr
<1>3. /\ A \in Nat /\ A <= 200000 /\ B \in Nat /\ B <= 150000
      /\ C \in Nat /\ C <= 150000 /\ D \in Nat /\ D <= 200000 /\ E \in Nat /\ E <= 200000
  BY <1>1, <1>2, SMT DEF Scores
<1>4. Composite(spatial, temporal, metric, context, trend) = n \div 100
  BY DEF Composite, near, tr
<1> HIDE DEF A, B, C, D, E
<1>5. n \in Nat /\ n <= 999999
  BY <1>3, SMT DEF SourceTrust
<1> HIDE DEF n
<1>6. n \div 100 \in Scores
  BY <1>5, SMT DEF Scores
<1> QED
  BY <1>4, <1>6

LEMMA SpatialScoreIs ==
  ASSUME NEW distance \in Int, distance >= Missing
  PROVE  /\ SpatialScore(distance) \in Scores \cup {Missing}
         /\ SpatialScore(distance) # Missing => distance # Missing
<1> DEFINE n == 10000 * distance
<1>1. CASE distance = Missing
  BY <1>1 DEF SpatialScore
<1>2. CASE distance # Missing /\ distance >= SpatialRadius
  BY <1>2, SMT DEF SpatialScore, Scores
<1>3. CASE distance # Missing /\ ~(distance >= SpatialRadius)
  <2>1. n \in Nat /\ n <= 340000
    BY <1>3, SMT DEF Missing, SpatialRadius
  <2>2. SpatialScore(distance) = 10000 - n \div 35
    BY <1>3, SMT DEF SpatialScore, SpatialRadius
  <2> HIDE DEF n
  <2> QED
    BY <1>3, <2>1, <2>2, SMT DEF Scores
<1> QED
  BY <1>1, <1>2, <1>3

LEMMA TemporalScoreIs == ASSUME NEW lag \in Int PROVE TemporalScore(lag) \in Scores
<1> DEFINE n == 10000 * (-lag - PriorFull)
<1>1. CASE AbsVal(lag) > TimeWindow \/ lag \in -PriorFull .. 0
  <2>1. TemporalScore(lag) \in {0, 10000}
    BY <1>1 DEF TemporalScore
  <2> QED
    BY <2>1, SMT DEF Scores
<1>2. CASE ~(AbsVal(lag) > TimeWindow) /\ ~(lag \in -PriorFull .. 0) /\ lag < 0
  <2>1. n \in Nat /\ n <= 200000
    BY <1>2, SMT DEF AbsVal, TimeWindow, PriorFull
  <2>2. TemporalScore(lag) = 10000 - n \div 20
    BY <1>2, SMT DEF TemporalScore, TimeWindow, PriorFull
  <2> HIDE DEF n
  <2> QED
    BY <2>1, <2>2, SMT DEF Scores
<1>3. CASE ~(AbsVal(lag) > TimeWindow) /\ ~(lag \in -PriorFull .. 0) /\ ~(lag < 0)
  <2>1. lag \in 1 .. 24
    BY <1>3, SMT DEF AbsVal, TimeWindow, PriorFull
  <2>2. TemporalScore(lag) = PostDecay[lag]
    BY <1>3, SMT DEF TemporalScore
  <2> QED
    BY <2>1, <2>2, PostDecayIs
<1> QED
  BY <1>1, <1>2, <1>3

LEMMA ScoreCorroborationIs ==
  ASSUME NEW o, o.at \in Int, o.level \in Int, NEW category, NEW anchor \in Int,
         NEW distance \in Int, distance >= Missing, NEW facts,
         NEW trend, trend.points \in Nat, TrendScore(trend) \in Scores
  PROVE  LET row == ScoreCorroboration(o, category, anchor, distance, facts, trend) IN
         /\ row \in CorrRows
         /\ row.rel = "CORROBORATING" =>
              /\ category \in DirectHazards /\ distance # Missing
              /\ IsRiverMention(facts.locationRiver) /\ trend.direction = "RISING"
<1> DEFINE row == ScoreCorroboration(o, category, anchor, distance, facts, trend)
           lag == o.at - anchor
           spatial == SpatialScore(distance)
           temporal == TemporalScore(lag)
           context == StationContext(facts)
           metric == MetricRelevance(category)
           quality == DataQuality(o.level, lag)
           composite == Composite(spatial, temporal, metric, context, trend)
           place == ContextCap(spatial, context, trend)
           hazard == HazardCap(category)
           final == Min({composite, place, hazard})
           denied == IsContradictory(o, facts, spatial, temporal, trend)
           Verdict(rel, sc) == [rel |-> rel, score |-> sc, points |-> trend.points]
<1>1. row = IF metric = 0 THEN Verdict("IRRELEVANT", 0)
            ELSE IF quality \in {"MISSING_METRIC", "MALFORMED"} THEN Verdict("INSUFFICIENT_DATA", 0)
            ELSE IF quality = "STALE" THEN Verdict("IRRELEVANT", 500)
            ELSE IF temporal = 0 \/ spatial = 0 THEN Verdict("IRRELEVANT", 0)
            ELSE IF spatial = Missing /\ context <= 2000 THEN Verdict("INSUFFICIENT_DATA", 2000)
            ELSE IF spatial < 1000 /\ context <= 2000 THEN Verdict("IRRELEVANT", 1000)
            ELSE IF denied THEN Verdict("CONTRADICTORY", 5000)
            ELSE Verdict(Classify(final), final)
  BY DEF ScoreCorroboration
<1> HIDE DEF row, lag, spatial, temporal, context, metric, quality, composite, place, hazard, final, denied
<1>2. lag \in Int
  BY DEF lag
<1>3. /\ spatial \in Scores \cup {Missing} /\ (spatial # Missing => distance # Missing)
      /\ temporal \in Scores /\ context \in Scores
      /\ context > 5500 => IsRiverMention(facts.locationRiver)
  BY <1>2, SpatialScoreIs, TemporalScoreIs, StationContextIs DEF spatial, temporal, context
<1>4. metric \in Scores
  BY SMT DEF metric, MetricRelevance, Scores
<1>5. composite \in Scores
  BY <1>3, <1>4, CompositeIs DEF composite
<1>6. place \in Scores /\ (place >= 7000 => spatial # Missing /\ context > 5500 /\ trend.direction = "RISING")
  BY <1>3, SMT DEF place, ContextCap, Scores
<1>7. hazard \in Scores /\ (hazard >= 7000 => category \in DirectHazards)
  BY SMT DEF hazard, HazardCap, CorroboratingThreshold, Scores
<1>8. final \in Scores /\ (final >= 7000 => place >= 7000 /\ hazard >= 7000)
  <2>1. composite \in Int /\ place \in Int /\ hazard \in Int
    BY <1>5, <1>6, <1>7, SMT DEF Scores
  <2>2. final \in {composite, place, hazard} /\ final <= place /\ final <= hazard
    BY <2>1, MinOfThree DEF final
  <2> QED
    BY <1>5, <1>6, <1>7, <2>1, <2>2, SMT
<1>9. Classify(final) \in Relations /\ (Classify(final) = "CORROBORATING" => final >= 7000)
  BY SMT DEF Classify, Relations, CorroboratingThreshold
<1>10. /\ 0 \in Scores /\ 500 \in Scores /\ 2000 \in Scores /\ 1000 \in Scores /\ 5000 \in Scores
  BY SMT DEF Scores
<1>11. ASSUME NEW rel \in Relations, NEW sc \in Scores
       PROVE  Verdict(rel, sc) \in CorrRows /\ Verdict(rel, sc).rel = rel
  BY DEF CorrRows
<1>12. row \in CorrRows
  <2>1. /\ "IRRELEVANT" \in Relations /\ "INSUFFICIENT_DATA" \in Relations
        /\ "CONTRADICTORY" \in Relations
    BY DEF Relations
  <2>2. /\ Verdict("IRRELEVANT", 0) \in CorrRows /\ Verdict("INSUFFICIENT_DATA", 0) \in CorrRows
        /\ Verdict("IRRELEVANT", 500) \in CorrRows /\ Verdict("INSUFFICIENT_DATA", 2000) \in CorrRows
        /\ Verdict("IRRELEVANT", 1000) \in CorrRows /\ Verdict("CONTRADICTORY", 5000) \in CorrRows
        /\ Verdict(Classify(final), final) \in CorrRows
    <3> HIDE DEF Verdict
    <3> QED
      BY <1>8, <1>9, <1>10, <1>11, <2>1
  <2> HIDE DEF Verdict
  <2> QED
    BY <1>1, <2>2
<1>13. row.rel = "CORROBORATING" => final >= 7000
  BY <1>1, <1>9
<1> QED
  BY <1>3, <1>6, <1>7, <1>8, <1>12, <1>13 DEF row

-----------------------------------------------------------------------------
(* The score of a report.                                                  *)

\* The elements a function takes on a finite set are no more than its elements.
LEMMA FiniteImage ==
  ASSUME NEW f, IsFiniteSet(DOMAIN f), NEW T, T = {f[x] : x \in DOMAIN f}, f = [x \in DOMAIN f |-> f[x]]
  PROVE  IsFiniteSet(T) /\ Cardinality(T) <= Cardinality(DOMAIN f)
<1>1. f \in Surjection(DOMAIN f, T)
  BY DEF Surjection
<1> QED
  BY <1>1, FS_Surjection

\* What a score may be computed from.
IsInputs(inputs) ==
  /\ inputs.trust \in Int /\ inputs.crowd \in Nat \ {0}
  /\ IsFiniteSet(inputs.groups) /\ IsFiniteSet(inputs.stations) /\ IsFiniteSet(inputs.denials)
  /\ \A g \in inputs.groups : g.confidence \in Scores /\ g.role \in Scores /\ g.count \in DOMAIN Diminishing
  /\ \A s \in inputs.stations : s.score \in Scores /\ s.weight \in Scores
  /\ \A d \in inputs.denials : d.score \in Scores /\ d.weight \in Scores

LEMMA ScoresAreIntegers == Scores \subseteq Int
BY SMT DEF Scores

LEMMA CrowdSignalIs == \A k \in Nat \ {0} : CrowdSignal(k) \in Int
<1>1. \A k \in 1 .. 30 : CrowdTable[k] \in Int
  BY SMT DEF CrowdTable
<1> QED
  BY <1>1, SMT DEF CrowdSignal

LEMMA QualityIs == \A known : Quality(known) \in Int
BY SMT DEF Quality, QualityWeight

LEMMA BaselineIs == ASSUME NEW inputs, IsInputs(inputs) PROVE Baseline(inputs) \in Int
<1> DEFINE most == 9500
           fewest == 1000
           share == 3000
           low == Min({most, inputs.trust})
           high == Max({fewest, low})
           part == Times(share, Quality(inputs.known))
           known == 7000 + part
<1>4. Baseline(inputs) = Times(high, known)
  BY DEF Baseline
<1>5. most \in Int /\ fewest \in Int /\ share \in Int
  OBVIOUS
<1> HIDE DEF most, fewest, share
<1>1. low \in Int
  BY <1>5, MinOfTwo DEF IsInputs
<1> HIDE DEF low
<1>2. high \in Int
  BY <1>1, <1>5, MaxOfTwo
<1> HIDE DEF high
<1>6. part \in Int
  BY <1>5, QualityIs, TimesType
<1> HIDE DEF part
<1>3. known \in Int
  BY <1>6
<1> HIDE DEF known
<1> QED
  BY <1>2, <1>3, <1>4, TimesType

LEMMA EvidenceSignalIs ==
  ASSUME NEW inputs, IsInputs(inputs)
  PROVE  EvidenceSignal(inputs) \in Int /\ (inputs.groups = {} => EvidenceSignal(inputs) = 0)
<1> DEFINE strength == [g \in inputs.groups |-> Min({10000, Times(Voice(g), Diminishing[g.count])})]
           n == 5000
<1>1. ASSUME NEW g \in DOMAIN strength PROVE strength[g] \in Int
  <2>1. g.confidence \in Int /\ g.role \in Int /\ Diminishing[g.count] \in Int
    <3>1. g.confidence \in Scores /\ g.role \in Scores /\ g.count \in DOMAIN Diminishing
      BY DEF IsInputs
    <3>2. Diminishing[g.count] \in Nat
      <4>1. Diminishing \in Seq(Nat) /\ g.count \in DOMAIN Diminishing
        BY <3>1, DiminishingAssumption
      <4> QED
        BY <4>1
    <3>3. \A x \in Scores : x \in Int
      BY ScoresAreIntegers
    <3>4. \A x \in Nat : x \in Int
      OBVIOUS
    <3> HIDE DEF strength, n
    <3> QED
      BY <3>1, <3>2, <3>3, <3>4, Zenon
  <2>2. Times(Voice(g), Diminishing[g.count]) \in Int
    BY <2>1, TimesType DEF Voice
  <2> DEFINE all == 10000
             voice == Times(Voice(g), Diminishing[g.count])
  <2>3. strength[g] = Min({all, voice})
    OBVIOUS
  <2>4. all \in Int
    OBVIOUS
  <2> HIDE DEF all, voice, strength
  <2>5. voice \in Int
    BY <2>2 DEF voice
  <2> QED
    BY <2>3, <2>4, <2>5, MinOfTwo
<1>2. IsFiniteSet(DOMAIN strength) /\ DOMAIN strength = inputs.groups /\ n \in Int
  BY DEF IsInputs
<1>3. EvidenceSignal(inputs) = Combined(strength, n)
  BY DEF EvidenceSignal
<1> HIDE DEF strength, n
<1> QED
  BY <1>1, <1>2, <1>3, CombinedType

LEMMA ObservationSignalIs ==
  ASSUME NEW inputs, IsInputs(inputs)
  PROVE  ObservationSignal(inputs) \in Int /\ (inputs.stations = {} => ObservationSignal(inputs) = 0)
<1> DEFINE strength == [s \in inputs.stations |-> Reading(s)]
           n == 6000
<1>1. ASSUME NEW s \in DOMAIN strength PROVE strength[s] \in Int
  <2>1. s.score \in Int /\ s.weight \in Int
    BY ScoresAreIntegers DEF IsInputs
  <2> QED
    BY <2>1, TimesType DEF Reading
<1>2. IsFiniteSet(DOMAIN strength) /\ DOMAIN strength = inputs.stations /\ n \in Int
  BY DEF IsInputs
<1>3. ObservationSignal(inputs) = Combined(strength, n)
  BY DEF ObservationSignal
<1> HIDE DEF strength, n
<1> QED
  BY <1>1, <1>2, <1>3, CombinedType

LEMMA PenaltyIs == ASSUME NEW inputs, IsInputs(inputs) PROVE Penalty(inputs) \in Int
<1> DEFINE strength == [d \in inputs.denials |-> Times(d.weight, d.score)]
           n == 10000
<1>1. ASSUME NEW d \in DOMAIN strength PROVE strength[d] \in Int
  <2>1. d.score \in Int /\ d.weight \in Int
    BY ScoresAreIntegers DEF IsInputs
  <2> QED
    BY <2>1, TimesType
<1>2. IsFiniteSet(DOMAIN strength) /\ n \in Int
  BY DEF IsInputs
<1>3. Penalty(inputs) = Times(Combined(strength, n), MaxPenalty)
  BY DEF Penalty
<1>4. MaxPenalty \in Int
  BY DEF MaxPenalty
<1> HIDE DEF strength, n
<1>5. Combined(strength, n) \in Int
  BY <1>1, <1>2, CombinedType
<1> QED
  BY <1>3, <1>4, <1>5, TimesType

\* The families that speak for a report, its own among them, are finitely many.
LEMMA FamiliesAre ==
  ASSUME NEW inputs, IsInputs(inputs)
  PROVE  IsFiniteSet(Families(inputs)) /\ Cardinality(Families(inputs)) \in Nat \ {0}
<1> DEFINE heard == {h \in inputs.groups : ~h.derived /\ Voice(h) > 1000}
           f == [g \in heard |-> g.family]
           named == {g.family : g \in heard}
           sensors == {"SENSOR" : s \in {t \in inputs.stations : Reading(t) > 1000}}
<1>1. IsFiniteSet(heard)
  <2>1. IsFiniteSet(inputs.groups) /\ heard \subseteq inputs.groups
    BY DEF IsInputs
  <2> HIDE DEF heard
  <2> QED
    BY <2>1, FS_Subset
<1>2. IsFiniteSet(named)
  <2>1. DOMAIN f = heard /\ named = {f[x] : x \in DOMAIN f} /\ f = [x \in DOMAIN f |-> f[x]]
    OBVIOUS
  <2> HIDE DEF f, named, heard
  <2> QED
    BY <1>1, <2>1, FiniteImage
<1>3. IsFiniteSet(sensors)
  <2>1. sensors \subseteq {"SENSOR"}
    OBVIOUS
  <2> HIDE DEF sensors
  <2> QED
    BY <2>1, FS_Singleton, FS_Subset
<1>4. Families(inputs) = ({inputs.family} \cup named) \cup sensors
  BY DEF Families
<1> HIDE DEF named, sensors
<1>5. IsFiniteSet(Families(inputs)) /\ Families(inputs) # {}
  <2>1. IsFiniteSet({inputs.family} \cup named)
    BY <1>2, FS_Singleton, FS_Union
  <2>2. IsFiniteSet(({inputs.family} \cup named) \cup sensors)
    BY <1>3, <2>1, FS_Union
  <2> QED
    BY <1>4, <2>2
<1> QED
  BY <1>5, FS_CardinalityType, FS_EmptySet

LEMMA SupportIs == ASSUME NEW inputs, IsInputs(inputs) PROVE Support(inputs) \in Int
<1> DEFINE crowd == Times(3000, CrowdSignal(inputs.crowd))
           evidence == Times(5000, EvidenceSignal(inputs))
           telemetry == Times(5000, ObservationSignal(inputs))
           all == 10000
<1>1. CrowdSignal(inputs.crowd) \in Int /\ EvidenceSignal(inputs) \in Int /\ ObservationSignal(inputs) \in Int
  BY CrowdSignalIs, EvidenceSignalIs, ObservationSignalIs DEF IsInputs
<1>2. crowd \in Int /\ evidence \in Int /\ telemetry \in Int
  BY <1>1 DEF Times
<1>3. Support(inputs) = Min({all, crowd + evidence + telemetry}) /\ all \in Int
  BY DEF Support
<1> HIDE DEF crowd, evidence, telemetry, all
<1>4. crowd + evidence + telemetry \in Int
  BY <1>2
<1> QED
  BY <1>3, <1>4, MinOfTwo

LEMMA PositiveIs == ASSUME NEW inputs, IsInputs(inputs) PROVE Positive(inputs) \in Int
<1> DEFINE base == Baseline(inputs)
           factor == 10000 + 600 * (Cardinality(Families(inputs)) - 1)
           boosted == Times(Support(inputs), factor)
           all == 10000
           rest == all - base
           least == Min({all, boosted})
<1>4. Positive(inputs) = base + Times(rest, least) /\ all \in Int
  BY DEF Positive
<1>1. base \in Int /\ factor \in Int
  BY BaselineIs, FamiliesAre
<1> HIDE DEF base, factor, all
<1>2. boosted \in Int /\ rest \in Int
  BY <1>1, <1>4, SupportIs, TimesType
<1> HIDE DEF boosted, rest
<1>3. least \in Int
  BY <1>2, <1>4, MinOfTwo
<1> HIDE DEF least
<1>6. Times(rest, least) \in Int
  BY <1>2, <1>3, TimesType
<1> QED
  BY <1>1, <1>4, <1>6

LEMMA AppliedCapIs ==
  ASSUME NEW inputs
  PROVE  AppliedCap(inputs) \in {CapCitizen, CapOfficial, CapOther, CapSingleProvenance,
                                 CapPhysicalOnly, CapMaxMachine}
BY DEF AppliedCap

\* A score is never negative and never passes what a machine may say.
LEMMA ScoreIncidentIs ==
  ASSUME NEW inputs, IsInputs(inputs) PROVE ScoreIncident(inputs) \in 0 .. CapMaxMachine
<1> DEFINE a == Positive(inputs) - Penalty(inputs)
           b == AppliedCap(inputs)
           c == CapMaxMachine
           m == Min({a, b, c})
<1>1. a \in Int
  BY PositiveIs, PenaltyIs
<1>2. b \in Int /\ c \in Nat
  <2>1. c \in Nat
    BY SMT DEF CapMaxMachine
  <2>2. b \in {CapCitizen, CapOfficial, CapOther, CapSingleProvenance, CapPhysicalOnly, CapMaxMachine}
    BY AppliedCapIs
  <2> HIDE DEF b
  <2>3. b \in Int
    BY <2>2, SMT DEF CapCitizen, CapOfficial, CapOther, CapSingleProvenance, CapPhysicalOnly, CapMaxMachine
  <2> QED
    BY <2>1, <2>3 DEF b
<1>3. ScoreIncident(inputs) = Max({0, m})
  BY DEF ScoreIncident
<1> HIDE DEF a, b, c
<1>4. m \in Int /\ m <= c
  BY <1>1, <1>2, MinOfThree
<1> HIDE DEF m
<1>5. Max({0, m}) \in {0, m} /\ Max({0, m}) >= 0
  BY <1>4, MaxOfTwo
<1>6. Max({0, m}) \in 0 .. c
  BY <1>2, <1>4, <1>5
<1> QED
  BY <1>3, <1>6 DEF c

\* The greatest value of a function on a finite set is one of its values.
LEMMA MaxOfImage ==
  ASSUME NEW f, IsFiniteSet(DOMAIN f), DOMAIN f # {}, \A x \in DOMAIN f : f[x] \in Int,
         f = [x \in DOMAIN f |-> f[x]], NEW T, T = {f[x] : x \in DOMAIN f}
  PROVE  \E x \in DOMAIN f : Max(T) = f[x]
<1>1. IsFiniteSet(T)
  BY FiniteImage
<1>2. T \in SUBSET Int /\ T # {}
  OBVIOUS
<1>3. Max(T) \in T
  BY <1>1, <1>2, Extremes
<1>4. \A y \in T : \E x \in DOMAIN f : y = f[x]
  OBVIOUS
<1> QED
  BY <1>3, <1>4, Zenon

LEMMA RoleWeightIs ==
  ASSUME NEW role
  PROVE  RoleWeight(role) \in Scores /\ (RoleWeight(role) > 0 => role \in {"SUPPORTING", "RELATED"})
<1>1. /\ role = "SUPPORTING" => RoleWeight(role) = 10000
      /\ role = "RELATED" => RoleWeight(role) = 3500
      /\ role # "SUPPORTING" /\ role # "RELATED" => RoleWeight(role) = 0
  BY DEF RoleWeight
<1>2. 10000 \in Scores /\ 3500 \in Scores /\ 0 \in Scores /\ ~(0 > 0)
  BY SMT DEF Scores
<1> QED
  BY <1>1, <1>2

LEMMA RelationWeightIs ==
  ASSUME NEW rel
  PROVE  /\ RelationWeight(rel) \in Scores
         /\ RelationWeight(rel) > 0 => rel \in {"CORROBORATING", "CONSISTENT", "WEAK"}
<1>1. /\ rel = "CORROBORATING" => RelationWeight(rel) = 10000
      /\ rel = "CONSISTENT" => RelationWeight(rel) = 5000
      /\ rel = "WEAK" => RelationWeight(rel) = 2000
      /\ rel \notin {"CORROBORATING", "CONSISTENT", "WEAK"} => RelationWeight(rel) = 0
  BY DEF RelationWeight
<1>2. 10000 \in Scores /\ 5000 \in Scores /\ 2000 \in Scores /\ 0 \in Scores /\ ~(0 > 0)
  BY SMT DEF Scores
<1> QED
  BY <1>1, <1>2

\* The groups of some links bear scores, and there is none unless a link speaks.
LEMMA EvidenceGroupsAre ==
  ASSUME NEW linked, IsFiniteSet(linked), \A l \in linked : l.confidence \in Scores,
         Cardinality(linked) <= Len(Diminishing)
  PROVE  LET groups == EvidenceGroups(linked) IN
         /\ IsFiniteSet(groups)
         /\ \A g \in groups : g.confidence \in Scores /\ g.role \in Scores /\ g.count \in DOMAIN Diminishing
         /\ groups # {} => \E l \in linked : Speaks(l)
<1> DEFINE Of(key) == {l \in linked : Provenance(l.item) = key}
           Group(key) == [confidence |-> Max({l.confidence : l \in Of(key)}),
                          role |-> Max({RoleWeight(l.role) : l \in Of(key)}),
                          count |-> Cardinality(Of(key)),
                          family |-> (CHOOSE l \in Of(key) : TRUE).item.family,
                          derived |-> \E l \in Of(key) : l.item.derived,
                          key |-> key]
           all == {Group(Provenance(l.item)) : l \in linked}
           f == [l \in linked |-> Group(Provenance(l.item))]
           groups == EvidenceGroups(linked)
<1>1. groups = {g \in all : g.role > 0}
  BY DEF EvidenceGroups
<1>2. IsFiniteSet(all)
  <2>1. DOMAIN f = linked /\ all = {f[x] : x \in DOMAIN f} /\ f = [x \in DOMAIN f |-> f[x]]
    OBVIOUS
  <2> HIDE DEF f, all
  <2> QED
    BY <2>1, FiniteImage
<1>3. ASSUME NEW l \in linked
      PROVE  LET g == Group(Provenance(l.item)) IN
             /\ g.confidence \in Scores /\ g.role \in Scores /\ g.count \in DOMAIN Diminishing
             /\ g.role > 0 => \E m \in linked : Speaks(m)
  <2> DEFINE own == Of(Provenance(l.item))
             c == [m \in own |-> m.confidence]
             w == [m \in own |-> RoleWeight(m.role)]
             g == Group(Provenance(l.item))
  <2>1. own \subseteq linked /\ l \in own
    OBVIOUS
  <2>2. /\ g.confidence = Max({m.confidence : m \in own})
        /\ g.role = Max({RoleWeight(m.role) : m \in own})
        /\ g.count = Cardinality(own)
    OBVIOUS
  <2> HIDE DEF g, own, Group, Of
  <2>3. IsFiniteSet(own) /\ own # {} /\ Cardinality(own) <= Cardinality(linked)
    BY <2>1, FS_Subset
  <2>4. \E m \in own : Max({x.confidence : x \in own}) = m.confidence
    <3>1. /\ DOMAIN c = own /\ {x.confidence : x \in own} = {c[x] : x \in DOMAIN c}
          /\ c = [x \in DOMAIN c |-> c[x]] /\ \A x \in DOMAIN c : c[x] \in Int /\ c[x] = x.confidence
      BY <2>1, ScoresAreIntegers
    <3> HIDE DEF c
    <3>2. \E x \in DOMAIN c : Max({y.confidence : y \in own}) = c[x]
      BY <2>3, <3>1, MaxOfImage
    <3> QED
      BY <3>1, <3>2
  <2>5. \E m \in own : Max({RoleWeight(x.role) : x \in own}) = RoleWeight(m.role)
    <3>1. /\ DOMAIN w = own /\ {RoleWeight(x.role) : x \in own} = {w[x] : x \in DOMAIN w}
          /\ w = [x \in DOMAIN w |-> w[x]] /\ \A x \in DOMAIN w : w[x] \in Int /\ w[x] = RoleWeight(x.role)
      BY RoleWeightIs, ScoresAreIntegers
    <3> HIDE DEF w
    <3>2. \E x \in DOMAIN w : Max({RoleWeight(y.role) : y \in own}) = w[x]
      BY <2>3, <3>1, MaxOfImage
    <3> QED
      BY <3>1, <3>2
  <2>6. g.count \in DOMAIN Diminishing
    <3>1. Cardinality(own) \in Nat \ {0} /\ Cardinality(linked) \in Nat
      BY <2>3, FS_CardinalityType, FS_EmptySet
    <3>2. Len(Diminishing) \in Nat /\ DOMAIN Diminishing = 1 .. Len(Diminishing)
      BY DiminishingAssumption, LenProperties
    <3> QED
      BY <2>2, <2>3, <3>1, <3>2
  <2>7. g.confidence \in Scores /\ g.role \in Scores
    BY <2>1, <2>2, <2>4, <2>5, RoleWeightIs
  <2>8. ASSUME g.role > 0 PROVE \E m \in linked : Speaks(m)
    BY <2>1, <2>2, <2>5, <2>8, RoleWeightIs DEF Speaks
  <2> QED
    BY <2>6, <2>7, <2>8 DEF g
<1> HIDE DEF Group
<1>4. IsFiniteSet(groups)
  <2> HIDE DEF all, groups
  <2> QED
    BY <1>1, <1>2, FS_Subset
<1>5. ASSUME NEW g \in groups
      PROVE  /\ g.confidence \in Scores /\ g.role \in Scores /\ g.count \in DOMAIN Diminishing
             /\ \E l \in linked : Speaks(l)
  <2>1. PICK l \in linked : g = Group(Provenance(l.item)) /\ g.role > 0
    BY <1>1
  <2> QED
    BY <1>3, <2>1
<1> QED
  BY <1>4, <1>5

\* So do the stations of some readings; each station has one of them.
LEMMA StationGroupsAre ==
  ASSUME NEW telemetry, IsFiniteSet(telemetry),
         \A c \in telemetry : c.score \in Scores
  PROVE  LET stations == StationGroups(telemetry) IN
         /\ IsFiniteSet(stations)
         /\ \A s \in stations : /\ s.score \in Scores /\ s.weight \in Scores
                                /\ \E c \in telemetry : c.station = s.station
         /\ \A s, t \in stations : s.station = t.station => s = t
         /\ stations # {} => \E c \in telemetry : Measures(c)
<1> DEFINE Of(st) == {c \in telemetry : c.station = st}
           Group(st) == [station |-> st, score |-> Max({c.score : c \in Of(st)}),
                         weight |-> Max({RelationWeight(c.rel) : c \in Of(st)}),
                         points |-> Max({c.points : c \in Of(st)})]
           all == {Group(c.station) : c \in telemetry}
           f == [c \in telemetry |-> Group(c.station)]
           stations == StationGroups(telemetry)
<1>1. stations = {g \in all : g.weight > 0}
  BY DEF StationGroups
<1>2. IsFiniteSet(all)
  <2>1. DOMAIN f = telemetry /\ all = {f[x] : x \in DOMAIN f} /\ f = [x \in DOMAIN f |-> f[x]]
    OBVIOUS
  <2> HIDE DEF f, all
  <2> QED
    BY <2>1, FiniteImage
<1>3. ASSUME NEW c \in telemetry
      PROVE  LET g == Group(c.station) IN
             /\ g.score \in Scores /\ g.weight \in Scores /\ g.station = c.station
             /\ g.weight > 0 => \E d \in telemetry : Measures(d)
  <2> DEFINE own == Of(c.station)
             v == [d \in own |-> d.score]
             w == [d \in own |-> RelationWeight(d.rel)]
             g == Group(c.station)
  <2>1. own \subseteq telemetry /\ c \in own
    OBVIOUS
  <2>2. /\ g.score = Max({d.score : d \in own}) /\ g.station = c.station
        /\ g.weight = Max({RelationWeight(d.rel) : d \in own})
    OBVIOUS
  <2> HIDE DEF g, own, Group, Of
  <2>3. IsFiniteSet(own) /\ own # {}
    BY <2>1, FS_Subset
  <2>4. \E d \in own : Max({x.score : x \in own}) = d.score
    <3>1. /\ DOMAIN v = own /\ {x.score : x \in own} = {v[x] : x \in DOMAIN v}
          /\ v = [x \in DOMAIN v |-> v[x]] /\ \A x \in DOMAIN v : v[x] \in Int /\ v[x] = x.score
      BY <2>1, ScoresAreIntegers
    <3> HIDE DEF v
    <3>2. \E x \in DOMAIN v : Max({y.score : y \in own}) = v[x]
      BY <2>3, <3>1, MaxOfImage
    <3> QED
      BY <3>1, <3>2
  <2>5. \E d \in own : Max({RelationWeight(x.rel) : x \in own}) = RelationWeight(d.rel)
    <3>1. /\ DOMAIN w = own /\ {RelationWeight(x.rel) : x \in own} = {w[x] : x \in DOMAIN w}
          /\ w = [x \in DOMAIN w |-> w[x]] /\ \A x \in DOMAIN w : w[x] \in Int /\ w[x] = RelationWeight(x.rel)
      BY RelationWeightIs, ScoresAreIntegers
    <3> HIDE DEF w
    <3>2. \E x \in DOMAIN w : Max({RelationWeight(y.rel) : y \in own}) = w[x]
      BY <2>3, <3>1, MaxOfImage
    <3> QED
      BY <3>1, <3>2
  <2>7. g.score \in Scores /\ g.weight \in Scores
    BY <2>1, <2>2, <2>4, <2>5, RelationWeightIs
  <2>8. ASSUME g.weight > 0 PROVE \E d \in telemetry : Measures(d)
    BY <2>1, <2>2, <2>5, <2>8, RelationWeightIs DEF Measures
  <2> QED
    BY <2>2, <2>7, <2>8 DEF g
<1>4. IsFiniteSet(stations)
  <2> HIDE DEF all, stations
  <2> QED
    BY <1>1, <1>2, FS_Subset
<1> HIDE DEF Group
<1>5. ASSUME NEW s \in stations
      PROVE  /\ s.score \in Scores /\ s.weight \in Scores
             /\ \E c \in telemetry : c.station = s.station
             /\ \E c \in telemetry : Measures(c)
             /\ s = Group(s.station)
  <2>1. PICK c \in telemetry : s = Group(c.station) /\ s.weight > 0
    BY <1>1
  <2> QED
    BY <1>3, <2>1
<1> QED
  BY <1>4, <1>5

\* What speaks against a report bears scores, too.
LEMMA ContradictionsAre ==
  ASSUME NEW linked, IsFiniteSet(linked), \A l \in linked : l.confidence \in Scores,
         NEW telemetry, IsFiniteSet(telemetry), \A c \in telemetry : c.score \in Scores
  PROVE  LET denials == Contradictions(linked, telemetry) IN
         IsFiniteSet(denials) /\ \A d \in denials : d.score \in Scores /\ d.weight \in Scores
<1> DEFINE A == {m \in linked : m.role = "CONTRADICTORY"}
           B == {c \in telemetry : c.rel = "CONTRADICTORY"}
           of == 4000
           by == 6000
           f == [l \in A |-> [key |-> l.item.id, score |-> l.confidence, weight |-> of]]
           g == [c \in B |-> [key |-> c.id, score |-> c.score, weight |-> by]]
           F == {[key |-> l.item.id, score |-> l.confidence, weight |-> of] : l \in A}
           G == {[key |-> c.id, score |-> c.score, weight |-> by] : c \in B}
<1>1. Contradictions(linked, telemetry) = F \cup G
  BY SMTT(30) DEF Contradictions
<1>2. of \in Scores /\ by \in Scores
  BY SMT DEF Scores
<1> HIDE DEF of, by
<1>3. A \subseteq linked /\ B \subseteq telemetry
  OBVIOUS
<1>4. /\ DOMAIN f = A /\ F = {f[x] : x \in DOMAIN f} /\ f = [x \in DOMAIN f |-> f[x]]
      /\ DOMAIN g = B /\ G = {g[x] : x \in DOMAIN g} /\ g = [x \in DOMAIN g |-> g[x]]
  OBVIOUS
<1>5. /\ \A d \in F : d.score \in Scores /\ d.weight \in Scores
      /\ \A d \in G : d.score \in Scores /\ d.weight \in Scores
  BY <1>2
<1> HIDE DEF A, B, f, g, F, G
<1>6. IsFiniteSet(F) /\ IsFiniteSet(G)
  BY <1>3, <1>4, FS_Subset, FiniteImage
<1>7. IsFiniteSet(F \cup G)
  BY <1>6, FS_Union
<1> QED
  BY <1>1, <1>5, <1>7

\* The rows of links and corroborations are of reports and of what is known.
AreRows(lk, co) ==
  /\ DOMAIN lk \subseteq Report \X Item /\ DOMAIN co \subseteq Report \X Reading_
  /\ \A k \in DOMAIN lk : lk[k] \in LinkRows
  /\ \A k \in DOMAIN co : co[k] \in CorrRows

\* What the world of a behaviour is assumed to be.
LEMMA WorldIs ==
  ASSUME world \in Worlds
  PROVE  /\ IsFiniteSet(Report) /\ IsFiniteSet(Item) /\ IsFiniteSet(Reading_)
         /\ Item \cap Reading_ = {} /\ world.stored \subseteq Reading_
         /\ world.limit \in Nat /\ Cardinality(Item) <= Len(Diminishing)
         /\ \A r \in Report : IsReport(world.reports[r])
         /\ \A i \in Item : /\ Len(world.items[i]) \in Nat
                            /\ \A n \in 1 .. Len(world.items[i]) : IsVersion(world.items[i][n], Report)
         /\ \A o \in Reading_ : /\ world.readings[o].at \in Int /\ world.readings[o].level \in Int
                                /\ world.readings[o].point \in Int
<1>1. IsWorld(world)
  BY WorldsAssumption
<1> QED
  BY <1>1, Zenon DEF IsWorld, Report, Item, Reading_

\* The inputs collected from rows are such that a score can be computed, and
\* nothing in them speaks for a report unless a row of it does.
LEMMA InputsAre ==
  ASSUME world \in Worlds, NEW r \in Report, NEW lk, NEW co, AreRows(lk, co)
  PROVE  LET inputs == InputsOf(r, lk, co) IN
         /\ IsInputs(inputs)
         /\ inputs.groups # {} => \E k \in DOMAIN lk : k[1] = r /\ Speaks(lk[k])
         /\ inputs.stations # {} => \E k \in DOMAIN co : k[1] = r /\ Measures(co[k])
         /\ \A s \in inputs.stations :
              \E k \in DOMAIN co : k[1] = r /\ s.station = world.readings[k[2]].station
         /\ \A s, t \in inputs.stations : s.station = t.station => s = t
<1> DEFINE K == {p \in DOMAIN lk : p[1] = r}
           M == {p \in DOMAIN co : p[1] = r}
           linked == LinksOf(r, lk)
           telemetry == CorrsOf(r, co)
           f == [k \in K |-> [item |-> Text(k[2]), role |-> lk[k].role, confidence |-> lk[k].confidence]]
           g == [k \in M |-> [id |-> k[2], station |-> world.readings[k[2]].station, rel |-> co[k].rel,
                              score |-> co[k].score, points |-> co[k].points]]
           inputs == InputsOf(r, lk, co)
<1>1. IsFiniteSet(K) /\ Cardinality(K) <= Len(Diminishing)
  <2> DEFINE h == [k \in K |-> k[2]]
  <2>1. K \subseteq Report \X Item
    BY DEF AreRows
  <2>2. h \in Injection(K, Item)
    <3>1. h \in [K -> Item]
      BY <2>1
    <3>2. ASSUME NEW a \in K, NEW b \in K, h[a] = h[b] PROVE a = b
      <4>1. a[1] = r /\ b[1] = r /\ a \in Report \X Item /\ b \in Report \X Item /\ a[2] = b[2]
        BY <2>1, <3>2
      <4> QED
        BY <4>1
    <3>3. DOMAIN h = K
      OBVIOUS
    <3> HIDE DEF h, K
    <3> QED
      BY <3>1, <3>2, <3>3 DEF Injection, IsInjective
  <2> HIDE DEF h, K
  <2>3. IsFiniteSet(Item) /\ Cardinality(Item) <= Len(Diminishing)
    BY WorldIs
  <2>4. IsFiniteSet(K) /\ Cardinality(K) <= Cardinality(Item)
    BY <2>2, <2>3, FS_Injection
  <2>5. Cardinality(K) \in Nat /\ Cardinality(Item) \in Nat /\ Len(Diminishing) \in Nat
    BY <2>3, <2>4, FS_CardinalityType, DiminishingAssumption, LenProperties
  <2> QED
    BY <2>3, <2>4, <2>5
<1>2. IsFiniteSet(M)
  <2>1. M \subseteq Report \X Reading_ /\ IsFiniteSet(Report \X Reading_)
    BY WorldIs, FS_Product DEF AreRows
  <2> HIDE DEF M
  <2> QED
    BY <2>1, FS_Subset
<1>3. /\ DOMAIN f = K /\ linked = {f[x] : x \in DOMAIN f} /\ f = [x \in DOMAIN f |-> f[x]]
      /\ DOMAIN g = M /\ telemetry = {g[x] : x \in DOMAIN g} /\ g = [x \in DOMAIN g |-> g[x]]
  BY DEF LinksOf, CorrsOf
<1>4. \A l \in linked : /\ l.confidence \in Scores
                        /\ \E k \in DOMAIN lk : k[1] = r /\ l.role = lk[k].role
  <2>1. ASSUME NEW k \in K PROVE f[k].confidence \in Scores /\ f[k].role = lk[k].role
    BY DEF AreRows, LinkRows
  <2>2. \A k \in K : k \in DOMAIN lk /\ k[1] = r
    OBVIOUS
  <2> HIDE DEF f, K, linked
  <2> QED
    BY <1>3, <2>1, <2>2
<1>5. \A c \in telemetry : /\ c.score \in Scores
                           /\ \E k \in DOMAIN co : /\ k[1] = r /\ c.rel = co[k].rel
                                                   /\ c.station = world.readings[k[2]].station
  <2>1. ASSUME NEW k \in M
        PROVE  /\ g[k].score \in Scores /\ g[k].rel = co[k].rel
               /\ g[k].station = world.readings[k[2]].station
    BY DEF AreRows, CorrRows
  <2>2. \A k \in M : k \in DOMAIN co /\ k[1] = r
    OBVIOUS
  <2> HIDE DEF g, M, telemetry
  <2> SUFFICES ASSUME NEW c \in telemetry
               PROVE  /\ c.score \in Scores
                      /\ \E k \in DOMAIN co : /\ k[1] = r /\ c.rel = co[k].rel
                                              /\ c.station = world.readings[k[2]].station
    OBVIOUS
  <2>3. PICK k \in M : c = g[k]
    BY <1>3
  <2> QED
    BY <2>1, <2>2, <2>3, Zenon
<1> HIDE DEF f, g, K, M, linked, telemetry
<1>6. IsFiniteSet(linked) /\ Cardinality(linked) <= Len(Diminishing) /\ IsFiniteSet(telemetry)
  <2>1. IsFiniteSet(linked) /\ Cardinality(linked) <= Cardinality(K) /\ IsFiniteSet(telemetry)
    BY <1>1, <1>2, <1>3, FiniteImage
  <2>2. Cardinality(K) \in Nat /\ Cardinality(linked) \in Nat /\ Len(Diminishing) \in Nat
    BY <1>1, <2>1, FS_CardinalityType, DiminishingAssumption, LenProperties
  <2> QED
    BY <1>1, <2>1, <2>2
<1>7. /\ inputs.trust = world.reports[r].trust /\ inputs.crowd = world.reports[r].crowd
      /\ inputs.groups = EvidenceGroups(linked) /\ inputs.stations = StationGroups(telemetry)
      /\ inputs.denials = Contradictions(linked, telemetry)
  BY DEF InputsOf, Collect, linked, telemetry
<1> HIDE DEF inputs
<1>8. IsInputs(inputs)
  <2>1. inputs.trust \in Int /\ inputs.crowd \in Nat \ {0}
    BY <1>7, WorldIs DEF IsReport
  <2>2. /\ IsFiniteSet(inputs.groups)
        /\ \A x \in inputs.groups : x.confidence \in Scores /\ x.role \in Scores /\ x.count \in DOMAIN Diminishing
    BY <1>4, <1>6, <1>7, EvidenceGroupsAre
  <2>3. IsFiniteSet(inputs.stations) /\ \A s \in inputs.stations : s.score \in Scores /\ s.weight \in Scores
    BY <1>5, <1>6, <1>7, StationGroupsAre
  <2>4. IsFiniteSet(inputs.denials) /\ \A d \in inputs.denials : d.score \in Scores /\ d.weight \in Scores
    BY <1>4, <1>5, <1>6, <1>7, ContradictionsAre
  <2> QED
    BY <2>1, <2>2, <2>3, <2>4 DEF IsInputs
<1>9. ASSUME inputs.groups # {} PROVE \E k \in DOMAIN lk : k[1] = r /\ Speaks(lk[k])
  <2>1. PICK l \in linked : Speaks(l)
    BY <1>4, <1>6, <1>7, <1>9, EvidenceGroupsAre
  <2> QED
    BY <1>4, <2>1 DEF Speaks
<1>10. ASSUME inputs.stations # {} PROVE \E k \in DOMAIN co : k[1] = r /\ Measures(co[k])
  <2>1. PICK c \in telemetry : Measures(c)
    BY <1>5, <1>6, <1>7, <1>10, StationGroupsAre
  <2> QED
    BY <1>5, <2>1 DEF Measures
<1>11. ASSUME NEW s \in inputs.stations
       PROVE  \E k \in DOMAIN co : k[1] = r /\ s.station = world.readings[k[2]].station
  <2>1. PICK c \in telemetry : c.station = s.station
    BY <1>5, <1>6, <1>7, StationGroupsAre
  <2> QED
    BY <1>5, <2>1
<1>12. \A s, t \in inputs.stations : s.station = t.station => s = t
  BY <1>5, <1>6, <1>7, StationGroupsAre
<1> QED
  BY <1>8, <1>9, <1>10, <1>11, <1>12 DEF inputs

-----------------------------------------------------------------------------
(* What a step does.                                                       *)

\* The latest reports of a set are some of them, all if they are few.
LEMMA LatestIs ==
  ASSUME world \in Worlds, NEW S \in SUBSET Report, NEW limit \in Nat
  PROVE  /\ Latest(S, limit) \subseteq S
         /\ Cardinality(S) <= limit => Latest(S, limit) = S
<1> DEFINE At(r) == world.reports[r].at
           least(U) == Min({limit, Cardinality(U)})
           Chosen(U, T) == /\ T \in SUBSET U /\ Cardinality(T) = least(U)
                           /\ \A r \in T, q \in U \ T : At(r) >= At(q)
           Bad == {U \in SUBSET S : ~ \E T \in SUBSET U : Chosen(U, T)}
<1>1. IsFiniteSet(S) /\ \A r \in S : At(r) \in Int
  BY WorldIs, FS_Subset DEF IsReport
<1>2. ASSUME NEW U \in SUBSET S
      PROVE  /\ IsFiniteSet(U) /\ Cardinality(U) \in Nat
             /\ Cardinality(U) <= limit => least(U) = Cardinality(U)
             /\ Cardinality(U) > limit => least(U) = limit
  <2>1. IsFiniteSet(U) /\ Cardinality(U) \in Nat
    BY <1>1, FS_Subset, FS_CardinalityType
  <2> DEFINE c == Cardinality(U)
  <2>2. c \in Int /\ limit \in Int
    BY <2>1
  <2>3. least(U) = Min({limit, c})
    OBVIOUS
  <2> HIDE DEF c, least
  <2>4. least(U) \in {limit, c} /\ least(U) <= limit /\ least(U) <= c
    BY <2>2, <2>3, MinOfTwo
  <2> QED
    BY <2>1, <2>2, <2>4 DEF c
<1>3. Bad = {}
  <2> SUFFICES ASSUME Bad # {} PROVE FALSE
    OBVIOUS
  <2>1. PICK U \in Bad : \A x \in U : U \ {x} \notin Bad
    <3>1. Bad \in SUBSET (SUBSET S)
      OBVIOUS
    <3> HIDE DEF Bad
    <3> QED
      BY <1>1, <3>1, SmallestBad
  <2>2. U \in SUBSET S /\ \A T \in SUBSET U : ~Chosen(U, T)
    BY <2>1
  <2> HIDE DEF least
  <2>3. CASE Cardinality(U) <= limit
    <3>1. Chosen(U, U)
      BY <1>2, <2>2, <2>3
    <3> QED
      BY <2>2, <3>1
  <2>4. CASE ~(Cardinality(U) <= limit)
    <3> DEFINE f == [r \in U |-> At(r)]
               times == {f[r] : r \in DOMAIN f}
    <3>1. PICK x \in U : \A y \in U : At(x) <= At(y)
      <4>1. IsFiniteSet(times) /\ times \in SUBSET Int /\ times # {}
        <5>1. /\ DOMAIN f = U /\ f = [r \in DOMAIN f |-> f[r]] /\ times \in SUBSET Int
          <6>1. DOMAIN f = U /\ f = [r \in DOMAIN f |-> f[r]]
            OBVIOUS
          <6>2. \A r \in U : f[r] = At(r) /\ At(r) \in Int
            BY <1>1, <2>2
          <6>3. DOMAIN f = U
            OBVIOUS
          <6> HIDE DEF f
          <6>4. \A t \in times : t \in Int
            BY <6>2, <6>3
          <6> HIDE DEF times
          <6> QED
            BY <6>1, <6>4, Zenon
        <5>2. U # {}
          BY <1>2, <2>2, <2>4, FS_EmptySet
        <5>3. times # {}
          <6>1. PICK y \in U : TRUE
            BY <5>2
          <6>2. f[y] \in times
            OBVIOUS
          <6> QED
            BY <6>2
        <5> HIDE DEF f
        <5>4. IsFiniteSet(times)
          BY <1>2, <2>2, <5>1, FiniteImage
        <5> QED
          BY <5>1, <5>3, <5>4
      <4>2. Min(times) \in times /\ \A t \in times : Min(times) <= t
        <5> HIDE DEF times
        <5> QED
          BY <4>1, Extremes
      <4>3. \A y \in U : At(y) \in times
        OBVIOUS
      <4>4. PICK x \in U : Min(times) = At(x)
        BY <4>2
      <4> QED
        BY <4>2, <4>3, <4>4
    <3>2. PICK T \in SUBSET (U \ {x}) : Chosen(U \ {x}, T)
      BY <2>1, <2>2, <3>1
    <3>3. /\ Cardinality(U) \in Nat /\ Cardinality(U \ {x}) = Cardinality(U) - 1
          /\ U \ {x} \in SUBSET S
      BY <1>2, <2>2, <3>1, FS_RemoveElement
    <3>4. least(U) = limit /\ least(U \ {x}) = limit
      <4>1. Cardinality(U) > limit
        BY <2>4, <3>3
      <4>2. CASE Cardinality(U \ {x}) > limit
        BY <1>2, <2>2, <3>3, <4>1, <4>2
      <4>3. CASE Cardinality(U \ {x}) <= limit
        <5>1. Cardinality(U \ {x}) = limit
          BY <3>3, <4>1, <4>3
        <5> QED
          BY <1>2, <2>2, <3>3, <4>1, <4>3, <5>1
      <4> QED
        BY <3>3, <4>2, <4>3
    <3>5. ASSUME NEW r \in T, NEW q \in U \ T PROVE At(r) >= At(q)
      <4>1. CASE q = x
        <5>1. r \in U /\ At(r) \in Int /\ At(q) \in Int
          BY <1>1, <2>2, <3>2
        <5> QED
          BY <3>1, <4>1, <5>1
      <4>2. CASE q # x
        BY <3>2, <4>2
      <4> QED
        BY <4>1, <4>2
    <3>6. Chosen(U, T)
      BY <3>2, <3>4, <3>5
    <3> QED
      BY <2>2, <3>2, <3>6
  <2> QED
    BY <2>3, <2>4
<1>4. PICK T \in SUBSET S : Chosen(S, T)
  BY <1>3
<1>5. Chosen(S, Latest(S, limit))
  BY <1>4 DEF Latest
<1>6. ASSUME Cardinality(S) <= limit PROVE Latest(S, limit) = S
  <2>1. Latest(S, limit) \in SUBSET S /\ Cardinality(Latest(S, limit)) = Cardinality(S)
    BY <1>2, <1>5, <1>6
  <2> QED
    BY <1>1, <2>1, FS_Subset
<1> QED
  BY <1>5, <1>6

\* A row is as it was, or new and not one that an operator had decided.
LEMMA PersistedIs ==
  ASSUME NEW rows, NEW new
  PROVE  /\ DOMAIN Persisted(rows, new) = DOMAIN rows \cup DOMAIN new
         /\ \A k \in DOMAIN rows \cup DOMAIN new :
              \/ /\ k \in DOMAIN new /\ ~(k \in DOMAIN rows /\ k \in overrides)
                 /\ Persisted(rows, new)[k] = new[k]
              \/ /\ k \in DOMAIN rows /\ (k \notin DOMAIN new \/ k \in overrides)
                 /\ Persisted(rows, new)[k] = rows[k]
BY DEF Persisted

\* The sorts of the variables.
Shape ==
  /\ world \in Worlds /\ reports \subseteq Report /\ readings \subseteq Reading_
  /\ version \in [Item -> Nat] /\ \A i \in Item : version[i] <= Len(world.items[i])
  /\ inbox \subseteq ({"report"} \X reports) \cup ({"item"} \X StoredItems) \cup ({"reading"} \X readings)
  /\ DOMAIN links \subseteq reports \X StoredItems /\ DOMAIN corrs \subseteq reports \X readings
  /\ \A k \in DOMAIN links : links[k] \in LinkRows
  /\ \A k \in DOMAIN corrs : corrs[k] \in CorrRows
  /\ DOMAIN score \subseteq reports

\* Every step brings something in, or is taken by the dispatcher or by an operator.
Arriving ==
  /\ UNCHANGED <<world, links, corrs, score, overrides>>
  /\ reports \subseteq reports' /\ reports' \subseteq Report
  /\ readings \subseteq readings' /\ readings' \subseteq Reading_
  /\ version' \in [Item -> Nat]
  /\ \A i \in Item : version[i] <= version'[i] /\ version'[i] <= Len(world.items[i])
  /\ inbox \subseteq inbox'
  /\ \A r \in reports' \ reports : <<"report", r>> \in inbox'
  /\ \A i \in Item : version'[i] # version[i] => <<"item", i>> \in inbox'
  /\ inbox' \subseteq ({"report"} \X reports') \cup ({"item"} \X StoredItems') \cup ({"reading"} \X readings')
Matched(items, pairs, S) ==
  /\ links' = links \/ links' = Linked(items)
  /\ corrs' = corrs \/ (corrs' = Corroborated(pairs) /\ \A p \in pairs : p[1] \in S)
  /\ score' = Rescored(S, links', corrs')
\* Reports and items are few: no candidate is left out.
Few == Cardinality(StoredItems) <= world.limit /\ Cardinality(reports) <= world.limit
\* A trigger is gone only when what it is about has been matched and scored.
Served(items, S) ==
  /\ \A r \in reports : <<"report", r>> \in inbox \ inbox' =>
       /\ r \in S /\ links' = Linked(items)
       /\ Few => \A i \in StoredItems : Apart(Text(i).published, world.reports[r].at) <= MaxWindow => i \in items
  /\ \A i \in StoredItems : <<"item", i>> \in inbox \ inbox' =>
       /\ i \in items /\ links' = Linked(items)
       /\ \A r \in CandidateReports(i) : Relevant(<<r, i>>) => r \in S
Handling ==
  /\ \E items \in SUBSET StoredItems, pairs \in SUBSET (reports \X readings), S \in SUBSET reports :
       Matched(items, pairs, S) /\ Served(items, S)
  /\ inbox' \subseteq inbox
  /\ UNCHANGED <<world, reports, version, readings, overrides>>
Decided(key) ==
  /\ overrides = {} /\ overrides' = {key}
  /\ DOMAIN links' = DOMAIN links /\ DOMAIN corrs' = DOMAIN corrs
  /\ \A k \in DOMAIN links : /\ links'[k] \in LinkRows /\ (k # key => links'[k] = links[k])
  /\ \A k \in DOMAIN corrs : /\ corrs'[k] \in CorrRows /\ (k # key => corrs'[k] = corrs[k])
Overriding ==
  /\ \E key : Decided(key)
  /\ UNCHANGED <<world, reports, version, readings, inbox, score>>

LEMMA Steps == Shape /\ [Next]_vars => Arriving \/ Handling \/ Overriding \/ UNCHANGED vars
<1> SUFFICES ASSUME Shape, [Next]_vars PROVE Arriving \/ Handling \/ Overriding \/ UNCHANGED vars
  OBVIOUS
<1>1. ASSUME NEW r \in Report, ReportArrives(r) PROVE Arriving
  <2>1. /\ reports' = reports \cup {r} /\ inbox' = inbox \cup {<<"report", r>>}
        /\ UNCHANGED <<world, version, readings, links, corrs, score, overrides>>
    BY <1>1 DEF ReportArrives
  <2>2. StoredItems' = StoredItems
    BY <2>1 DEF StoredItems, Item
  <2>3. <<"report", r>> \in {"report"} \X reports'
    BY <2>1
  <2>4. \A i \in Item : version[i] \in Nat
    BY DEF Shape
  <2>5. reports \subseteq reports' /\ reports' \subseteq Report
    BY <1>1, <2>1 DEF Shape
  <2>6. inbox' \subseteq ({"report"} \X reports') \cup ({"item"} \X StoredItems') \cup ({"reading"} \X readings')
    BY <2>1, <2>2, <2>3, <2>5 DEF Shape
  <2> QED
    BY <2>1, <2>4, <2>5, <2>6 DEF Arriving, Shape
<1>2. ASSUME NEW i \in Item, ItemFetched(i) PROVE Arriving
  <2>1. /\ version[i] < Len(world.items[i]) /\ version' = [version EXCEPT ![i] = @ + 1]
        /\ inbox' = inbox \cup {<<"item", i>>}
        /\ UNCHANGED <<world, reports, readings, links, corrs, score, overrides>>
    BY <1>2 DEF ItemFetched
  <2>2. /\ version \in [Item -> Nat] /\ Len(world.items[i]) \in Nat
        /\ \A j \in Item : version[j] <= Len(world.items[j])
    BY WorldIs DEF Shape
  <2>3. version' \in [Item -> Nat] /\ version'[i] = version[i] + 1 /\ \A j \in Item \ {i} : version'[j] = version[j]
    BY <2>1, <2>2
  <2>4. \A j \in Item : version[j] <= version'[j] /\ version'[j] <= Len(world.items[j])
    <3>1. ASSUME NEW j \in Item PROVE version[j] <= version'[j] /\ version'[j] <= Len(world.items[j])
      <4>1. version[j] \in Nat /\ version[i] \in Nat
        BY <2>2
      <4>2. CASE j = i
        BY <2>1, <2>2, <2>3, <4>1, <4>2
      <4>3. CASE j # i
        BY <2>2, <2>3, <4>1, <4>3
      <4> QED
        BY <4>2, <4>3
    <3> QED
      BY <3>1
  <2>5. StoredItems \subseteq StoredItems' /\ i \in StoredItems'
    <3>1. StoredItems = {j \in Item : version[j] > 0} /\ StoredItems' = {j \in Item : version'[j] > 0}
      BY <2>1 DEF StoredItems, Item
    <3>2. \A j \in Item : version[j] \in Nat /\ version'[j] \in Nat
      BY <2>2, <2>3
    <3>3. version'[i] > 0
      BY <2>3, <3>2
    <3>4. \A j \in Item : version[j] > 0 => version'[j] > 0
      BY <2>4, <3>2
    <3> QED
      BY <3>1, <3>3, <3>4
  <2>6. inbox' \subseteq ({"report"} \X reports') \cup ({"item"} \X StoredItems') \cup ({"reading"} \X readings')
    <3>1. <<"item", i>> \in {"item"} \X StoredItems'
      BY <2>5
    <3>2. inbox \subseteq ({"report"} \X reports') \cup ({"item"} \X StoredItems') \cup ({"reading"} \X readings')
      BY <2>1, <2>5 DEF Shape
    <3> QED
      BY <2>1, <3>1, <3>2
  <2> QED
    BY <2>1, <2>3, <2>4, <2>6 DEF Arriving, Shape
<1>3. ASSUME NEW o \in Reading_, ReadingFetched(o) PROVE Arriving
  <2>1. /\ readings' = readings \cup {o} /\ inbox' = inbox \cup {<<"reading", o>>}
        /\ UNCHANGED <<world, reports, version, links, corrs, score, overrides>>
    BY <1>3 DEF ReadingFetched
  <2>2. StoredItems' = StoredItems
    BY <2>1 DEF StoredItems, Item
  <2>3. <<"reading", o>> \in {"reading"} \X readings'
    BY <2>1
  <2>4. \A i \in Item : version[i] \in Nat
    BY DEF Shape
  <2>5. readings \subseteq readings' /\ readings' \subseteq Reading_
    BY <1>3, <2>1 DEF Shape
  <2>6. inbox' \subseteq ({"report"} \X reports') \cup ({"item"} \X StoredItems') \cup ({"reading"} \X readings')
    BY <2>1, <2>2, <2>3, <2>5 DEF Shape
  <2> QED
    BY <2>1, <2>4, <2>5, <2>6 DEF Arriving, Shape
<1>4. ASSUME NEW r \in Report, OnReport(r) PROVE Handling
  <2> DEFINE near == {i \in StoredItems : Apart(Text(i).published, world.reports[r].at) <= MaxWindow}
             pairs == {<<r, o>> : o \in Representatives(r)}
  <2>1. PICK items \in kSubset(Min({world.limit, Cardinality(near)}), near) : links' = Linked(items)
    BY <1>4 DEF OnReport
  <2>2. items \in SUBSET StoredItems
    BY <2>1 DEF kSubset
  <2>3. /\ corrs' = Corroborated(pairs) /\ score' = Rescored({r}, links', corrs')
        /\ inbox' = inbox \ {<<"report", r>>} /\ <<"report", r>> \in inbox
        /\ UNCHANGED <<world, reports, version, readings, overrides>>
    BY <1>4 DEF OnReport
  <2>4. r \in reports
    BY <2>3 DEF Shape
  <2>5. pairs \in SUBSET (reports \X readings)
    <3>1. Representatives(r) \subseteq readings
      BY DEF Representatives
    <3> QED
      BY <2>4, <3>1
  <2>6. {r} \in SUBSET reports
    BY <2>4
  <2> HIDE DEF pairs, near
  <2>7. Matched(items, pairs, {r})
    BY <2>1, <2>3 DEF Matched, pairs
  <2>8. ASSUME Few PROVE items = near
    <3>1. near \subseteq StoredItems
      BY DEF near
    <3>2. /\ IsFiniteSet(near) /\ Cardinality(near) \in Nat /\ Cardinality(near) <= Cardinality(StoredItems)
          /\ Cardinality(StoredItems) \in Nat /\ world.limit \in Nat
      <4>1. StoredItems \subseteq Item /\ IsFiniteSet(Item) /\ world.limit \in Nat
        BY WorldIs DEF Shape, StoredItems
      <4>2. IsFiniteSet(StoredItems)
        BY <4>1, FS_Subset
      <4>3. IsFiniteSet(near) /\ Cardinality(near) <= Cardinality(StoredItems)
        BY <3>1, <4>2, FS_Subset
      <4> QED
        BY <4>1, <4>2, <4>3, FS_CardinalityType
    <3> DEFINE c == Cardinality(near)
               m == Min({world.limit, c})
    <3>3. m \in {world.limit, c} /\ m <= c /\ m <= world.limit
      <4>1. world.limit \in Int /\ c \in Int
        BY <3>2
      <4> HIDE DEF c
      <4> QED
        BY <4>1, MinOfTwo
    <3>4. items \in SUBSET near /\ Cardinality(items) = m
      BY <2>1 DEF kSubset
    <3> HIDE DEF m
    <3>5. Cardinality(near) <= world.limit
      BY <2>8, <3>2 DEF Few
    <3>6. m = Cardinality(near)
      BY <3>2, <3>3, <3>5
    <3> QED
      BY <3>2, <3>4, <3>6, FS_Subset
  <2>9. Served(items, {r})
    <3>1. ASSUME NEW q \in reports, <<"report", q>> \in inbox \ inbox' PROVE q = r
      BY <2>3, <3>1
    <3>2. ASSUME NEW i \in StoredItems, <<"item", i>> \in inbox \ inbox' PROVE FALSE
      BY <2>3, <3>2
    <3>3. ASSUME Few, NEW i \in StoredItems, Apart(Text(i).published, world.reports[r].at) <= MaxWindow
          PROVE  i \in items
      BY <2>8, <3>3 DEF near
    <3> QED
      BY <2>1, <3>1, <3>2, <3>3 DEF Served
  <2> QED
    BY <2>2, <2>3, <2>5, <2>6, <2>7, <2>9 DEF Handling
<1>5. ASSUME NEW i \in Item, OnItem(i) PROVE Handling
  <2> DEFINE S == {r \in CandidateReports(i) : AssessLink(r, i).role # "IRRELEVANT"}
  <2>1. /\ links' = Linked({i}) /\ score' = Rescored(S, links', corrs)
        /\ inbox' = inbox \ {<<"item", i>>} /\ <<"item", i>> \in inbox
        /\ UNCHANGED <<world, reports, version, readings, corrs, overrides>>
    BY <1>5 DEF OnItem
  <2>2. {i} \in SUBSET StoredItems
    BY <2>1 DEF Shape
  <2>3. S \in SUBSET reports
    <3> DEFINE T == {r \in reports : Concerns(i, world.reports[r])}
    <3>1. T \in SUBSET Report /\ T \subseteq reports /\ CandidateReports(i) = Latest(T, world.limit)
      BY DEF CandidateReports, Shape
    <3>2. world \in Worlds /\ world.limit \in Nat
      BY WorldIs DEF Shape
    <3> HIDE DEF T
    <3>3. CandidateReports(i) \subseteq T
      BY <3>1, <3>2, LatestIs
    <3> QED
      BY <3>1, <3>3
  <2>4. Matched({i}, {}, S)
    <3> HIDE DEF S
    <3> QED
      BY <2>1 DEF Matched
  <2>5. Served({i}, S)
    <3>1. ASSUME NEW q \in reports, <<"report", q>> \in inbox \ inbox' PROVE FALSE
      BY <2>1, <3>1
    <3>2. ASSUME NEW j \in StoredItems, <<"item", j>> \in inbox \ inbox' PROVE j = i
      BY <2>1, <3>2
    <3>3. ASSUME NEW r \in CandidateReports(i), Relevant(<<r, i>>) PROVE r \in S
      BY <3>3 DEF Relevant
    <3> HIDE DEF S
    <3> QED
      BY <2>1, <3>1, <3>2, <3>3 DEF Served
  <2> HIDE DEF S
  <2> QED
    BY <2>1, <2>2, <2>3, <2>4, <2>5 DEF Handling
<1>6. ASSUME NEW o \in Reading_, OnReading(o) PROVE Handling
  <2> DEFINE T == {r \in reports : InWindow(r, o) /\ Reach(r, o) \in 0 .. SpatialRadius}
             affected == Latest(T, world.limit)
  <2>1. /\ corrs' = Corroborated(affected \X {o}) /\ score' = Rescored(affected, links, corrs')
        /\ inbox' = inbox \ {<<"reading", o>>} /\ <<"reading", o>> \in inbox
        /\ UNCHANGED <<world, reports, version, readings, links, overrides>>
    BY <1>6 DEF OnReading
  <2>2. o \in readings
    BY <2>1 DEF Shape
  <2>3. affected \in SUBSET reports
    <3>1. T \in SUBSET Report /\ T \subseteq reports
      BY DEF Shape
    <3>2. world \in Worlds /\ world.limit \in Nat
      BY WorldIs DEF Shape
    <3> HIDE DEF T
    <3>3. affected \subseteq T
      BY <3>1, <3>2, LatestIs
    <3> QED
      BY <3>1, <3>3
  <2> HIDE DEF affected
  <2>4. affected \X {o} \in SUBSET (reports \X readings)
    BY <2>2, <2>3
  <2>5. Matched({}, affected \X {o}, affected)
    BY <2>1 DEF Matched
  <2>6. Served({}, affected)
    BY <2>1 DEF Served
  <2> QED
    BY <2>1, <2>3, <2>4, <2>5, <2>6 DEF Handling
<1>7. ASSUME NEW key \in DOMAIN links, NEW role \in {"SUPPORTING", "IRRELEVANT"}, Override(key, role)
      PROVE  Overriding
  <2>1. /\ overrides = {} /\ overrides' = {key} /\ links' = [links EXCEPT ![key].role = role]
        /\ UNCHANGED <<world, reports, version, readings, inbox, score>>
    BY <1>7 DEF Override
  <2>2. corrs' = corrs
    <3>1. key \in Report \X Item
      BY DEF Shape, StoredItems
    <3>2. key \notin DOMAIN corrs
      <4>1. Item \cap Reading_ = {} /\ DOMAIN corrs \subseteq Report \X Reading_
        BY WorldIs DEF Shape
      <4> QED
        BY <3>1, <4>1
    <3> QED
      BY <1>7, <3>2 DEF Override
  <2>3. DOMAIN links' = DOMAIN links /\ \A k \in DOMAIN links : k # key => links'[k] = links[k]
    BY <2>1
  <2>4. links'[key] \in LinkRows
    <3>1. links[key] \in LinkRows
      BY DEF Shape
    <3>2. links'[key] = [links[key] EXCEPT !.role = role]
      BY <2>1
    <3> QED
      BY <3>1, <3>2 DEF LinkRows, Roles
  <2>5. Decided(key)
    BY <2>1, <2>2, <2>3, <2>4 DEF Decided, Shape
  <2> QED
    BY <2>1, <2>5 DEF Overriding
<1>8. ASSUME NEW key \in DOMAIN corrs, NEW rel \in {"CORROBORATING", "IRRELEVANT"}, Override(key, rel)
      PROVE  Overriding
  <2>1. /\ overrides = {} /\ overrides' = {key} /\ corrs' = [corrs EXCEPT ![key].rel = rel]
        /\ UNCHANGED <<world, reports, version, readings, inbox, score>>
    BY <1>8 DEF Override
  <2>2. links' = links
    <3>1. key \in Report \X Reading_
      BY DEF Shape
    <3>2. key \notin DOMAIN links
      <4>1. Item \cap Reading_ = {} /\ DOMAIN links \subseteq Report \X Item
        BY WorldIs DEF Shape, StoredItems
      <4> QED
        BY <3>1, <4>1
    <3> QED
      BY <1>8, <3>2 DEF Override
  <2>3. DOMAIN corrs' = DOMAIN corrs /\ \A k \in DOMAIN corrs : k # key => corrs'[k] = corrs[k]
    BY <2>1
  <2>4. corrs'[key] \in CorrRows
    <3>1. corrs[key] \in CorrRows
      BY DEF Shape
    <3>2. corrs'[key] = [corrs[key] EXCEPT !.rel = rel]
      BY <2>1
    <3> QED
      BY <3>1, <3>2 DEF CorrRows, Relations
  <2>5. Decided(key)
    BY <2>1, <2>2, <2>3, <2>4 DEF Decided, Shape
  <2> QED
    BY <2>1, <2>5 DEF Overriding
<1> QED
  BY <1>1, <1>2, <1>3, <1>4, <1>5, <1>6, <1>7, <1>8 DEF Next

-----------------------------------------------------------------------------
(* Roles are earned.                                                       *)

\* What is said of a pair by the n-th version of its item.
Assessed(k, n) ==
  LET v == world.items[k[2]][n] IN ScoreLink(world.reports[k[1]], v, v.similar[k[1]], v.words[k[1]])

\* What is said of a pair when some readings have been stored.
Measured(k, seen) ==
  LET report == world.reports[k[1]]
      reading == world.readings[k[2]]
  IN ScoreCorroboration(reading, report.category, report.at, Reach(k[1], k[2]),
                        world.facts[k[1]][reading.station],
                        WaterLevelTrend({world.readings[p] : p \in seen}, reading.station, report.at))

LEMMA AssessedIs ==
  ASSUME world \in Worlds, NEW r \in Report, NEW i \in Item, NEW n \in 1 .. Len(world.items[i])
  PROVE  LET v == world.items[i][n] IN
         /\ Assessed(<<r, i>>, n) \in LinkRows
         /\ Assessed(<<r, i>>, n).role = "SUPPORTING" => Local(world.reports[r], v, v.words[r])
<1>1. IsReport(world.reports[r]) /\ IsVersion(world.items[i][n], Report)
  BY WorldIs
<1>2. Assessed(<<r, i>>, n) =
        ScoreLink(world.reports[r], world.items[i][n], world.items[i][n].similar[r], world.items[i][n].words[r])
  BY DEF Assessed
<1> QED
  BY <1>1, <1>2, ScoreLinkIs

LEMMA MeasuredIs ==
  ASSUME world \in Worlds, NEW r \in Report, NEW o \in Reading_, NEW seen \in SUBSET Reading_
  PROVE  LET report == world.reports[r]
             station == world.readings[o].station
         IN /\ Measured(<<r, o>>, seen) \in CorrRows
            /\ Measured(<<r, o>>, seen).rel = "CORROBORATING" =>
                 /\ report.category \in DirectHazards /\ report.point # NoPoint
                 /\ IsRiverMention(world.facts[r][station].locationRiver)
                 /\ Rose({world.readings[p] : p \in seen}, station, report.at)
<1> DEFINE report == world.reports[r]
           reading == world.readings[o]
           rs == {world.readings[p] : p \in seen}
           trend == WaterLevelTrend(rs, reading.station, report.at)
           distance == Reach(r, o)
           facts == world.facts[r][reading.station]
<1>1. /\ report.at \in Int /\ report.point \in Int
      /\ reading.at \in Int /\ reading.level \in Int /\ reading.point \in Int
  BY WorldIs DEF IsReport
<1>2. \A x \in rs : x.at \in Int /\ x.level \in Int
  BY WorldIs
<1>3. Measured(<<r, o>>, seen) = ScoreCorroboration(reading, report.category, report.at, distance, facts, trend)
  BY DEF Measured
<1>4. /\ trend.points \in Nat /\ TrendScore(trend) \in Scores
      /\ trend.direction = "RISING" => Rose(rs, reading.station, report.at)
  <2> HIDE DEF rs
  <2> QED
    BY <1>1, <1>2, TrendIs
<1>5. distance \in Int /\ distance >= Missing /\ (distance # Missing => report.point # NoPoint)
  <2>1. distance = IF report.point = NoPoint THEN Missing ELSE Apart(report.point, reading.point)
    BY DEF Reach, Missing
  <2>2. Apart(report.point, reading.point) \in Nat
    BY <1>1 DEF Apart
  <2> HIDE DEF distance
  <2> QED
    BY <2>1, <2>2 DEF Missing
<1> HIDE DEF trend, distance, facts, reading, rs
<1>6. /\ Measured(<<r, o>>, seen) \in CorrRows
      /\ Measured(<<r, o>>, seen).rel = "CORROBORATING" =>
           /\ report.category \in DirectHazards /\ distance # Missing
           /\ IsRiverMention(facts.locationRiver) /\ trend.direction = "RISING"
  BY <1>1, <1>3, <1>4, <1>5, ScoreCorroborationIs
<1> QED
  BY <1>4, <1>5, <1>6 DEF facts, reading, rs

\* A row of a link is as it was, or says what the text says now.
LEMMA LinkedIs ==
  ASSUME Shape, NEW items \in SUBSET StoredItems
  PROVE  LET now == Linked(items) IN
         /\ DOMAIN links \subseteq DOMAIN now /\ DOMAIN now \subseteq reports \X StoredItems
         /\ \A k \in DOMAIN now :
              /\ k \in DOMAIN links /\ (k \in overrides \/ k \notin reports \X items
                                          \/ k[1] \notin CandidateReports(k[2])) => now[k] = links[k]
              /\ \/ k \in DOMAIN links /\ now[k] = links[k]
                 \/ /\ k[1] \in CandidateReports(k[2]) /\ (k \notin DOMAIN links \/ k \notin overrides)
                    /\ \/ Relevant(k) /\ now[k] = AssessLink(k[1], k[2])
                       \/ ~Relevant(k) /\ k \in DOMAIN links
                            /\ now[k] = [role |-> "IRRELEVANT", confidence |-> 0]
         /\ \A k \in reports \X items :
              k[1] \in CandidateReports(k[2]) /\ Relevant(k) => k \in DOMAIN now
<1> DEFINE pairs == {p \in reports \X items : p[1] \in CandidateReports(p[2])}
           chosen == {q \in pairs : Relevant(q) \/ q \in DOMAIN links}
           new == [p \in chosen |-> LinkRow(p)]
           now == Linked(items)
<1>1. now = Persisted(links, new) /\ DOMAIN new = chosen
  BY DEF Linked
<1>2. \A k \in chosen : /\ k \in reports \X items /\ k[1] \in CandidateReports(k[2])
                        /\ Relevant(k) \/ k \in DOMAIN links
                        /\ new[k] = LinkRow(k)
  OBVIOUS
<1>3. \A k \in reports \X items : k[1] \in CandidateReports(k[2]) /\ Relevant(k) => k \in chosen
  OBVIOUS
<1>4. DOMAIN links \subseteq reports \X StoredItems
  BY DEF Shape
<1> HIDE DEF new, now, chosen, pairs
<1>5. DOMAIN now = DOMAIN links \cup chosen
  BY <1>1, PersistedIs
<1>6. \A k \in DOMAIN now :
        \/ k \in chosen /\ now[k] = LinkRow(k) /\ ~(k \in DOMAIN links /\ k \in overrides)
        \/ k \in DOMAIN links /\ now[k] = links[k] /\ (k \notin chosen \/ k \in overrides)
  <2> SUFFICES ASSUME NEW k \in DOMAIN links \cup chosen
               PROVE  \/ k \in chosen /\ now[k] = LinkRow(k) /\ ~(k \in DOMAIN links /\ k \in overrides)
                      \/ k \in DOMAIN links /\ now[k] = links[k] /\ (k \notin chosen \/ k \in overrides)
    BY <1>5
  <2>1. \/ /\ k \in DOMAIN new /\ ~(k \in DOMAIN links /\ k \in overrides)
           /\ Persisted(links, new)[k] = new[k]
        \/ /\ k \in DOMAIN links /\ (k \notin DOMAIN new \/ k \in overrides)
           /\ Persisted(links, new)[k] = links[k]
    BY <1>1, PersistedIs
  <2> QED
    BY <1>1, <1>2, <2>1
<1>7. chosen \subseteq reports \X StoredItems
  BY <1>2
<1>8. ASSUME NEW k \in DOMAIN now
      PROVE  /\ k \in DOMAIN links /\ (k \in overrides \/ k \notin reports \X items
                                         \/ k[1] \notin CandidateReports(k[2])) => now[k] = links[k]
             /\ \/ k \in DOMAIN links /\ now[k] = links[k]
                \/ /\ k[1] \in CandidateReports(k[2]) /\ (k \notin DOMAIN links \/ k \notin overrides)
                   /\ \/ Relevant(k) /\ now[k] = AssessLink(k[1], k[2])
                      \/ ~Relevant(k) /\ k \in DOMAIN links
                           /\ now[k] = [role |-> "IRRELEVANT", confidence |-> 0]
  <2>1. CASE k \in chosen /\ now[k] = LinkRow(k) /\ ~(k \in DOMAIN links /\ k \in overrides)
    BY <1>2, <2>1 DEF LinkRow
  <2>2. CASE k \in DOMAIN links /\ now[k] = links[k] /\ (k \notin chosen \/ k \in overrides)
    BY <2>2
  <2> QED
    BY <1>6, <2>1, <2>2
<1> QED
  BY <1>3, <1>4, <1>5, <1>7, <1>8 DEF now

\* A row of a corroboration is as it was, or says what the gauge says now.
LEMMA CorroboratedIs ==
  ASSUME NEW pairs
  PROVE  LET now == Corroborated(pairs) IN
         /\ DOMAIN now = DOMAIN corrs \cup pairs
         /\ \A k \in DOMAIN now :
              /\ k \in DOMAIN corrs /\ (k \in overrides \/ k \notin pairs) => now[k] = corrs[k]
              /\ \/ k \in DOMAIN corrs /\ now[k] = corrs[k]
                 \/ k \in pairs /\ now[k] = AssessReading(k[1], k[2])
<1> DEFINE new == [p \in pairs |-> AssessReading(p[1], p[2])]
<1>1. Corroborated(pairs) = Persisted(corrs, new)
  BY DEF Corroborated
<1>2. DOMAIN new = pairs /\ \A k \in pairs : new[k] = AssessReading(k[1], k[2])
  OBVIOUS
<1> HIDE DEF new
<1>3. DOMAIN Persisted(corrs, new) = DOMAIN corrs \cup pairs
  BY <1>2, PersistedIs
<1>4. ASSUME NEW k \in DOMAIN corrs \cup pairs
      PROVE  \/ /\ k \in pairs /\ Persisted(corrs, new)[k] = AssessReading(k[1], k[2])
                /\ ~(k \in DOMAIN corrs /\ k \in overrides)
             \/ /\ k \in DOMAIN corrs /\ Persisted(corrs, new)[k] = corrs[k]
                /\ k \notin pairs \/ k \in overrides
  <2>1. \/ /\ k \in DOMAIN new /\ ~(k \in DOMAIN corrs /\ k \in overrides)
           /\ Persisted(corrs, new)[k] = new[k]
        \/ /\ k \in DOMAIN corrs /\ (k \notin DOMAIN new \/ k \in overrides)
           /\ Persisted(corrs, new)[k] = corrs[k]
    BY <1>2, PersistedIs
  <2> QED
    BY <1>2, <2>1
<1> QED
  BY <1>1, <1>3, <1>4

LEMMA AssessLinkIs ==
  ASSUME Shape, NEW k \in reports \X StoredItems
  PROVE  /\ version[k[2]] \in 1 .. Len(world.items[k[2]])
         /\ AssessLink(k[1], k[2]) = Assessed(k, version[k[2]])
         /\ AssessLink(k[1], k[2]) \in LinkRows
<1>1. k[1] \in Report /\ k[2] \in Item /\ k = <<k[1], k[2]>> /\ version[k[2]] > 0
  BY DEF Shape, StoredItems
<1>2. /\ version[k[2]] \in Nat /\ version[k[2]] <= Len(world.items[k[2]])
      /\ Len(world.items[k[2]]) \in Nat
  BY <1>1, WorldIs DEF Shape
<1>3. version[k[2]] \in 1 .. Len(world.items[k[2]])
  BY <1>1, <1>2
<1>4. AssessLink(k[1], k[2]) = Assessed(k, version[k[2]])
  BY DEF AssessLink, Assessed, Text
<1>5. Assessed(<<k[1], k[2]>>, version[k[2]]) \in LinkRows
  BY <1>1, <1>3, AssessedIs DEF Shape
<1> QED
  BY <1>1, <1>3, <1>4, <1>5

LEMMA AssessReadingIs ==
  ASSUME Shape, NEW k \in reports \X readings
  PROVE  /\ AssessReading(k[1], k[2]) = Measured(k, readings)
         /\ AssessReading(k[1], k[2]) \in CorrRows
<1>1. k[1] \in Report /\ k[2] \in Reading_ /\ k = <<k[1], k[2]>>
  BY DEF Shape
<1>2. AssessReading(k[1], k[2]) = Measured(k, readings)
  BY DEF AssessReading, Measured
<1>3. Measured(<<k[1], k[2]>>, readings) \in CorrRows
  BY <1>1, MeasuredIs DEF Shape
<1> QED
  BY <1>1, <1>2, <1>3

LEMMA ShapeStarts == Init => Shape
<1> SUFFICES ASSUME Init PROVE Shape
  OBVIOUS
<1>1. /\ world \in Worlds /\ reports = {} /\ inbox = {} /\ links = Empty /\ corrs = Empty
      /\ score = Empty /\ version = [i \in Item |-> 0] /\ readings = world.stored
  BY DEF Init
<1>2. DOMAIN Empty = {}
  BY DEF Empty
<1>3. \A i \in Item : 0 <= Len(world.items[i])
  BY <1>1, WorldIs
<1>4. readings \subseteq Reading_
  BY <1>1, WorldIs
<1> QED
  BY <1>1, <1>2, <1>3, <1>4 DEF Shape

LEMMA ShapeKept == Shape /\ [Next]_vars => Shape'
<1> SUFFICES ASSUME Shape, [Next]_vars PROVE Shape'
  OBVIOUS
<1>1. CASE Arriving
  <2>1. /\ world' = world /\ links' = links /\ corrs' = corrs /\ score' = score
        /\ Report' = Report /\ Reading_' = Reading_ /\ Item' = Item
    BY <1>1 DEF Arriving, Report, Reading_, Item
  <2>2. StoredItems \subseteq StoredItems'
    <3>1. StoredItems = {i \in Item : version[i] > 0} /\ StoredItems' = {i \in Item : version'[i] > 0}
      BY <2>1 DEF StoredItems
    <3>2. ASSUME NEW i \in Item, version[i] > 0 PROVE version'[i] > 0
      <4>1. version[i] \in Nat /\ version'[i] \in Nat /\ version[i] <= version'[i]
        BY <1>1 DEF Arriving, Shape
      <4> QED
        BY <3>2, <4>1
    <3> QED
      BY <3>1, <3>2
  <2>3. DOMAIN links \subseteq reports' \X StoredItems' /\ DOMAIN corrs \subseteq reports' \X readings'
    BY <1>1, <2>2 DEF Arriving, Shape
  <2>4. DOMAIN score \subseteq reports'
    BY <1>1 DEF Arriving, Shape
  <2> QED
    BY <1>1, <2>1, <2>3, <2>4 DEF Arriving, Shape
<1>2. CASE Handling
  <2>1. PICK items \in SUBSET StoredItems, pairs \in SUBSET (reports \X readings), S \in SUBSET reports :
          Matched(items, pairs, S)
    BY <1>2 DEF Handling
  <2>2. /\ UNCHANGED <<world, reports, version, readings, overrides>> /\ inbox' \subseteq inbox
        /\ Report' = Report /\ Reading_' = Reading_ /\ Item' = Item /\ StoredItems' = StoredItems
    BY <1>2 DEF Handling, Report, Reading_, Item, StoredItems
  <2>3. DOMAIN links' \subseteq reports \X StoredItems /\ \A k \in DOMAIN links' : links'[k] \in LinkRows
    <3>1. CASE links' = links
      BY <3>1 DEF Shape
    <3>2. CASE links' = Linked(items)
      <4>1. DOMAIN links' \subseteq reports \X StoredItems
        BY <3>2, LinkedIs
      <4>2. ASSUME NEW k \in DOMAIN links' PROVE links'[k] \in LinkRows
        <5>1. \/ k \in DOMAIN links /\ links'[k] = links[k]
              \/ links'[k] = AssessLink(k[1], k[2])
              \/ links'[k] = [role |-> "IRRELEVANT", confidence |-> 0]
          BY <3>2, LinkedIs
        <5>2. AssessLink(k[1], k[2]) \in LinkRows
          BY <4>1, AssessLinkIs
        <5>3. [role |-> "IRRELEVANT", confidence |-> 0] \in LinkRows
          BY SMT DEF LinkRows, Roles, Scores
        <5> QED
          BY <5>1, <5>2, <5>3 DEF Shape
      <4> QED
        BY <4>1, <4>2
    <3> QED
      BY <2>1, <3>1, <3>2 DEF Matched
  <2>4. DOMAIN corrs' \subseteq reports \X readings /\ \A k \in DOMAIN corrs' : corrs'[k] \in CorrRows
    <3>1. CASE corrs' = corrs
      BY <3>1 DEF Shape
    <3>2. CASE corrs' = Corroborated(pairs)
      <4>1. DOMAIN corrs' \subseteq reports \X readings
        BY <3>2, CorroboratedIs DEF Shape
      <4>2. ASSUME NEW k \in DOMAIN corrs' PROVE corrs'[k] \in CorrRows
        <5>1. (k \in DOMAIN corrs /\ corrs'[k] = corrs[k]) \/ corrs'[k] = AssessReading(k[1], k[2])
          BY <3>2, CorroboratedIs
        <5>2. AssessReading(k[1], k[2]) \in CorrRows
          BY <4>1, AssessReadingIs
        <5> QED
          BY <5>1, <5>2 DEF Shape
      <4> QED
        BY <4>1, <4>2
    <3> QED
      BY <2>1, <3>1, <3>2 DEF Matched
  <2>5. DOMAIN score' \subseteq reports
    BY <2>1 DEF Matched, Rescored, Shape
  <2> QED
    BY <2>2, <2>3, <2>4, <2>5 DEF Shape
<1>3. CASE Overriding
  <2>1. PICK key : Decided(key)
    BY <1>3 DEF Overriding
  <2>2. /\ UNCHANGED <<world, reports, version, readings, inbox, score>>
        /\ Report' = Report /\ Reading_' = Reading_ /\ Item' = Item /\ StoredItems' = StoredItems
    BY <1>3 DEF Overriding, Report, Reading_, Item, StoredItems
  <2> QED
    BY <2>1, <2>2 DEF Decided, Shape
<1>4. CASE UNCHANGED vars
  <2>1. Report' = Report /\ Reading_' = Reading_ /\ Item' = Item /\ StoredItems' = StoredItems
    BY <1>4 DEF vars, Report, Reading_, Item, StoredItems
  <2> QED
    BY <1>4, <2>1 DEF Shape, vars
<1> QED
  BY <1>1, <1>2, <1>3, <1>4, Steps

\* Every row of a link that no operator has decided is what some version of its
\* item earned, or was made irrelevant by an edit.
LinksAssessed ==
  \A k \in DOMAIN links \ overrides :
    \/ \E n \in 1 .. version[k[2]] : Assessed(k, n).role # "IRRELEVANT" /\ links[k] = Assessed(k, n)
    \/ version[k[2]] > 1 /\ links[k].role = "IRRELEVANT"

\* Every row of a corroboration that no operator has decided was earned by
\* readings that had been stored.
CorrsAssessed ==
  \A k \in DOMAIN corrs \ overrides : \E seen \in SUBSET readings : corrs[k] = Measured(k, seen)

\* No score passes what a machine may say.
ScoresBounded == \A r \in DOMAIN score : score[r].value \in 0 .. CapMaxMachine

LEMMA LinksAssessedKept == Shape /\ LinksAssessed /\ [Next]_vars => LinksAssessed'
<1> SUFFICES ASSUME Shape, LinksAssessed, [Next]_vars PROVE LinksAssessed'
  OBVIOUS
<1> DEFINE Good(k, row, m) ==
             \/ \E n \in 1 .. m : Assessed(k, n).role # "IRRELEVANT" /\ row = Assessed(k, n)
             \/ m > 1 /\ row.role = "IRRELEVANT"
<1>0. ASSUME world' = world, NEW k, NEW n PROVE Assessed(k, n)' = Assessed(k, n)
  BY <1>0 DEF Assessed
<1>1. \A k \in DOMAIN links \ overrides : Good(k, links[k], version[k[2]])
  BY DEF LinksAssessed
<1>2. ASSUME world' = world,
             \A k \in DOMAIN links' \ overrides' : Good(k, links'[k], version'[k[2]])
      PROVE  LinksAssessed'
  BY <1>0, <1>2 DEF LinksAssessed
<1> HIDE DEF Good
<1>3. CASE Arriving
  <2>1. ASSUME NEW k \in DOMAIN links \ overrides PROVE Good(k, links[k], version'[k[2]])
    <3>1. k[2] \in Item
      BY DEF Shape, StoredItems
    <3>2. version[k[2]] \in Nat /\ version'[k[2]] \in Nat /\ version[k[2]] <= version'[k[2]]
      BY <1>3, <3>1 DEF Arriving, Shape
    <3>3. Good(k, links[k], version[k[2]])
      BY <1>1
    <3>4. \A n \in 1 .. version[k[2]] : n \in 1 .. version'[k[2]]
      BY <3>2
    <3>5. version[k[2]] > 1 => version'[k[2]] > 1
      BY <3>2
    <3> QED
      BY <3>3, <3>4, <3>5 DEF Good
  <2>2. UNCHANGED <<world, links, overrides>>
    BY <1>3 DEF Arriving
  <2> QED
    BY <1>2, <2>1, <2>2
<1>4. CASE Handling
  <2>1. PICK items \in SUBSET StoredItems, pairs \in SUBSET (reports \X readings), S \in SUBSET reports :
          Matched(items, pairs, S)
    BY <1>4 DEF Handling
  <2>2. UNCHANGED <<world, version, overrides>>
    BY <1>4 DEF Handling
  <2>3. CASE links' = links
    BY <1>1, <1>2, <2>2, <2>3
  <2>4. CASE links' = Linked(items)
    <3>1. ASSUME NEW k \in DOMAIN links' \ overrides PROVE Good(k, links'[k], version[k[2]])
      <4>1. k \in reports \X StoredItems
        BY <2>4, LinkedIs
      <4>2. /\ version[k[2]] \in Nat \ {0} /\ AssessLink(k[1], k[2]) = Assessed(k, version[k[2]])
        BY <4>1, AssessLinkIs
      <4>3. CASE k \in DOMAIN links /\ links'[k] = links[k]
        BY <1>1, <4>3
      <4>4. CASE Relevant(k) /\ links'[k] = AssessLink(k[1], k[2])
        BY <4>2, <4>4 DEF Good, Relevant
      <4>5. CASE ~Relevant(k) /\ k \in DOMAIN links /\ links'[k] = [role |-> "IRRELEVANT", confidence |-> 0]
        <5>1. Good(k, links[k], version[k[2]])
          BY <1>1, <4>5
        <5>2. ~(version[k[2]] = 1)
          <6> SUFFICES ASSUME version[k[2]] = 1 PROVE FALSE
            OBVIOUS
          <6>1. Assessed(k, 1).role # "IRRELEVANT"
            BY <5>1 DEF Good
          <6> QED
            BY <4>2, <4>5, <6>1 DEF Relevant
        <5>3. version[k[2]] > 1
          BY <4>2, <5>2
        <5> QED
          BY <4>5, <5>3 DEF Good
      <4> QED
        BY <2>4, <4>3, <4>4, <4>5, LinkedIs
    <3> QED
      BY <1>2, <2>2, <3>1
  <2> QED
    BY <2>1, <2>3, <2>4 DEF Matched
<1>5. CASE Overriding
  <2>1. PICK key : Decided(key)
    BY <1>5 DEF Overriding
  <2>2. \A k \in DOMAIN links' \ overrides' : k \in DOMAIN links \ overrides /\ links'[k] = links[k]
    BY <2>1 DEF Decided
  <2>3. UNCHANGED <<world, version>>
    BY <1>5 DEF Overriding
  <2> QED
    BY <1>1, <1>2, <2>2, <2>3
<1>6. CASE UNCHANGED vars
  <2>1. UNCHANGED <<world, version, links, overrides>>
    BY <1>6 DEF vars
  <2> QED
    BY <1>1, <1>2, <2>1
<1> QED
  BY <1>3, <1>4, <1>5, <1>6, Steps

LEMMA CorrsAssessedKept == Shape /\ CorrsAssessed /\ [Next]_vars => CorrsAssessed'
<1> SUFFICES ASSUME Shape, CorrsAssessed, [Next]_vars PROVE CorrsAssessed'
  OBVIOUS
<1>0. ASSUME world' = world, NEW k, NEW seen PROVE Measured(k, seen)' = Measured(k, seen)
  BY <1>0 DEF Measured, Reach
<1>1. ASSUME world' = world, readings \subseteq readings',
             \A k \in DOMAIN corrs' \ overrides' :
               \/ k \in DOMAIN corrs \ overrides /\ corrs'[k] = corrs[k]
               \/ corrs'[k] = Measured(k, readings)
      PROVE  CorrsAssessed'
  <2> SUFFICES ASSUME NEW k \in DOMAIN corrs' \ overrides'
               PROVE  \E seen \in SUBSET readings' : corrs'[k] = Measured(k, seen)
    BY <1>0, <1>1 DEF CorrsAssessed
  <2>1. CASE k \in DOMAIN corrs \ overrides /\ corrs'[k] = corrs[k]
    <3>1. PICK seen \in SUBSET readings : corrs[k] = Measured(k, seen)
      BY <2>1 DEF CorrsAssessed
    <3>2. seen \in SUBSET readings'
      BY <1>1
    <3> QED
      BY <2>1, <3>1, <3>2
  <2>2. CASE corrs'[k] = Measured(k, readings)
    BY <1>1, <2>2
  <2> QED
    BY <1>1, <2>1, <2>2
<1>2. CASE Arriving
  BY <1>1, <1>2 DEF Arriving
<1>3. CASE Handling
  <2>1. PICK items \in SUBSET StoredItems, pairs \in SUBSET (reports \X readings), S \in SUBSET reports :
          Matched(items, pairs, S)
    BY <1>3 DEF Handling
  <2>2. UNCHANGED <<world, readings, overrides>>
    BY <1>3 DEF Handling
  <2>3. CASE corrs' = corrs
    BY <1>1, <2>2, <2>3
  <2>4. CASE corrs' = Corroborated(pairs)
    <3>1. ASSUME NEW k \in DOMAIN corrs' \ overrides
          PROVE  \/ k \in DOMAIN corrs \ overrides /\ corrs'[k] = corrs[k]
                 \/ corrs'[k] = Measured(k, readings)
      <4>1. \/ k \in DOMAIN corrs /\ corrs'[k] = corrs[k]
            \/ k \in pairs /\ corrs'[k] = AssessReading(k[1], k[2])
        BY <2>4, CorroboratedIs
      <4>2. k \in pairs => AssessReading(k[1], k[2]) = Measured(k, readings)
        BY AssessReadingIs
      <4> QED
        BY <4>1, <4>2
    <3> QED
      BY <1>1, <2>2, <3>1
  <2> QED
    BY <2>1, <2>3, <2>4 DEF Matched
<1>4. CASE Overriding
  <2>1. PICK key : Decided(key)
    BY <1>4 DEF Overriding
  <2>2. \A k \in DOMAIN corrs' \ overrides' : k \in DOMAIN corrs \ overrides /\ corrs'[k] = corrs[k]
    BY <2>1 DEF Decided
  <2>3. UNCHANGED <<world, readings>>
    BY <1>4 DEF Overriding
  <2> QED
    BY <1>1, <2>2, <2>3
<1>5. CASE UNCHANGED vars
  BY <1>1, <1>5 DEF vars
<1> QED
  BY <1>2, <1>3, <1>4, <1>5, Steps

\* What a step scores again is of the rows after it.
LEMMA ScoredAgain ==
  ASSUME Shape, [Next]_vars, NEW r \in DOMAIN score'
  PROVE  \/ r \in DOMAIN score /\ score'[r] = score[r]
         \/ /\ world' = world /\ r \in Report /\ AreRows(links', corrs')
            /\ score'[r] = Scored(r, links', corrs')
<1>1. CASE Handling
  <2>1. PICK items \in SUBSET StoredItems, pairs \in SUBSET (reports \X readings), S \in SUBSET reports :
          Matched(items, pairs, S)
    BY <1>1 DEF Handling
  <2>2. world' = world /\ Report' = Report /\ Item' = Item /\ Reading_' = Reading_
    BY <1>1 DEF Handling, Report, Item, Reading_
  <2>3. AreRows(links', corrs')
    <3>1. Shape'
      BY ShapeKept
    <3>2. /\ reports' \subseteq Report /\ readings' \subseteq Reading_ /\ StoredItems' \subseteq Item
          /\ DOMAIN links' \subseteq reports' \X StoredItems' /\ DOMAIN corrs' \subseteq reports' \X readings'
          /\ \A k \in DOMAIN links' : links'[k] \in LinkRows
          /\ \A k \in DOMAIN corrs' : corrs'[k] \in CorrRows
      BY <2>2, <3>1 DEF Shape, StoredItems
    <3> QED
      BY <3>2 DEF AreRows
  <2>4. score' = Rescored(S, links', corrs')
    BY <2>1 DEF Matched
  <2>5. CASE r \in S
    <3>1. score'[r] = Scored(r, links', corrs') /\ r \in Report
      BY <2>4, <2>5 DEF Rescored, Shape
    <3> QED
      BY <2>2, <2>3, <3>1
  <2>6. CASE r \notin S
    BY <2>4, <2>6 DEF Rescored
  <2> QED
    BY <2>5, <2>6
<1>2. CASE ~Handling
  BY <1>2, Steps DEF Arriving, Overriding, vars
<1> QED
  BY <1>1, <1>2

LEMMA ScoresBoundedKept == Shape /\ ScoresBounded /\ [Next]_vars => ScoresBounded'
<1> SUFFICES ASSUME Shape, ScoresBounded, [Next]_vars, NEW r \in DOMAIN score'
             PROVE  score'[r].value \in 0 .. CapMaxMachine
  BY DEF ScoresBounded
<1>1. CASE r \in DOMAIN score /\ score'[r] = score[r]
  BY <1>1 DEF ScoresBounded
<1>2. CASE r \in Report /\ AreRows(links', corrs') /\ score'[r] = Scored(r, links', corrs')
  <2>1. score'[r].value = ScoreIncident(InputsOf(r, links', corrs'))
    BY <1>2 DEF Scored
  <2>2. IsInputs(InputsOf(r, links', corrs'))
    BY <1>2, InputsAre DEF Shape
  <2> QED
    BY <2>1, <2>2, ScoreIncidentIs
<1> QED
  BY <1>1, <1>2, ScoredAgain

\* The inductive invariant: sorts, where every row comes from, what scores are.
IInv == Shape /\ LinksAssessed /\ CorrsAssessed /\ ScoresBounded

LEMMA IInvStarts == Init => IInv
<1> SUFFICES ASSUME Init PROVE IInv
  OBVIOUS
<1>1. DOMAIN links = {} /\ DOMAIN corrs = {} /\ DOMAIN score = {}
  BY DEF Init, Empty
<1> QED
  BY <1>1, ShapeStarts DEF IInv, LinksAssessed, CorrsAssessed, ScoresBounded

LEMMA IInvKept == IInv /\ [Next]_vars => IInv'
BY ShapeKept, LinksAssessedKept, CorrsAssessedKept, ScoresBoundedKept DEF IInv

LEMMA IInvIsInvariant == Spec => []IInv
BY IInvStarts, IInvKept, PTL DEF Spec

LEMMA RolesFollow == IInv => RolesAreEarned
<1> SUFFICES ASSUME IInv PROVE RolesAreEarned
  OBVIOUS
<1>1. TypeOK
  <2>1. ASSUME NEW k \in DOMAIN links
        PROVE  /\ k[1] \in reports /\ k[2] \in StoredItems
               /\ links[k].role \in Roles /\ links[k].confidence \in Scores
               /\ links[k].role = "IRRELEVANT" => version[k[2]] > 1 \/ k \in overrides
    <3>1. k \in reports \X StoredItems /\ links[k] \in LinkRows
      BY DEF IInv, Shape
    <3>2. k \in overrides \/ links[k].role # "IRRELEVANT" \/ version[k[2]] > 1
      BY DEF IInv, LinksAssessed
    <3> QED
      BY <3>1, <3>2 DEF LinkRows
  <2>2. ASSUME NEW k \in DOMAIN corrs
        PROVE  k[1] \in reports /\ k[2] \in readings /\ corrs[k].rel \in Relations /\ corrs[k].score \in Scores
    <3>1. k \in reports \X readings /\ corrs[k] \in CorrRows
      BY DEF IInv, Shape
    <3> QED
      BY <3>1 DEF CorrRows
  <2>3. ASSUME NEW r \in DOMAIN score PROVE r \in reports /\ score[r].value \in 0 .. CapMaxMachine
    BY DEF IInv, Shape, ScoresBounded
  <2> QED
    BY <2>1, <2>2, <2>3 DEF TypeOK, IInv, Shape, Roles, Relations
<1>2. CorroboratingIsEarned
  <2> SUFFICES ASSUME NEW k \in DOMAIN corrs \ overrides, corrs[k].rel = "CORROBORATING"
               PROVE  LET report == world.reports[k[1]]
                          station == world.readings[k[2]].station
                      IN /\ report.category \in DirectHazards /\ report.point # NoPoint
                         /\ IsRiverMention(world.facts[k[1]][station].locationRiver)
                         /\ \E o, p \in readings :
                              /\ world.readings[o].station = station /\ world.readings[p].station = station
                              /\ report.at - Lookback <= world.readings[o].at
                              /\ world.readings[o].at < world.readings[p].at
                              /\ world.readings[p].at <= report.at
                              /\ world.readings[o].level < world.readings[p].level
    BY DEF CorroboratingIsEarned
  <2>1. PICK seen \in SUBSET readings : corrs[k] = Measured(k, seen)
    BY DEF IInv, CorrsAssessed
  <2>2. /\ k[1] \in Report /\ k[2] \in Reading_ /\ k = <<k[1], k[2]>> /\ seen \in SUBSET Reading_
        /\ world \in Worlds
    BY DEF IInv, Shape
  <2>3. Measured(<<k[1], k[2]>>, seen).rel = "CORROBORATING"
    BY <2>1, <2>2
  <2>4. /\ world.reports[k[1]].category \in DirectHazards /\ world.reports[k[1]].point # NoPoint
        /\ IsRiverMention(world.facts[k[1]][world.readings[k[2]].station].locationRiver)
        /\ Rose({world.readings[p] : p \in seen}, world.readings[k[2]].station, world.reports[k[1]].at)
    BY <2>2, <2>3, MeasuredIs
  <2> QED
    BY <2>1, <2>4 DEF Rose
<1>3. SupportingIsLocal
  <2> SUFFICES ASSUME NEW k \in DOMAIN links \ overrides, links[k].role = "SUPPORTING"
               PROVE  \E v \in 1 .. version[k[2]] :
                        Local(world.reports[k[1]], world.items[k[2]][v], world.items[k[2]][v].words[k[1]])
    BY DEF SupportingIsLocal, Local
  <2>1. PICK n \in 1 .. version[k[2]] : links[k] = Assessed(k, n)
    BY DEF IInv, LinksAssessed
  <2>2. k[1] \in Report /\ k[2] \in Item /\ k = <<k[1], k[2]>> /\ world \in Worlds
    BY DEF IInv, Shape, StoredItems
  <2>3. n \in 1 .. Len(world.items[k[2]])
    <3>1. /\ version[k[2]] \in Nat /\ version[k[2]] <= Len(world.items[k[2]])
          /\ Len(world.items[k[2]]) \in Nat
      BY <2>2, WorldIs DEF IInv, Shape
    <3> QED
      BY <3>1
  <2>4. Assessed(<<k[1], k[2]>>, n).role = "SUPPORTING"
    BY <2>1, <2>2
  <2> QED
    BY <2>1, <2>2, <2>3, <2>4, AssessedIs
<1> QED
  BY <1>1, <1>2, <1>3 DEF RolesAreEarned

\* Whatever turns up, in whatever order it is stored, edited, matched and decided:
\* no machine corroborates or supports a report that the readings and the texts
\* stored by then do not corroborate or support.
THEOREM RolesEarned == Spec => []RolesAreEarned
BY IInvIsInvariant, RolesFollow, PTL

-----------------------------------------------------------------------------
(* Operators.                                                              *)

\* Whatever comes in or is edited, the row an operator has decided stays as he
\* left it.
THEOREM OverridesKept == Spec => OverrideKept
<1> DEFINE Kept == \A k \in overrides : /\ k \in DOMAIN links => links'[k] = links[k]
                                        /\ k \in DOMAIN corrs => corrs'[k] = corrs[k]
<1>1. ASSUME IInv, [Next]_vars PROVE Kept
  <2>1. CASE Arriving
    BY <2>1 DEF Arriving
  <2>2. CASE Handling
    <3>1. PICK items \in SUBSET StoredItems, pairs \in SUBSET (reports \X readings), S \in SUBSET reports :
            Matched(items, pairs, S)
      BY <2>2 DEF Handling
    <3>2. ASSUME NEW k \in overrides, k \in DOMAIN links PROVE links'[k] = links[k]
      <4>1. links' = Linked(items) => links'[k] = links[k]
        BY <1>1, <3>2, LinkedIs DEF IInv
      <4> QED
        BY <3>1, <4>1 DEF Matched
    <3>3. ASSUME NEW k \in overrides, k \in DOMAIN corrs PROVE corrs'[k] = corrs[k]
      <4>1. corrs' = Corroborated(pairs) => corrs'[k] = corrs[k]
        BY <3>3, CorroboratedIs
      <4> QED
        BY <3>1, <4>1 DEF Matched
    <3> QED
      BY <3>2, <3>3
  <2>3. CASE Overriding
    <3>1. overrides = {}
      BY <2>3 DEF Overriding, Decided
    <3> QED
      BY <3>1
  <2>4. CASE UNCHANGED vars
    BY <2>4 DEF vars
  <2> QED
    BY <1>1, <2>1, <2>2, <2>3, <2>4, Steps DEF IInv
<1> QED
  BY <1>1, IInvIsInvariant, PTL DEF Spec, OverrideKept

-----------------------------------------------------------------------------
(* Support is counted.                                                     *)

\* A pair that was linked was near in time and in place.
LinksConcern ==
  \A k \in DOMAIN links \ overrides : version[k[2]] = 1 => Concerns(k[2], world.reports[k[1]])

\* The row of a pair is among those the score of its report was computed from.
CountedLink(k) ==
  /\ k[1] \in DOMAIN score /\ k \in DOMAIN score[k[1]].links
  /\ k \in overrides \/ score[k[1]].links[k] = links[k]

\* As long as an item concerns a report and has not been counted, one of them is
\* still to be handled.
LinksCounted ==
  Few => \A k \in reports \X StoredItems :
           version[k[2]] = 1 /\ Concerns(k[2], world.reports[k[1]]) /\ Relevant(k) =>
             \/ <<"report", k[1]>> \in inbox \/ <<"item", k[2]>> \in inbox
             \/ k \in DOMAIN links /\ CountedLink(k)

\* A row of a reading is counted in the step that writes it.
CorrsCounted ==
  \A k \in DOMAIN corrs \ overrides :
    k[1] \in DOMAIN score /\ k \in DOMAIN score[k[1]].corrs /\ score[k[1]].corrs[k] = corrs[k]

LEMMA CandidatesAre ==
  ASSUME Shape, NEW i \in StoredItems
  PROVE  /\ \A r \in CandidateReports(i) : r \in reports /\ Concerns(i, world.reports[r])
         /\ Few => \A r \in reports : Concerns(i, world.reports[r]) => r \in CandidateReports(i)
<1> DEFINE T == {r \in reports : Concerns(i, world.reports[r])}
<1>1. /\ T \subseteq reports /\ reports \subseteq Report /\ world \in Worlds /\ world.limit \in Nat
      /\ IsFiniteSet(Report) /\ CandidateReports(i) = Latest(T, world.limit)
  BY WorldIs DEF CandidateReports, Shape
<1>2. \A r \in T : r \in reports /\ Concerns(i, world.reports[r])
  OBVIOUS
<1>3. \A r \in reports : Concerns(i, world.reports[r]) => r \in T
  OBVIOUS
<1> HIDE DEF T
<1>4. /\ Latest(T, world.limit) \subseteq T
      /\ Cardinality(T) <= world.limit => Latest(T, world.limit) = T
  BY <1>1, LatestIs
<1>5. ASSUME Few PROVE Cardinality(T) <= world.limit
  <2>1. IsFiniteSet(reports)
    BY <1>1, FS_Subset
  <2>2. IsFiniteSet(T) /\ Cardinality(T) <= Cardinality(reports)
    BY <1>1, <2>1, FS_Subset
  <2>3. Cardinality(T) \in Nat /\ Cardinality(reports) \in Nat
    BY <2>1, <2>2, FS_CardinalityType
  <2> QED
    BY <1>1, <1>5, <2>2, <2>3 DEF Few
<1> QED
  BY <1>1, <1>2, <1>3, <1>4, <1>5

LEMMA LinksConcernKept == Shape /\ LinksConcern /\ [Next]_vars => LinksConcern'
<1> SUFFICES ASSUME Shape, LinksConcern, [Next]_vars,
                    NEW k \in DOMAIN links' \ overrides', version'[k[2]] = 1
             PROVE  Concerns(k[2], world.reports[k[1]])'
  BY DEF LinksConcern
<1>0. world' = world
  BY Steps DEF Arriving, Handling, Overriding, vars
<1>1. ASSUME version[k[2]] = version'[k[2]]
      PROVE  Concerns(k[2], world.reports[k[1]])' = Concerns(k[2], world.reports[k[1]])
  BY <1>0, <1>1 DEF Concerns, Text
<1>2. ASSUME k \in DOMAIN links \ overrides, version[k[2]] = 1 PROVE Concerns(k[2], world.reports[k[1]])'
  BY <1>1, <1>2 DEF LinksConcern
<1>3. CASE Arriving
  <2>1. k \in DOMAIN links \ overrides
    BY <1>3 DEF Arriving
  <2>2. k[2] \in Item /\ version[k[2]] > 0
    BY <2>1 DEF Shape, StoredItems
  <2>3. version[k[2]] = 1
    <3>1. version[k[2]] \in Nat /\ version[k[2]] <= version'[k[2]]
      BY <1>3, <2>2 DEF Arriving, Shape
    <3> QED
      BY <2>2, <3>1
  <2> QED
    BY <1>2, <2>1, <2>3
<1>4. CASE Handling
  <2>1. PICK items \in SUBSET StoredItems, pairs \in SUBSET (reports \X readings), S \in SUBSET reports :
          Matched(items, pairs, S)
    BY <1>4 DEF Handling
  <2>2. version' = version /\ overrides' = overrides
    BY <1>4 DEF Handling
  <2>3. CASE k \in DOMAIN links
    BY <1>2, <2>2, <2>3
  <2>4. CASE k \notin DOMAIN links
    <3>1. links' = Linked(items)
      BY <2>1, <2>4 DEF Matched
    <3>2. k \in reports \X StoredItems /\ k[1] \in CandidateReports(k[2])
      BY <2>4, <3>1, LinkedIs
    <3>3. Concerns(k[2], world.reports[k[1]])
      BY <3>2, CandidatesAre
    <3> QED
      BY <1>1, <2>2, <3>3
  <2> QED
    BY <2>3, <2>4
<1>5. CASE Overriding
  <2>1. k \in DOMAIN links \ overrides /\ version' = version
    BY <1>5 DEF Overriding, Decided
  <2> QED
    BY <1>2, <2>1
<1>6. CASE UNCHANGED vars
  BY <1>2, <1>6 DEF vars
<1> QED
  BY <1>3, <1>4, <1>5, <1>6, Steps

LEMMA CorrsCountedKept == Shape /\ CorrsCounted /\ [Next]_vars => CorrsCounted'
<1> SUFFICES ASSUME Shape, CorrsCounted, [Next]_vars, NEW k \in DOMAIN corrs' \ overrides'
             PROVE  /\ k[1] \in DOMAIN score' /\ k \in DOMAIN score'[k[1]].corrs
                    /\ score'[k[1]].corrs[k] = corrs'[k]
  BY DEF CorrsCounted
<1>1. ASSUME k \in DOMAIN corrs \ overrides, corrs'[k] = corrs[k],
             k[1] \in DOMAIN score', score'[k[1]] = score[k[1]]
      PROVE  /\ k \in DOMAIN score'[k[1]].corrs /\ score'[k[1]].corrs[k] = corrs'[k]
  BY <1>1 DEF CorrsCounted
<1>2. CASE Handling
  <2>1. PICK items \in SUBSET StoredItems, pairs \in SUBSET (reports \X readings), S \in SUBSET reports :
          Matched(items, pairs, S)
    BY <1>2 DEF Handling
  <2>2. score' = Rescored(S, links', corrs') /\ overrides' = overrides
    BY <1>2, <2>1 DEF Matched, Handling
  <2>3. CASE k[1] \in S
    <3>1. k[1] \in DOMAIN score' /\ score'[k[1]] = Scored(k[1], links', corrs')
      BY <2>2, <2>3 DEF Rescored
    <3>2. score'[k[1]].corrs = Restrict(corrs', {q \in DOMAIN corrs' : q[1] = k[1]})
      BY <3>1 DEF Scored
    <3> QED
      BY <3>1, <3>2 DEF Restrict
  <2>4. CASE k[1] \notin S
    <3>1. k \in DOMAIN corrs /\ corrs'[k] = corrs[k]
      <4>1. CASE corrs' = corrs
        BY <4>1
      <4>2. CASE corrs' = Corroborated(pairs) /\ \A p \in pairs : p[1] \in S
        <5>1. k \notin pairs
          BY <2>4, <4>2
        <5> QED
          BY <4>2, <5>1, CorroboratedIs
      <4> QED
        BY <2>1, <4>1, <4>2 DEF Matched
    <3>2. k[1] \in DOMAIN score
      BY <2>2, <3>1 DEF CorrsCounted
    <3>3. k[1] \in DOMAIN score' /\ score'[k[1]] = score[k[1]]
      BY <2>2, <2>4, <3>2 DEF Rescored
    <3> QED
      BY <1>1, <2>2, <3>1, <3>3
  <2> QED
    BY <2>3, <2>4
<1>3. CASE Overriding
  <2>1. PICK key : Decided(key)
    BY <1>3 DEF Overriding
  <2>2. k \in DOMAIN corrs \ overrides /\ corrs'[k] = corrs[k] /\ score' = score
    BY <1>3, <2>1 DEF Decided, Overriding
  <2> QED
    BY <2>2 DEF CorrsCounted
<1>4. CASE Arriving \/ UNCHANGED vars
  BY <1>4 DEF Arriving, vars, CorrsCounted
<1> QED
  BY <1>2, <1>3, <1>4, Steps

LEMMA LinksCountedKept ==
  Shape /\ LinksAssessed /\ LinksCounted /\ [Next]_vars => LinksCounted'
<1> SUFFICES ASSUME Shape, LinksAssessed, LinksCounted, [Next]_vars, Few',
                    NEW k \in reports' \X StoredItems',
                    version'[k[2]] = 1, Concerns(k[2], world.reports[k[1]])', Relevant(k)'
             PROVE  \/ <<"report", k[1]>> \in inbox' \/ <<"item", k[2]>> \in inbox'
                    \/ k \in DOMAIN links' /\ CountedLink(k)'
  BY DEF LinksCounted
<1>0. /\ world' = world /\ Report' = Report /\ Item' = Item
      /\ reports \subseteq reports' /\ reports' \subseteq Report
  BY ShapeKept, Steps DEF Arriving, Handling, Overriding, vars, Report, Item, Shape
<1>1. k[1] \in reports' /\ k[2] \in Item /\ k = <<k[1], k[2]>>
  BY <1>0 DEF StoredItems
<1>2. ASSUME version'[k[2]] = version[k[2]]
      PROVE  /\ Concerns(k[2], world.reports[k[1]]) /\ Relevant(k) /\ version[k[2]] = 1
             /\ k[2] \in StoredItems
  <2>1. Concerns(k[2], world.reports[k[1]])' = Concerns(k[2], world.reports[k[1]])
    BY <1>0, <1>2 DEF Concerns, Text
  <2>2. Relevant(k)' = Relevant(k)
    BY <1>0, <1>2 DEF Relevant, AssessLink, Text
  <2> QED
    BY <1>1, <1>2, <2>1, <2>2 DEF StoredItems
<1>3. Few
  <2>1. Cardinality(StoredItems') <= world.limit /\ Cardinality(reports') <= world.limit
    BY <1>0 DEF Few
  <2>2. StoredItems \subseteq StoredItems' /\ StoredItems' \subseteq Item
    <3>1. ASSUME NEW i \in Item PROVE version[i] \in Nat /\ version'[i] \in Nat /\ version[i] <= version'[i]
      <4>1. version \in [Item -> Nat]
        BY DEF Shape
      <4>2. CASE Arriving
        BY <4>1, <4>2 DEF Arriving
      <4>3. CASE ~Arriving
        <5>1. version' = version
          BY <4>3, Steps DEF Handling, Overriding, vars
        <5> QED
          BY <4>1, <5>1
      <4> QED
        BY <4>2, <4>3
    <3>2. StoredItems = {i \in Item : version[i] > 0} /\ StoredItems' = {i \in Item : version'[i] > 0}
      BY <1>0 DEF StoredItems
    <3>3. \A i \in Item : version[i] > 0 => version'[i] > 0
      BY <3>1
    <3> QED
      BY <3>2, <3>3
  <2>3. IsFiniteSet(Item) /\ IsFiniteSet(Report) /\ world.limit \in Nat
    BY WorldIs DEF Shape
  <2>4. IsFiniteSet(StoredItems') /\ IsFiniteSet(reports')
    BY <1>0, <2>2, <2>3, FS_Subset
  <2>5. /\ Cardinality(StoredItems) <= Cardinality(StoredItems') /\ IsFiniteSet(StoredItems)
        /\ Cardinality(reports) <= Cardinality(reports') /\ IsFiniteSet(reports)
    BY <1>0, <2>2, <2>4, FS_Subset
  <2>6. /\ Cardinality(StoredItems) \in Nat /\ Cardinality(StoredItems') \in Nat
        /\ Cardinality(reports) \in Nat /\ Cardinality(reports') \in Nat
    BY <2>4, <2>5, FS_CardinalityType
  <2> QED
    BY <2>1, <2>3, <2>5, <2>6 DEF Few
<1>4. ASSUME k \in reports \X StoredItems, version'[k[2]] = version[k[2]]
      PROVE  \/ <<"report", k[1]>> \in inbox \/ <<"item", k[2]>> \in inbox
             \/ k \in DOMAIN links /\ CountedLink(k)
  BY <1>2, <1>3, <1>4 DEF LinksCounted
<1>5. CASE Arriving
  <2>1. CASE k[1] \notin reports
    BY <1>1, <1>5, <2>1 DEF Arriving
  <2>2. CASE version'[k[2]] # version[k[2]]
    BY <1>1, <1>5, <2>2 DEF Arriving
  <2>3. CASE k[1] \in reports /\ version'[k[2]] = version[k[2]]
    <3>1. k \in reports \X StoredItems
      BY <1>1, <1>2, <2>3
    <3>2. CountedLink(k) => CountedLink(k)'
      BY <1>5 DEF Arriving, CountedLink
    <3> QED
      BY <1>4, <1>5, <2>3, <3>1, <3>2 DEF Arriving
  <2> QED
    BY <2>1, <2>2, <2>3
<1>6. CASE Handling
  <2>1. PICK items \in SUBSET StoredItems, pairs \in SUBSET (reports \X readings), S \in SUBSET reports :
          Matched(items, pairs, S) /\ Served(items, S)
    BY <1>6 DEF Handling
  <2>2. UNCHANGED <<world, reports, version, readings, overrides>>
    BY <1>6 DEF Handling
  <2>3. /\ k \in reports \X StoredItems /\ Concerns(k[2], world.reports[k[1]]) /\ Relevant(k)
        /\ version[k[2]] = 1 /\ k[1] \in reports /\ k[2] \in StoredItems
    BY <1>1, <1>2, <2>2
  <2>4. score' = Rescored(S, links', corrs')
    BY <2>1 DEF Matched
  <2>5. ASSUME k \in DOMAIN links', k[1] \in S PROVE CountedLink(k)'
    <3>1. k[1] \in DOMAIN score' /\ score'[k[1]] = Scored(k[1], links', corrs')
      BY <2>4, <2>5 DEF Rescored
    <3>2. score'[k[1]].links = Restrict(links', {q \in DOMAIN links' : q[1] = k[1]})
      BY <3>1 DEF Scored
    <3> QED
      BY <2>5, <3>1, <3>2 DEF Restrict, CountedLink
  <2>6. k[1] \in CandidateReports(k[2])
    BY <1>3, <2>3, CandidatesAre
  <2>7. ASSUME k[2] \in items, k[1] \in S, links' = Linked(items) PROVE CountedLink(k)' /\ k \in DOMAIN links'
    <3>1. k \in reports \X items
      BY <1>1, <2>3, <2>7
    <3>2. k \in DOMAIN links'
      BY <2>3, <2>6, <2>7, <3>1, LinkedIs
    <3> QED
      BY <2>5, <2>7, <3>2
  <2>8. CASE <<"report", k[1]>> \in inbox \ inbox'
    <3>1. k[1] \in S /\ links' = Linked(items)
      BY <2>1, <2>3, <2>8 DEF Served
    <3>2. Apart(Text(k[2]).published, world.reports[k[1]].at) <= MaxWindow
      <4>1. Apart(world.reports[k[1]].at, Text(k[2]).published) <= MaxWindow
        BY <2>3 DEF Concerns
      <4>2. world.reports[k[1]].at \in Int /\ Text(k[2]).published \in Int
        <5>1. k[1] \in Report /\ IsReport(world.reports[k[1]])
          BY <2>3, WorldIs DEF Shape
        <5>2. version[k[2]] \in 1 .. Len(world.items[k[2]])
          BY <2>3, AssessLinkIs
        <5>3. IsVersion(world.items[k[2]][version[k[2]]], Report)
          BY <1>1, <5>2, WorldIs DEF Shape
        <5> QED
          BY <5>1, <5>3 DEF IsReport, IsVersion, Text
      <4>3. Apart(world.reports[k[1]].at, Text(k[2]).published) = Apart(Text(k[2]).published, world.reports[k[1]].at)
        BY <4>2 DEF Apart
      <4> QED
        BY <4>1, <4>3
    <3>3. k[2] \in items
      BY <1>3, <2>1, <2>3, <2>8, <3>2 DEF Served
    <3> QED
      BY <2>7, <3>1, <3>3
  <2>9. CASE <<"item", k[2]>> \in inbox \ inbox'
    <3>1. k[2] \in items /\ links' = Linked(items)
      BY <2>1, <2>3, <2>9 DEF Served
    <3>2. Relevant(<<k[1], k[2]>>)
      BY <1>1, <2>3
    <3>3. k[1] \in S
      BY <2>1, <2>3, <2>6, <2>9, <3>2 DEF Served
    <3> QED
      BY <2>7, <3>1, <3>3
  <2>10. CASE k \in DOMAIN links /\ CountedLink(k)
    <3>1. /\ k \in DOMAIN links' /\ (k \in overrides => links'[k] = links[k])
          /\ \/ links'[k] = links[k] \/ links'[k] = AssessLink(k[1], k[2])
      <4>1. CASE links' = links
        BY <2>10, <4>1
      <4>2. CASE links' = Linked(items)
        <5>1. k \in DOMAIN links'
          BY <2>10, <4>2, LinkedIs
        <5> QED
          BY <2>3, <2>10, <4>2, <5>1, LinkedIs
      <4> QED
        BY <2>1, <4>1, <4>2 DEF Matched
    <3>2. links'[k] = links[k]
      <4>1. CASE k \in overrides
        BY <3>1, <4>1
      <4>2. CASE k \notin overrides
        <5>1. links[k] = Assessed(k, 1)
          BY <2>3, <2>10, <4>2 DEF LinksAssessed
        <5>2. AssessLink(k[1], k[2]) = Assessed(k, 1)
          BY <2>3, AssessLinkIs
        <5> QED
          BY <3>1, <5>1, <5>2
      <4> QED
        BY <4>1, <4>2
    <3>3. CASE k[1] \in S
      BY <2>5, <3>1, <3>3
    <3>4. CASE k[1] \notin S
      <4>1. k[1] \in DOMAIN score' /\ score'[k[1]] = score[k[1]]
        BY <2>4, <2>10, <3>4 DEF Rescored, CountedLink
      <4> QED
        BY <2>2, <2>10, <3>1, <3>2, <4>1 DEF CountedLink
    <3> QED
      BY <3>1, <3>3, <3>4
  <2> QED
    BY <1>4, <2>2, <2>3, <2>8, <2>9, <2>10
<1>7. CASE Overriding
  <2>1. PICK key : Decided(key)
    BY <1>7 DEF Overriding
  <2>2. UNCHANGED <<world, reports, version, inbox, score>>
    BY <1>7 DEF Overriding
  <2>3. k \in reports \X StoredItems
    BY <1>1, <1>2, <2>2
  <2>4. ASSUME k \in DOMAIN links, CountedLink(k) PROVE k \in DOMAIN links' /\ CountedLink(k)'
    <3>1. DOMAIN links' = DOMAIN links /\ (k # key => links'[k] = links[k]) /\ overrides = {} /\ overrides' = {key}
      BY <2>1, <2>4 DEF Decided
    <3> QED
      BY <2>2, <2>4, <3>1 DEF CountedLink
  <2> QED
    BY <1>4, <2>2, <2>3, <2>4
<1>8. CASE UNCHANGED vars
  <2>1. k \in reports \X StoredItems
    BY <1>1, <1>2, <1>8 DEF vars
  <2>2. CountedLink(k) => CountedLink(k)'
    BY <1>8 DEF vars, CountedLink
  <2> QED
    BY <1>4, <1>8, <2>1, <2>2 DEF vars
<1> QED
  BY <1>5, <1>6, <1>7, <1>8, Steps

LEMMA CountsStart == Init => LinksConcern /\ LinksCounted /\ CorrsCounted
<1> SUFFICES ASSUME Init PROVE LinksConcern /\ LinksCounted /\ CorrsCounted
  OBVIOUS
<1>1. DOMAIN links = {} /\ DOMAIN corrs = {} /\ reports = {}
  BY DEF Init, Empty
<1> QED
  BY <1>1 DEF LinksConcern, LinksCounted, CorrsCounted

LEMMA SupportFollows ==
  IInv /\ LinksConcern /\ LinksCounted /\ CorrsCounted => SupportIsCounted
<1> SUFFICES ASSUME IInv, LinksConcern, LinksCounted, CorrsCounted, inbox = {}, Few PROVE
      /\ \A k \in {l \in DOMAIN links \ overrides : version[l[2]] = 1} :
           Speaks(links[k]) \/ links[k].role = "CONTRADICTORY" =>
             k[1] \in DOMAIN score /\ k \in DOMAIN score[k[1]].links /\ score[k[1]].links[k] = links[k]
      /\ \A k \in DOMAIN corrs \ overrides :
           Measures(corrs[k]) \/ corrs[k].rel = "CONTRADICTORY" =>
             k[1] \in DOMAIN score /\ k \in DOMAIN score[k[1]].corrs /\ score[k[1]].corrs[k] = corrs[k]
  BY DEF SupportIsCounted, Few
<1>1. ASSUME NEW k \in DOMAIN links \ overrides, version[k[2]] = 1
      PROVE  k[1] \in DOMAIN score /\ k \in DOMAIN score[k[1]].links /\ score[k[1]].links[k] = links[k]
  <2>1. k \in reports \X StoredItems /\ Concerns(k[2], world.reports[k[1]])
    BY <1>1 DEF IInv, Shape, LinksConcern
  <2>2. Assessed(k, 1).role # "IRRELEVANT"
    BY <1>1 DEF IInv, LinksAssessed
  <2>3. Relevant(k)
    BY <1>1, <2>1, <2>2, AssessLinkIs DEF IInv, Relevant
  <2>4. CountedLink(k)
    BY <1>1, <2>1, <2>3 DEF LinksCounted
  <2> QED
    BY <1>1, <2>4 DEF CountedLink
<1> QED
  BY <1>1 DEF CorrsCounted

\* Once every trigger is handled, each row of a reading and each row of an item
\* that was never edited is among the rows the score of its report was computed
\* from, unless more is stored than the limit of candidates.
THEOREM SupportCounted == Spec => []SupportIsCounted
<1>1. Init => LinksConcern /\ LinksCounted /\ CorrsCounted
  BY CountsStart
<1>2. IInv /\ LinksConcern /\ LinksCounted /\ CorrsCounted /\ [Next]_vars
        => LinksConcern' /\ LinksCounted' /\ CorrsCounted'
  BY LinksConcernKept, LinksCountedKept, CorrsCountedKept DEF IInv
<1>3. IInv /\ LinksConcern /\ LinksCounted /\ CorrsCounted => SupportIsCounted
  BY SupportFollows
<1> QED
  BY <1>1, <1>2, <1>3, IInvIsInvariant, PTL DEF Spec
-----------------------------------------------------------------------------
(* What is told of a score.                                                *)

\* The stations a score has heard of.
HeardBy(s) == {world.readings[k[2]].station : k \in DOMAIN s.corrs}

\* A score and what is told of it are of the inputs kept beside it, those are
\* of the rows kept beside them, and a group of either kind has a row behind it.
Grounded(s, report) ==
  LET inputs == s.inputs IN
  /\ IsInputs(inputs) /\ inputs.family = report.family
  /\ inputs = [trust |-> inputs.trust, family |-> inputs.family, known |-> inputs.known,
               crowd |-> inputs.crowd, groups |-> inputs.groups, stations |-> inputs.stations,
               denials |-> inputs.denials]
  /\ s.value = ScoreIncident(inputs) /\ s.told = Explain(inputs)
  /\ inputs.groups # {} => \E k \in DOMAIN s.links : Speaks(s.links[k])
  /\ inputs.stations # {} => \E k \in DOMAIN s.corrs : Measures(s.corrs[k])
  /\ IsFiniteSet(HeardBy(s)) /\ \A x \in inputs.stations : x.station \in HeardBy(s)
  /\ \A x, y \in inputs.stations : x.station = y.station => x = y
ScoresGrounded == \A r \in DOMAIN score : Grounded(score[r], world.reports[r])

LEMMA GroundedWhenScored ==
  ASSUME world \in Worlds, NEW r \in Report, NEW lk, NEW co, AreRows(lk, co)
  PROVE  Grounded(Scored(r, lk, co), world.reports[r])
<1> DEFINE s == Scored(r, lk, co)
           inputs == InputsOf(r, lk, co)
           mine == {k \in DOMAIN lk : k[1] = r}
           near == {k \in DOMAIN co : k[1] = r}
           station == [k \in near |-> world.readings[k[2]].station]
<1>1. /\ s.inputs = inputs /\ s.value = ScoreIncident(inputs) /\ s.told = Explain(inputs)
      /\ s.links = Restrict(lk, mine) /\ s.corrs = Restrict(co, near)
  BY DEF Scored
<1>2. /\ DOMAIN s.links = mine /\ \A k \in mine : s.links[k] = lk[k]
      /\ DOMAIN s.corrs = near /\ \A k \in near : s.corrs[k] = co[k]
  BY <1>1 DEF Restrict
<1>3. /\ inputs.family = world.reports[r].family
      /\ inputs = [trust |-> inputs.trust, family |-> inputs.family, known |-> inputs.known,
                   crowd |-> inputs.crowd, groups |-> inputs.groups, stations |-> inputs.stations,
                   denials |-> inputs.denials]
  BY DEF InputsOf, Collect
<1>4. /\ IsInputs(inputs)
      /\ inputs.groups # {} => \E k \in DOMAIN lk : k[1] = r /\ Speaks(lk[k])
      /\ inputs.stations # {} => \E k \in DOMAIN co : k[1] = r /\ Measures(co[k])
      /\ \A x \in inputs.stations : \E k \in DOMAIN co : k[1] = r /\ x.station = world.readings[k[2]].station
      /\ \A x, y \in inputs.stations : x.station = y.station => x = y
  BY InputsAre
<1>5. HeardBy(s) = {world.readings[k[2]].station : k \in near}
  BY <1>2 DEF HeardBy
<1>6. IsFiniteSet(near)
  <2>1. near \subseteq Report \X Reading_ /\ IsFiniteSet(Report \X Reading_)
    BY WorldIs, FS_Product DEF AreRows
  <2> HIDE DEF near
  <2> QED
    BY <2>1, FS_Subset
<1>7. IsFiniteSet(HeardBy(s))
  <2>1. /\ DOMAIN station = near /\ HeardBy(s) = {station[k] : k \in DOMAIN station}
        /\ station = [k \in DOMAIN station |-> station[k]]
    BY <1>5
  <2> HIDE DEF station, near, s
  <2> QED
    BY <1>6, <2>1, FiniteImage
<1>8. \A k \in DOMAIN lk : k[1] = r => k \in mine
  OBVIOUS
<1>9. \A k \in DOMAIN co : k[1] = r => k \in near
  OBVIOUS
<1> HIDE DEF s, inputs, mine, near, station
<1>10. inputs.groups # {} => \E k \in DOMAIN s.links : Speaks(s.links[k])
  <2> SUFFICES ASSUME inputs.groups # {} PROVE \E k \in DOMAIN s.links : Speaks(s.links[k])
    OBVIOUS
  <2>1. PICK k \in DOMAIN lk : k[1] = r /\ Speaks(lk[k])
    BY <1>4
  <2>2. k \in DOMAIN s.links /\ s.links[k] = lk[k]
    BY <1>2, <1>8, <2>1
  <2> QED
    BY <2>1, <2>2
<1>11. inputs.stations # {} => \E k \in DOMAIN s.corrs : Measures(s.corrs[k])
  <2> SUFFICES ASSUME inputs.stations # {} PROVE \E k \in DOMAIN s.corrs : Measures(s.corrs[k])
    OBVIOUS
  <2>1. PICK k \in DOMAIN co : k[1] = r /\ Measures(co[k])
    BY <1>4
  <2>2. k \in DOMAIN s.corrs /\ s.corrs[k] = co[k]
    BY <1>2, <1>9, <2>1
  <2> QED
    BY <2>1, <2>2
<1>12. \A x \in inputs.stations : x.station \in HeardBy(s)
  BY <1>4, <1>5, <1>9
<1>13. Grounded(s, world.reports[r])
  BY <1>1, <1>3, <1>4, <1>7, <1>10, <1>11, <1>12 DEF Grounded
<1> QED
  BY <1>13 DEF s

LEMMA ScoresGroundedKept == Shape /\ ScoresGrounded /\ [Next]_vars => ScoresGrounded'
<1> SUFFICES ASSUME Shape, ScoresGrounded, [Next]_vars, NEW r \in DOMAIN score'
             PROVE  Grounded(score[r], world.reports[r])'
  BY DEF ScoresGrounded
<1>1. world' = world
  BY Steps DEF Arriving, Handling, Overriding, vars
<1>2. CASE r \in DOMAIN score /\ score'[r] = score[r]
  <2>1. Grounded(score[r], world.reports[r])
    BY <1>2 DEF ScoresGrounded
  <2> QED
    BY <1>1, <1>2, <2>1 DEF Grounded, HeardBy
<1>3. CASE r \in Report /\ AreRows(links', corrs') /\ score'[r] = Scored(r, links', corrs')
  <2>1. Grounded(Scored(r, links', corrs'), world.reports[r])
    BY <1>3, GroundedWhenScored DEF Shape
  <2> QED
    BY <1>1, <1>3, <2>1 DEF Grounded, HeardBy
<1> QED
  BY <1>2, <1>3, ScoredAgain

\* The explanation counts the families as the score does.
LEMMA SameFamilies == \A inputs : ExplainedFamilies(inputs) = Families(inputs)
<1> TAKE inputs
<1>1. {h \in inputs.groups : IF h.derived THEN FALSE ELSE Voice(h) > 1000}
        = {h \in inputs.groups : ~h.derived /\ Voice(h) > 1000}
  OBVIOUS
<1> QED
  BY <1>1 DEF ExplainedFamilies, Families

LEMMA ExplanationFollows == ScoresGrounded => ExplanationAgrees
<1> SUFFICES ASSUME ScoresGrounded, NEW r \in DOMAIN score
             PROVE  LET s == score[r] IN
                    /\ s.told.families = Families(s.inputs)
                    /\ "evidence" \in s.told.drivers => \E k \in DOMAIN s.links : Speaks(s.links[k])
                    /\ "telemetry" \in s.told.drivers => \E k \in DOMAIN s.corrs : Measures(s.corrs[k])
  BY DEF ExplanationAgrees
<1> DEFINE s == score[r]
<1>1. Grounded(s, world.reports[r])
  BY DEF ScoresGrounded
<1>2. IsInputs(s.inputs) /\ s.told = Explain(s.inputs)
  BY <1>1 DEF Grounded
<1>3. /\ s.inputs.groups # {} => \E k \in DOMAIN s.links : Speaks(s.links[k])
      /\ s.inputs.stations # {} => \E k \in DOMAIN s.corrs : Measures(s.corrs[k])
  BY <1>1 DEF Grounded
<1> HIDE DEF s
<1>4. s.told.families = Families(s.inputs)
  BY <1>2, SameFamilies DEF Explain
<1>5. "evidence" \in s.told.drivers => EvidenceSignal(s.inputs) > 2000
  BY <1>2 DEF Explain
<1>6. "telemetry" \in s.told.drivers => ObservationSignal(s.inputs) > 2000
  BY <1>2 DEF Explain
<1>7. s.inputs.groups = {} => ~ EvidenceSignal(s.inputs) > 2000
  <2>1. s.inputs.groups = {} => EvidenceSignal(s.inputs) = 0
    BY <1>2, EvidenceSignalIs
  <2> QED
    BY <2>1, SMT
<1>8. s.inputs.stations = {} => ~ ObservationSignal(s.inputs) > 2000
  <2>1. s.inputs.stations = {} => ObservationSignal(s.inputs) = 0
    BY <1>2, ObservationSignalIs
  <2> QED
    BY <2>1, SMT
<1> QED
  BY <1>3, <1>4, <1>5, <1>6, <1>7, <1>8 DEF s

LEMMA GroundedIsInvariant == Spec => []ScoresGrounded
<1>1. Init => ScoresGrounded
  <2>1. Init => DOMAIN score = {}
    BY DEF Init, Empty
  <2> QED
    BY <2>1 DEF ScoresGrounded
<1>2. IInv /\ ScoresGrounded /\ [Next]_vars => ScoresGrounded'
  BY ScoresGroundedKept DEF IInv
<1> QED
  BY <1>1, <1>2, IInvIsInvariant, PTL DEF Spec

\* What is told of a score names the families that were counted for it, and
\* an article or a gauge as its reason only if a row says so.
THEOREM ExplanationsAgree == Spec => []ExplanationAgrees
BY GroundedIsInvariant, ExplanationFollows, PTL
-----------------------------------------------------------------------------
(* One gauge, one voice.                                                   *)

LEMMA ScoresAre == \A a \in Scores : /\ a \in Int /\ a \in Nat /\ a <= 10000 /\ 10000 - a \in Scores
BY SMT DEF Scores

LEMMA LessIsMore == \A a, b \in Scores : a <= b => 10000 - b <= 10000 - a
BY SMT DEF Scores

LEMMA FullScore == 10000 \in Scores
BY SMT DEF Scores

\* A score taken of a score is a score, no greater than either.
LEMMA TimesOfScores ==
  ASSUME NEW a \in Scores, NEW b \in Scores
  PROVE  Times(a, b) \in Scores /\ Times(a, b) <= a /\ Times(a, b) <= b
<1>1. a \in Nat /\ b \in Nat /\ a <= 10000 /\ b <= 10000
  BY DEF Scores
<1>2. a * b <= a * 10000 /\ a * b <= b * 10000 /\ a * b \in Nat
  <2>1. \A x, y, z \in Nat : y <= z => x * y <= x * z
    OBVIOUS
  <2>2. a * b = b * a /\ a * b \in Nat
    BY <1>1
  <2>3. 10000 \in Nat
    OBVIOUS
  <2> DEFINE n == 10000
  <2> HIDE DEF n
  <2>4. a * b <= a * n /\ b * a <= b * n
    BY <1>1, <2>1, <2>3 DEF n
  <2> QED
    BY <2>2, <2>4 DEF n
<1>3. \A p, c \in Nat : p <= c * 10000 => (p + 5000) \div 10000 <= c /\ (p + 5000) \div 10000 \in Nat
  OBVIOUS
<1>4. (a * b + 5000) \div 10000 <= a /\ (a * b + 5000) \div 10000 <= b /\ (a * b + 5000) \div 10000 \in Nat
  BY <1>1, <1>2, <1>3
<1>5. Times(a, b) <= a /\ Times(a, b) <= b /\ Times(a, b) \in Nat
  BY <1>4 DEF Times
<1> QED
  <2>1. \A x, y \in Nat : x <= y /\ y <= 10000 => x \in Scores
    BY SMT DEF Scores
  <2> QED
    BY <1>1, <1>5, <2>1

\* The more is left and the less is taken, the more is left after it.
LEMMA LeavesMore ==
  \A u, v, k, l \in Scores : ~ (u < v) /\ l <= k => ~ (Times(u, k) < Times(v, l))
<1> TAKE u, v, k, l \in Scores
<1> HAVE ~ (u < v) /\ l <= k
<1>1. u \in Nat /\ v \in Nat /\ k \in Nat /\ l \in Nat /\ v <= u /\ l <= k
  <2>1. u \in Nat /\ v \in Nat /\ k \in Nat /\ l \in Nat
    BY ScoresAre
  <2>2. \A x, y \in Nat : ~ (x < y) => y <= x
    OBVIOUS
  <2> QED
    BY <2>1, <2>2
<1>2. Times(v, l) <= Times(u, l) /\ Times(u, l) <= Times(u, k)
  BY <1>1, TimesGrows
<1>3. Times(v, l) \in Int /\ Times(u, l) \in Int /\ Times(u, k) \in Int
  BY <1>1, TimesType
<1> QED
  BY <1>2, <1>3

\* What is left is a score, whatever is combined.
LEMMA RunningIs ==
  ASSUME NEW strength, IsFiniteSet(DOMAIN strength), NEW weight \in Scores,
         \A x \in DOMAIN strength : strength[x] \in Scores,
         NEW left, Running(left, strength, weight)
  PROVE  \A s \in SUBSET DOMAIN strength : left[s] \in Scores
<1> DEFINE D == DOMAIN strength
           Bad == {s \in SUBSET D : left[s] \notin Scores}
<1>1. SUFFICES ASSUME Bad # {} PROVE FALSE
  OBVIOUS
<1>2. PICK s \in Bad : \A x \in s : s \ {x} \notin Bad
  <2>1. Bad \in SUBSET (SUBSET D) /\ IsFiniteSet(D)
    OBVIOUS
  <2> HIDE DEF Bad, D
  <2> QED
    BY <1>1, <2>1, SmallestBad
<1>3. s \in SUBSET D /\ left[s] \notin Scores
  BY <1>2
<1>4. CASE s = {}
  <2>1. left[{}] \in Scores
    BY FullScore DEF Running
  <2> QED
    BY <1>3, <1>4, <2>1
<1>5. CASE s # {}
  <2>1. PICK x \in s : left[s] = Times(left[s \ {x}], 10000 - Times(weight, strength[x]))
    BY <1>3, <1>5 DEF Running
  <2>2. left[s \ {x}] \in Scores
    BY <1>2, <1>3, <2>1
  <2>3. Times(weight, strength[x]) \in Scores
    BY <1>3, <2>1, TimesOfScores
  <2>4. 10000 - Times(weight, strength[x]) \in Scores
    BY <2>3, ScoresAre
  <2> QED
    BY <1>3, <2>1, <2>2, <2>4, TimesOfScores
<1> QED
  BY <1>4, <1>5

LEMMA CombinedIsScore ==
  ASSUME NEW strength, IsFiniteSet(DOMAIN strength), NEW weight \in Scores,
         \A x \in DOMAIN strength : strength[x] \in Scores
  PROVE  Combined(strength, weight) \in Scores
<1>1. weight \in Int /\ \A x \in DOMAIN strength : strength[x] \in Int
  BY ScoresAre
<1>2. PICK left : /\ Running(left, strength, weight)
                  /\ Combined(strength, weight) = 10000 - left[DOMAIN strength]
  BY <1>1, CombinedIs
<1>3. left[DOMAIN strength] \in Scores
  BY <1>2, RunningIs
<1> QED
  BY <1>2, <1>3, ScoresAre

\* No strengths combine to more than as many, or more, of the greatest of them.
LEMMA FullIsMost ==
  ASSUME NEW full \in Scores,
         NEW strength, IsFiniteSet(DOMAIN strength),
         \A x \in DOMAIN strength : strength[x] \in Scores /\ strength[x] <= full,
         NEW strong, IsFiniteSet(DOMAIN strong), \A x \in DOMAIN strong : strong[x] = full,
         Cardinality(DOMAIN strength) <= Cardinality(DOMAIN strong), NEW weight \in Scores
  PROVE  Combined(strength, weight) <= Combined(strong, weight)
<1> DEFINE S == DOMAIN strength
           T == DOMAIN strong
           all == 10000
           least == all - Times(weight, full)
<1>1. full \in Scores /\ all \in Int /\ weight \in Int /\ \A x \in S : strength[x] \in Int
  BY ScoresAre, FullScore
<1>2. (\A x \in T : strong[x] \in Scores) /\ (\A x \in T : strong[x] \in Int)
  BY <1>1, ScoresAre
<1>3. PICK left : Running(left, strength, weight) /\ Combined(strength, weight) = all - left[S]
  BY <1>1, CombinedIs
<1>4. PICK rest : Running(rest, strong, weight) /\ Combined(strong, weight) = all - rest[T]
  BY <1>1, <1>2, CombinedIs
<1>5. (\A s \in SUBSET S : left[s] \in Scores) /\ (\A t \in SUBSET T : rest[t] \in Scores)
  BY <1>2, <1>3, <1>4, RunningIs
<1>6. least \in Scores /\ \A x \in S : all - Times(weight, strength[x]) \in Scores
                                      /\ least <= all - Times(weight, strength[x])
  <2>1. ASSUME NEW x \in S PROVE all - Times(weight, strength[x]) \in Scores
                                 /\ least <= all - Times(weight, strength[x])
    <3>1. strength[x] \in Int /\ strength[x] <= full /\ full \in Int /\ weight \in Nat
      <4>1. strength[x] \in Scores
        OBVIOUS
      <4> QED
        BY <1>1, <4>1, ScoresAre
    <3>2. Times(weight, strength[x]) <= Times(weight, full)
      BY <3>1, TimesGrows
    <3>3. Times(weight, strength[x]) \in Scores
      <4>1. strength[x] \in Scores /\ weight \in Scores
        OBVIOUS
      <4> QED
        BY <4>1, TimesOfScores
    <3>4. Times(weight, full) \in Scores
      BY TimesOfScores
    <3> QED
      BY <3>2, <3>3, <3>4, ScoresAre, LessIsMore
  <2>2. least \in Scores
    <3>1. Times(weight, full) \in Scores
      BY <1>1, TimesOfScores
    <3> QED
      BY <3>1, ScoresAre
  <2> QED
    BY <2>1, <2>2
<1>7. left[{}] = all /\ rest[{}] = all
  BY <1>3, <1>4 DEF Running
<1>8. \A s \in SUBSET S : s # {} => \E x \in s : left[s] = Times(left[s \ {x}], all - Times(weight, strength[x]))
  BY <1>3 DEF Running
<1>9. \A t \in SUBSET T : t # {} => \E y \in t : rest[t] = Times(rest[t \ {y}], least)
  <2>1. \A t \in SUBSET T : t # {} => \E y \in t : rest[t] = Times(rest[t \ {y}], all - Times(weight, strong[y]))
    BY <1>4 DEF Running
  <2>2. \A y \in T : strong[y] = full
    OBVIOUS
  <2> HIDE DEF all, T
  <2> QED
    BY <2>1, <2>2
<1> DEFINE Bad == {t \in SUBSET T : \E s \in SUBSET S : Cardinality(s) <= Cardinality(t) /\ left[s] < rest[t]}
<1> HIDE DEF all, least
<1>10. Bad = {}
  <2> SUFFICES ASSUME Bad # {} PROVE FALSE
    OBVIOUS
  <2>1. PICK t \in Bad : \A y \in t : t \ {y} \notin Bad
    <3>1. Bad \in SUBSET (SUBSET T) /\ IsFiniteSet(T)
      OBVIOUS
    <3> HIDE DEF Bad, T, S
    <3> QED
      BY <3>1, SmallestBad
  <2>2. t \in SUBSET T
    BY <2>1
  <2>3. PICK s \in SUBSET S : Cardinality(s) <= Cardinality(t) /\ left[s] < rest[t]
    BY <2>1
  <2>4. IsFiniteSet(s) /\ IsFiniteSet(t) /\ Cardinality(s) \in Nat /\ Cardinality(t) \in Nat
    BY <2>2, FS_Subset, FS_CardinalityType
  <2>5. left[s] \in Scores /\ rest[t] \in Scores
    BY <1>5, <2>2
  <2>6. CASE s = {}
    <3>1. left[s] = all
      BY <1>7, <2>6
    <3>2. \A a \in Scores : ~ (all < a)
      BY ScoresAre DEF all
    <3> QED
      BY <2>3, <2>5, <3>1, <3>2
  <2>7. CASE s # {}
    <3>1. t # {}
      <4>1. Cardinality(s) # 0
        BY <2>4, <2>7, FS_EmptySet
      <4>2. Cardinality({}) = 0
        BY FS_EmptySet
      <4> QED
        BY <2>3, <2>4, <4>1, <4>2
    <3>2. PICK x \in s : left[s] = Times(left[s \ {x}], all - Times(weight, strength[x]))
      BY <1>8, <2>7
    <3>3. PICK y \in t : rest[t] = Times(rest[t \ {y}], least)
      BY <1>9, <2>2, <3>1
    <3>4. Cardinality(s \ {x}) = Cardinality(s) - 1 /\ Cardinality(t \ {y}) = Cardinality(t) - 1
      <4>1. ASSUME NEW a, IsFiniteSet(a), NEW b \in a PROVE Cardinality(a \ {b}) = Cardinality(a) - 1
        <5>1. Cardinality(a \ {b}) = IF b \in a THEN Cardinality(a) - 1 ELSE Cardinality(a)
          BY <4>1, FS_RemoveElement
        <5> QED
          BY <4>1, <5>1
      <4> QED
        BY <2>4, <3>2, <3>3, <4>1
    <3>5. Cardinality(s \ {x}) <= Cardinality(t \ {y})
      BY <2>3, <2>4, <3>4
    <3>6. s \ {x} \in SUBSET S /\ t \ {y} \in SUBSET T
      BY <2>2
    <3>7. ~ (left[s \ {x}] < rest[t \ {y}])
      BY <2>1, <3>3, <3>5, <3>6
    <3> DEFINE u == left[s \ {x}]
               v == rest[t \ {y}]
               k == all - Times(weight, strength[x])
    <3>8. u \in Scores /\ v \in Scores /\ k \in Scores /\ least \in Scores /\ least <= k
      BY <1>5, <1>6, <3>2, <3>6
    <3>9. left[s] = Times(u, k) /\ rest[t] = Times(v, least) /\ ~ (u < v)
      BY <3>2, <3>3, <3>7
    <3> HIDE DEF u, v, k
    <3>10. ~ (Times(u, k) < Times(v, least))
      BY <3>8, <3>9, LeavesMore
    <3> QED
      BY <2>3, <3>9, <3>10
  <2> QED
    BY <2>6, <2>7
<1>11. ~ (left[S] < rest[T])
  BY <1>10
<1>12. left[S] \in Scores /\ rest[T] \in Scores
  BY <1>5
<1> QED
  <2>1. \A a, b \in Scores : ~ (a < b) => all - a <= all - b
    BY ScoresAre, LessIsMore, SMT DEF all
  <2> QED
    BY <1>3, <1>4, <1>11, <1>12, <2>1

LEMMA BetweenBounds == \A a \in Int : a >= 0 /\ a <= 10000 => a \in Scores
BY SMT DEF Scores

LEMMA TimesOfNaturals == \A a, b \in Nat : Times(a, b) \in Nat
<1> TAKE a, b \in Nat
<1>1. a * b \in Nat
  OBVIOUS
<1>2. \A p \in Nat : (p + 5000) \div 10000 \in Nat
  OBVIOUS
<1> QED
  BY <1>1, <1>2 DEF Times

\* The signals and the baseline of a report are scores.
LEMMA CrowdIsScore == \A k \in Nat \ {0} : CrowdSignal(k) \in Scores
<1>1. \A k \in 1 .. 30 : CrowdTable[k] \in Int /\ CrowdTable[k] >= 0 /\ CrowdTable[k] <= 10000
  BY SMT DEF CrowdTable
<1>2. \A k \in 1 .. 30 : CrowdTable[k] \in Scores
  BY <1>1, BetweenBounds
<1>3. \A k \in Nat \ {0} : k > 30 \/ k \in 1 .. 30
  OBVIOUS
<1> QED
  BY <1>2, <1>3, FullScore DEF CrowdSignal

LEMMA EvidenceIsScore == ASSUME NEW inputs, IsInputs(inputs) PROVE EvidenceSignal(inputs) \in Scores
<1> DEFINE all == 10000
           strength == [g \in inputs.groups |-> Min({all, Times(Voice(g), Diminishing[g.count])})]
           n == 5000
<1>1. EvidenceSignal(inputs) = Combined(strength, n)
  BY DEF EvidenceSignal
<1>2. all \in Int /\ n \in Scores /\ \A a \in Nat : a <= all => a \in Scores
  BY SMT DEF Scores
<1>3. IsFiniteSet(DOMAIN strength) /\ DOMAIN strength = inputs.groups
  BY DEF IsInputs
<1> HIDE DEF n, all
<1>4. ASSUME NEW g \in DOMAIN strength PROVE strength[g] \in Scores
  <2> DEFINE voice == Times(Voice(g), Diminishing[g.count])
  <2>1. g.confidence \in Scores /\ g.role \in Scores /\ g.count \in DOMAIN Diminishing
    BY <1>2, <1>3 DEF IsInputs
  <2>2. Diminishing[g.count] \in Nat
    <3>1. Diminishing \in Seq(Nat)
      BY DiminishingAssumption
    <3> HIDE DEF strength
    <3> QED
      BY <2>1, <3>1
  <2>3. Voice(g) \in Nat
    BY <2>1, TimesOfScores, ScoresAre DEF Voice
  <2>4. voice \in Nat
    BY <2>2, <2>3, TimesOfNaturals
  <2>5. strength[g] = Min({all, voice})
    OBVIOUS
  <2> HIDE DEF strength, voice
  <2>6. strength[g] \in Int /\ strength[g] \in {all, voice} /\ strength[g] <= all
    BY <1>2, <2>4, <2>5, MinOfTwo
  <2>7. all \in Nat
    BY DEF all
  <2> QED
    BY <1>2, <2>4, <2>6, <2>7
<1> HIDE DEF strength
<1> QED
  BY <1>1, <1>2, <1>3, <1>4, CombinedIsScore

LEMMA ReadingsAre ==
  ASSUME NEW inputs, IsInputs(inputs), NEW s \in inputs.stations
  PROVE  Reading(s) \in Scores
<1>1. s.score \in Scores /\ s.weight \in Scores
  BY BetweenBounds DEF IsInputs
<1> QED
  BY <1>1, TimesOfScores DEF Reading

LEMMA ObservationIsScore == ASSUME NEW inputs, IsInputs(inputs) PROVE ObservationSignal(inputs) \in Scores
<1> DEFINE strength == [s \in inputs.stations |-> Reading(s)]
           n == 6000
<1>1. ObservationSignal(inputs) = Combined(strength, n)
  BY DEF ObservationSignal
<1>2. n \in Scores
  BY SMT DEF Scores
<1>3. IsFiniteSet(DOMAIN strength) /\ DOMAIN strength = inputs.stations
  BY DEF IsInputs
<1>4. \A s \in DOMAIN strength : strength[s] \in Scores
  BY ReadingsAre
<1> HIDE DEF strength, n
<1> QED
  BY <1>1, <1>2, <1>3, <1>4, CombinedIsScore

LEMMA BaselineIsScore == ASSUME NEW inputs, IsInputs(inputs) PROVE Baseline(inputs) \in Scores
<1> DEFINE most == 9500
           fewest == 1000
           share == 3000
           low == Min({most, inputs.trust})
           high == Max({fewest, low})
           quality == Quality(inputs.known)
           part == Times(share, quality)
           known == 7000 + part
<1>1. Baseline(inputs) = Times(high, known)
  BY DEF Baseline
<1>2. share \in Scores /\ quality \in Scores
  <2>1. share \in Scores
    BY SMT DEF Scores
  <2>2. quality \in Scores
    <3>1. \A k : Quality(k) \in Int /\ Quality(k) >= 0 /\ Quality(k) <= 10000
      BY SMT DEF Quality, QualityWeight
    <3> HIDE DEF part, known, low, high
    <3> QED
      BY <3>1, BetweenBounds
  <2> QED
    BY <2>1, <2>2
<1>3. part \in Scores /\ part <= share
  BY <1>2, TimesOfScores
<1>4. most \in Int /\ fewest \in Int /\ fewest <= most /\ fewest >= 0 /\ \A a \in Int : a >= fewest /\ a <= most => a \in Scores
  BY SMT DEF Scores
<1> HIDE DEF most, fewest
<1>5. low \in Int /\ low <= most
  BY <1>4, MinOfTwo DEF IsInputs
<1> HIDE DEF low
<1>6. high \in Int /\ high \in {fewest, low} /\ high >= fewest
  BY <1>4, <1>5, MaxOfTwo
<1> HIDE DEF high
<1>7. high <= most
  BY <1>4, <1>5, <1>6
<1>8. high \in Scores
  BY <1>4, <1>6, <1>7
<1> HIDE DEF quality
<1>9. known \in Scores
  <2> HIDE DEF part, low, high
  <2> QED
    <3>1. part \in Nat /\ part <= 3000
      BY <1>3, ScoresAre
    <3>2. known \in Int /\ known >= 0 /\ known <= 10000
      BY <3>1
    <3> HIDE DEF known
    <3> QED
      BY <3>2, BetweenBounds
<1> HIDE DEF known
<1> QED
  BY <1>1, <1>8, <1>9, TimesOfScores

LEMMA LeastOfMore == ASSUME NEW all \in Nat, NEW a \in Nat, NEW b \in Nat, a <= b
                     PROVE  Min({all, a}) \in Nat /\ Min({all, b}) \in Nat /\ Min({all, a}) <= Min({all, b})
<1> DEFINE x == Min({all, a})
           y == Min({all, b})
<1>1. x \in {all, a} /\ x <= all /\ x <= a /\ y \in {all, b}
  BY MinOfTwo
<1> HIDE DEF x, y
<1>2. x \in Nat /\ y \in Nat /\ x <= y
  BY <1>1
<1> QED
  BY <1>2 DEF x, y

\* Of two reports that differ in their gauges only, the one whose gauges say
\* more, and give it no fewer families, has no lower score, unless it is official.
Louder(inputs, full) ==
  /\ IsInputs(inputs) /\ IsInputs(full)
  /\ full.trust = inputs.trust /\ full.family = inputs.family /\ full.known = inputs.known
  /\ full.crowd = inputs.crowd /\ full.groups = inputs.groups /\ full.denials = inputs.denials
  /\ ObservationSignal(inputs) <= ObservationSignal(full)
  /\ Families(inputs) \subseteq Families(full)

LEMMA LouderVoices ==
  ASSUME NEW inputs, NEW full, Louder(inputs, full)
  PROVE  /\ Cardinality(Families(inputs)) \in Nat \ {0} /\ Cardinality(Families(full)) \in Nat \ {0}
         /\ Cardinality(Families(inputs)) <= Cardinality(Families(full))
<1>1. IsInputs(inputs) /\ IsInputs(full) /\ Families(inputs) \subseteq Families(full)
  BY DEF Louder
<1> QED
  BY <1>1, FamiliesAre, FS_Subset

LEMMA LouderEvidence ==
  ASSUME NEW inputs, NEW full, Louder(inputs, full)
  PROVE  /\ Baseline(full) = Baseline(inputs) /\ Penalty(full) = Penalty(inputs)
         /\ EvidenceSignal(full) = EvidenceSignal(inputs)
<1>1. Baseline(full) = Baseline(inputs)
  BY DEF Louder, Baseline
<1>2. Penalty(full) = Penalty(inputs)
  BY DEF Louder, Penalty
<1>3. EvidenceSignal(full) = EvidenceSignal(inputs)
  BY DEF Louder, EvidenceSignal
<1> QED
  BY <1>1, <1>2, <1>3

LEMMA LouderSupport ==
  ASSUME NEW inputs, NEW full, Louder(inputs, full)
  PROVE  Support(inputs) \in Nat /\ Support(full) \in Nat /\ Support(inputs) <= Support(full)
<1> DEFINE all == 10000
           third == 3000
           half == 5000
           crowd == Times(third, CrowdSignal(inputs.crowd))
           evidence == Times(half, EvidenceSignal(inputs))
           telemetry == Times(half, ObservationSignal(inputs))
           more == Times(half, ObservationSignal(full))
           a == crowd + evidence + telemetry
           b == crowd + evidence + more
<1>1. third \in Nat /\ half \in Nat /\ all \in Nat
  OBVIOUS
<1>2. /\ Support(inputs) = Min({all, a})
      /\ Support(full) = Min({all, b})
  BY LouderEvidence DEF Support, Louder
<1> HIDE DEF all, third, half
<1>3. /\ CrowdSignal(inputs.crowd) \in Nat /\ EvidenceSignal(inputs) \in Nat
      /\ ObservationSignal(inputs) \in Nat /\ ObservationSignal(full) \in Nat
      /\ ObservationSignal(inputs) <= ObservationSignal(full)
  <2>1. IsInputs(inputs) /\ IsInputs(full) /\ inputs.crowd \in Nat \ {0}
    BY DEF Louder, IsInputs
  <2>2. /\ CrowdSignal(inputs.crowd) \in Scores /\ EvidenceSignal(inputs) \in Scores
        /\ ObservationSignal(inputs) \in Scores /\ ObservationSignal(full) \in Scores
    BY <2>1, CrowdIsScore, EvidenceIsScore, ObservationIsScore
  <2>3. ObservationSignal(inputs) <= ObservationSignal(full)
    BY DEF Louder
  <2> QED
    BY <2>2, <2>3, ScoresAre
<1>4. crowd \in Nat /\ evidence \in Nat /\ telemetry \in Nat /\ more \in Nat
  BY <1>1, <1>3, TimesOfNaturals
<1>5. telemetry <= more
  BY <1>1, <1>3, TimesGrows
<1> HIDE DEF crowd, evidence, telemetry, more
<1>6. a \in Nat /\ b \in Nat /\ a <= b
  BY <1>4, <1>5
<1> HIDE DEF a, b
<1> QED
  BY <1>1, <1>2, <1>6, LeastOfMore

LEMMA LouderPositive ==
  ASSUME NEW inputs, NEW full, Louder(inputs, full)
  PROVE  Positive(inputs) \in Int /\ Positive(full) \in Int /\ Positive(inputs) <= Positive(full)
<1> DEFINE all == 10000
           base == Baseline(inputs)
           factor == all + 600 * (Cardinality(Families(inputs)) - 1)
           larger == all + 600 * (Cardinality(Families(full)) - 1)
           boosted == Times(Support(inputs), factor)
           higher == Times(Support(full), larger)
           rest == all - base
           a == Min({all, boosted})
           b == Min({all, higher})
<1>1. Positive(inputs) = base + Times(rest, a) /\ Positive(full) = base + Times(rest, b)
  BY LouderEvidence DEF Positive
<1>2. factor \in Nat /\ larger \in Nat /\ factor <= larger
  BY LouderVoices
<1>3. base \in Int /\ rest \in Nat /\ all \in Nat
  BY BaselineIsScore, ScoresAre DEF Louder
<1> HIDE DEF all, base, factor, larger
<1>4. /\ Support(inputs) \in Nat /\ Support(full) \in Nat /\ Support(inputs) <= Support(full)
  BY LouderSupport
<1> DEFINE between == Times(Support(full), factor)
<1>5. boosted \in Nat /\ higher \in Nat /\ between \in Nat
  BY <1>2, <1>4, TimesOfNaturals
<1>6. boosted <= between /\ between <= higher
  BY <1>2, <1>4, TimesGrows
<1> HIDE DEF boosted, higher, between, rest
<1>7. boosted <= higher
  BY <1>5, <1>6
<1>8. a \in Nat /\ b \in Nat /\ a <= b
  BY <1>3, <1>5, <1>7, LeastOfMore
<1> HIDE DEF a, b
<1>9. Times(rest, a) <= Times(rest, b) /\ Times(rest, a) \in Int /\ Times(rest, b) \in Int
  <2>1. Times(rest, a) <= Times(rest, b)
    BY <1>3, <1>8, TimesGrows
  <2>2. Times(rest, a) \in Nat /\ Times(rest, b) \in Nat
    BY <1>3, <1>8, TimesOfNaturals
  <2> QED
    BY <2>1, <2>2
<1> QED
  BY <1>1, <1>3, <1>9

LEMMA LouderCap ==
  ASSUME NEW inputs, NEW full, Louder(inputs, full), inputs.family # "OFFICIAL"
  PROVE  AppliedCap(inputs) \in Int /\ AppliedCap(full) \in Int /\ AppliedCap(inputs) <= AppliedCap(full)
<1> DEFINE crowd == CrowdSignal(inputs.crowd) > 100
           evidence == EvidenceSignal(inputs) > 100
           telemetry == ObservationSignal(inputs) > 100
           more == ObservationSignal(full) > 100
           n == Cardinality(Families(inputs))
           m == Cardinality(Families(full))
<1>1. /\ AppliedCap(inputs) =
           IF ~crowd /\ ~evidence /\ ~telemetry
           THEN CASE inputs.family = "CITIZEN" -> CapCitizen [] inputs.family = "OFFICIAL" -> CapOfficial
                  [] OTHER -> CapOther
           ELSE IF n = 1 THEN CapSingleProvenance
           ELSE IF ~crowd /\ ~evidence /\ n = 2 THEN CapPhysicalOnly ELSE CapMaxMachine
      /\ AppliedCap(full) =
           IF ~crowd /\ ~evidence /\ ~more
           THEN CASE inputs.family = "CITIZEN" -> CapCitizen [] inputs.family = "OFFICIAL" -> CapOfficial
                  [] OTHER -> CapOther
           ELSE IF m = 1 THEN CapSingleProvenance
           ELSE IF ~crowd /\ ~evidence /\ m = 2 THEN CapPhysicalOnly ELSE CapMaxMachine
  BY LouderEvidence DEF AppliedCap, Louder
<1>2. telemetry => more
  <2>1. IsInputs(inputs) /\ IsInputs(full) /\ ObservationSignal(inputs) <= ObservationSignal(full)
    BY DEF Louder
  <2>2. ObservationSignal(inputs) \in Int /\ ObservationSignal(full) \in Int
    BY <2>1, ObservationSignalIs
  <2> QED
    BY <2>1, <2>2, SMT
<1>3. n \in Nat \ {0} /\ m \in Nat \ {0} /\ n <= m
  BY LouderVoices
<1> HIDE DEF crowd, evidence, telemetry, more, n, m
<1> DEFINE alone == ~crowd /\ ~evidence /\ ~telemetry
<1>4. CASE alone
  <2>1. AppliedCap(inputs) \in {CapCitizen, CapOther}
    BY <1>1, <1>4
  <2>2. \/ AppliedCap(full) = AppliedCap(inputs)
        \/ AppliedCap(full) \in {CapSingleProvenance, CapPhysicalOnly, CapMaxMachine}
    BY <1>1, <1>4
  <2> QED
    BY <2>1, <2>2, SMT DEF CapCitizen, CapOther, CapSingleProvenance, CapPhysicalOnly, CapMaxMachine
<1>5. CASE ~alone
  <2>1. CASE n = 1
    <3>1. AppliedCap(inputs) = CapSingleProvenance
      BY <1>1, <1>5, <2>1
    <3>2. AppliedCap(full) \in {CapSingleProvenance, CapPhysicalOnly, CapMaxMachine}
      BY <1>1, <1>2, <1>5
    <3> QED
      BY <3>1, <3>2, SMT DEF CapSingleProvenance, CapPhysicalOnly, CapMaxMachine
  <2>2. CASE n # 1
    <3>1. m # 1 /\ (m = 2 => n = 2)
      BY <1>3, <2>2
    <3>2. AppliedCap(inputs) = AppliedCap(full) \/ AppliedCap(inputs) = CapPhysicalOnly
      BY <1>1, <1>2, <1>5, <2>2, <3>1
    <3>3. AppliedCap(inputs) \in {CapPhysicalOnly, CapMaxMachine} /\ AppliedCap(full) \in {CapPhysicalOnly, CapMaxMachine}
      BY <1>1, <1>2, <1>5, <2>2, <3>1
    <3> QED
      BY <3>2, <3>3, SMT DEF CapPhysicalOnly, CapMaxMachine
  <2> QED
    BY <2>1, <2>2
<1> QED
  BY <1>4, <1>5

LEMMA LouderScore ==
  ASSUME NEW inputs, NEW full, Louder(inputs, full), inputs.family # "OFFICIAL"
  PROVE  ScoreIncident(inputs) <= ScoreIncident(full)
<1> DEFINE p == Positive(inputs) - Penalty(inputs)
           q == Positive(full) - Penalty(inputs)
           c == AppliedCap(inputs)
           d == AppliedCap(full)
           e == CapMaxMachine
           l == Min({p, c, e})
           m == Min({q, d, e})
           zero == 0
<1>1. ScoreIncident(inputs) = Max({zero, l}) /\ ScoreIncident(full) = Max({zero, m})
  BY LouderEvidence DEF ScoreIncident
<1>2. p \in Int /\ q \in Int /\ p <= q
  BY LouderPositive, PenaltyIs DEF Louder
<1>3. c \in Int /\ d \in Int /\ c <= d
  BY LouderCap
<1>4. e \in Int /\ zero \in Int
  BY SMT DEF CapMaxMachine
<1> HIDE DEF p, q, c, d, e, zero
<1>5. /\ l \in Int /\ l <= p /\ l <= c /\ l <= e
      /\ m \in Int /\ m \in {q, d, e}
  BY <1>2, <1>3, <1>4, MinOfThree
<1> HIDE DEF l, m
<1>6. l <= m
  BY <1>2, <1>3, <1>4, <1>5
<1> DEFINE u == Max({zero, l})
           v == Max({zero, m})
<1>7. u \in Int /\ u \in {zero, l} /\ v \in Int /\ v >= zero /\ v >= m
  BY <1>4, <1>5, MaxOfTwo
<1> HIDE DEF u, v
<1>8. u <= v
  BY <1>4, <1>5, <1>6, <1>7
<1> QED
  BY <1>1, <1>8 DEF u, v

\* A gauge that agrees fully, and what a score would be computed from if every
\* gauge it has heard of did.
Agreeing(st) == [station |-> st, score |-> 10000, weight |-> 10000, points |-> 1]
Loudest(s) == [s.inputs EXCEPT !.stations = {Agreeing(st) : st \in HeardBy(s)}]

LEMMA AgreeingIs == \A st : /\ Agreeing(st).station = st /\ Agreeing(st).score \in Scores
                            /\ Agreeing(st).weight \in Scores /\ Reading(Agreeing(st)) = 10000
<1> TAKE st
<1>1. Agreeing(st).station = st /\ Agreeing(st).score = 10000 /\ Agreeing(st).weight = 10000
  BY DEF Agreeing
<1>2. Times(10000, 10000) = 10000
  BY SMT DEF Times
<1> QED
  BY <1>1, <1>2, FullScore, BetweenBounds, SMT DEF Reading

LEMMA LoudestIs ==
  ASSUME NEW s, NEW report, Grounded(s, report)
  PROVE  Louder(s.inputs, Loudest(s))
<1> DEFINE inputs == s.inputs
           full == Loudest(s)
           heard == HeardBy(s)
           voices == {Agreeing(st) : st \in heard}
           all == 10000
<1>1. /\ IsInputs(inputs) /\ IsFiniteSet(heard)
      /\ \A x \in inputs.stations : x.station \in heard
      /\ \A x, y \in inputs.stations : x.station = y.station => x = y
      /\ inputs = [trust |-> inputs.trust, family |-> inputs.family, known |-> inputs.known,
                   crowd |-> inputs.crowd, groups |-> inputs.groups, stations |-> inputs.stations,
                   denials |-> inputs.denials]
  BY DEF Grounded
<1>2. /\ full.trust = inputs.trust /\ full.family = inputs.family /\ full.known = inputs.known
      /\ full.crowd = inputs.crowd /\ full.groups = inputs.groups /\ full.denials = inputs.denials
      /\ full.stations = voices
  <2>1. full = [trust |-> inputs.trust, family |-> inputs.family, known |-> inputs.known,
                crowd |-> inputs.crowd, groups |-> inputs.groups, stations |-> voices,
                denials |-> inputs.denials]
    BY <1>1 DEF Loudest
  <2> HIDE DEF full, inputs, voices
  <2> QED
    BY <2>1
<1>3. IsFiniteSet(voices)
  <2> DEFINE f == [st \in heard |-> Agreeing(st)]
  <2>1. DOMAIN f = heard /\ voices = {f[st] : st \in DOMAIN f} /\ f = [st \in DOMAIN f |-> f[st]]
    OBVIOUS
  <2> HIDE DEF f, voices, heard
  <2> QED
    BY <1>1, <2>1, FiniteImage
<1>4. \A x \in voices : x.score \in Scores /\ x.weight \in Scores /\ Reading(x) = all
  <2>1. \A st \in heard : /\ Agreeing(st).score \in Scores /\ Agreeing(st).weight \in Scores
                          /\ Reading(Agreeing(st)) = all
    BY AgreeingIs
  <2> HIDE DEF all, heard
  <2> QED
    BY <2>1
<1>5. Cardinality(inputs.stations) <= Cardinality(voices)
  <2> DEFINE h == [x \in inputs.stations |-> Agreeing(x.station)]
  <2>1. h \in [inputs.stations -> voices]
    BY <1>1
  <2>2. ASSUME NEW x \in inputs.stations, NEW y \in inputs.stations, h[x] = h[y] PROVE x = y
    <3>1. Agreeing(x.station) = Agreeing(y.station)
      BY <2>2
    <3>2. x.station = y.station
      BY <3>1, AgreeingIs
    <3> QED
      BY <1>1, <3>2
  <2>3. DOMAIN h = inputs.stations
    OBVIOUS
  <2> HIDE DEF h, voices, inputs
  <2>4. h \in Injection(inputs.stations, voices)
    BY <2>1, <2>2, <2>3 DEF Injection, IsInjective
  <2> QED
    BY <1>3, <2>4, FS_Injection
<1> HIDE DEF full, voices, all, heard, inputs
<1>6. IsInputs(full)
  BY <1>1, <1>2, <1>3, <1>4 DEF IsInputs
<1>7. ObservationSignal(inputs) <= ObservationSignal(full)
  <2> DEFINE strength == [x \in inputs.stations |-> Reading(x)]
             strong == [x \in voices |-> Reading(x)]
             n == 6000
  <2>1. ObservationSignal(inputs) = Combined(strength, n) /\ ObservationSignal(full) = Combined(strong, n)
    BY <1>2 DEF ObservationSignal
  <2>2. n \in Scores
    BY SMT DEF Scores
  <2>3. all \in Scores
    BY FullScore DEF all
  <2>4. DOMAIN strength = inputs.stations /\ DOMAIN strong = voices
    OBVIOUS
  <2>5. \A x \in DOMAIN strength : strength[x] \in Scores /\ strength[x] <= all
    <3>1. \A a \in Scores : a <= all
      BY ScoresAre DEF all
    <3> QED
      BY <1>1, <3>1, ReadingsAre
  <2>6. \A x \in DOMAIN strong : strong[x] = all
    BY <1>4
  <2>7. IsFiniteSet(inputs.stations)
    BY <1>1 DEF IsInputs
  <2> HIDE DEF strength, strong, n
  <2> QED
    BY <1>3, <1>5, <2>1, <2>2, <2>3, <2>4, <2>5, <2>6, <2>7, FullIsMost
<1>8. Families(inputs) \subseteq Families(full)
  <2> DEFINE quiet == {t \in inputs.stations : Reading(t) > 1000}
             loud == {t \in voices : Reading(t) > 1000}
  <2>1. \A x \in inputs.stations : Agreeing(x.station) \in voices /\ Reading(Agreeing(x.station)) > 1000
    <3>1. \A st \in heard : Agreeing(st) \in voices
      BY DEF voices
    <3>2. \A st : Reading(Agreeing(st)) > 1000
      BY AgreeingIs, SMT
    <3> QED
      BY <1>1, <3>1, <3>2
  <2>2. quiet # {} => loud # {}
    BY <2>1
  <2>3. /\ Families(inputs) = {inputs.family} \cup {g.family : g \in {h \in inputs.groups : ~h.derived /\ Voice(h) > 1000}}
                                \cup {"SENSOR" : t \in quiet}
        /\ Families(full) = {inputs.family} \cup {g.family : g \in {h \in inputs.groups : ~h.derived /\ Voice(h) > 1000}}
                              \cup {"SENSOR" : t \in loud}
    BY <1>2 DEF Families
  <2> HIDE DEF quiet, loud
  <2> QED
    BY <2>2, <2>3
<1>9. Louder(inputs, full)
  BY <1>1, <1>2, <1>6, <1>7, <1>8 DEF Louder
<1> QED
  BY <1>9 DEF inputs, full

LEMMA OneVoiceFollows == ScoresGrounded => OneGaugeOneVoice
<1> SUFFICES ASSUME ScoresGrounded, NEW r \in DOMAIN score, world.reports[r].family # "OFFICIAL"
             PROVE  score[r].value <= ScoreIncident(Loudest(score[r]))
  BY DEF OneGaugeOneVoice, Loudest, HeardBy, Agreeing
<1>1. Grounded(score[r], world.reports[r])
  BY DEF ScoresGrounded
<1>2. score[r].value = ScoreIncident(score[r].inputs) /\ score[r].inputs.family = world.reports[r].family
  BY <1>1 DEF Grounded
<1>3. Louder(score[r].inputs, Loudest(score[r]))
  BY <1>1, LoudestIs
<1> QED
  BY <1>2, <1>3, LouderScore

\* However often one gauge is read, and however many of its readings are matched
\* with a report that is not official, it says no more than one gauge that
\* agrees with the report fully.
THEOREM OneGaugeSpeaksOnce == Spec => []OneGaugeOneVoice
BY GroundedIsInvariant, OneVoiceFollows, PTL

=============================================================================
