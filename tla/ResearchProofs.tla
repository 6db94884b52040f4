--------------------------- MODULE ResearchProofs ---------------------------
(***************************************************************************)
(* What HuntCampaign, ResearchSelection, HypothesisReasoning and           *)
(* RuntimeRouting keep true, for any number of hunts, runs, contexts,      *)
(* hypotheses, deaths and requests, any prices and any allowances.         *)
(*                                                                         *)
(* Each part states the inductive invariant of its component, HuntInv,     *)
(* SelectionInv, ReasoningInv, SpendInv or RoutingInv, shows that every    *)
(* action keeps it, and derives the properties from it.  What all parts    *)
(* use comes first: numbers, finite sets, values defined step by step, and *)
(* sums.                                                                   *)
(***************************************************************************)
EXTENDS HuntCampaign, ResearchSelection, HypothesisReasoning,
        FiniteSetTheorems, FunctionTheorems, WellFoundedInduction, TLAPS

-----------------------------------------------------------------------------
(* Numbers and finite sets.                                                *)

(* Every nonempty set of naturals has a least element: the least-number    *)
(* principle, got from the well-foundedness of strict inclusion among      *)
(* finite sets, which is stated without an operator parameter.             *)
LEMMA LeastNumber ==
    ASSUME NEW T \in SUBSET Nat, T # {}
    PROVE  \E m \in T : \A n \in T : m <= n
<1> DEFINE Up == {1 .. n : n \in T}
<1>1. IsWellFoundedOn(StrictSubsetOrdering(Nat), FiniteSubsetsOf(Nat))
  BY FS_StrictSubsetOrderingWellFounded
<1>2. Up \subseteq FiniteSubsetsOf(Nat)
  BY FS_Interval DEF FiniteSubsetsOf
<1> Up # {}
  OBVIOUS
<1>3. PICK X \in Up : \A Y \in Up : <<Y, X>> \notin StrictSubsetOrdering(Nat)
  BY <1>1, <1>2, WFMin
<1>4. PICK m \in T : X = 1 .. m
  OBVIOUS
<1>5. ASSUME NEW n \in T, ~(m <= n) PROVE FALSE
  <2>1. 1 .. n \subseteq 1 .. m /\ m \in 1 .. m /\ m \notin 1 .. n
    BY <1>5
  <2>2. <<1 .. n, 1 .. m>> \in StrictSubsetOrdering(Nat)
    BY <2>1 DEF StrictSubsetOrdering
  <2> QED BY <1>3, <1>4, <2>2
<1> QED BY <1>5

(* A nonempty set of naturals with a bound has a greatest element.         *)
LEMMA GreatestNumber ==
    ASSUME NEW bound \in Nat, NEW S \in SUBSET (0 .. bound), S # {}
    PROVE  \E m \in S : \A n \in S : n <= m
<1> DEFINE above == {n \in Nat : \A x \in S : x <= n}
<1>1. bound \in above
  OBVIOUS
<1>2. PICK m \in above : \A n \in above : m <= n
  <2> HIDE DEF above
  <2>1. above \in SUBSET Nat
    BY DEF above
  <2> QED BY <1>1, <2>1, LeastNumber
<1>3. m \in S
  <2>1. SUFFICES ASSUME m \notin S PROVE FALSE
    OBVIOUS
  <2>2. \A x \in S : x < m
    BY <1>2, <2>1
  <2>3. PICK x \in S : TRUE
    OBVIOUS
  <2>4. m \in Nat /\ x \in Nat /\ x < m
    BY <2>2, <1>2
  <2>5. \A y \in S : y <= m - 1
    BY <2>2, <2>4
  <2>6. m - 1 \in above
    BY <2>4, <2>5
  <2> QED BY <2>6, <2>4, <1>2
<1> QED BY <1>2, <1>3

(* So Max and Min of the community modules are members of it.              *)
LEMMA MaxMinMember ==
    ASSUME NEW bound \in Nat, NEW S \in SUBSET (0 .. bound), S # {}
    PROVE  Max(S) \in S /\ Min(S) \in S
<1>1. \E x \in S : \A y \in S : x >= y
  BY GreatestNumber
<1>2. \E x \in S : \A y \in S : x =< y
  BY LeastNumber
<1> QED BY <1>1, <1>2 DEF Max, Min

(* Of a set of positions, the one that is the i-th.                        *)
LEMMA NthPosition ==
    ASSUME NEW n \in Nat, NEW K \in SUBSET (1 .. n), NEW i \in 1 .. Cardinality(K)
    PROVE  \E k \in K : Cardinality({j \in K : j <= k}) = i
<1> DEFINE upto(m) == {j \in K : j <= m}
           enough == {m \in Nat : Cardinality(upto(m)) >= i}
<1>1. IsFiniteSet(K)
  <2>1. IsFiniteSet(1 .. n)
    BY FS_Interval
  <2> QED BY <2>1, FS_Subset
<1>2. \A m : IsFiniteSet(upto(m)) /\ Cardinality(upto(m)) \in Nat
  <2> TAKE m
  <2>1. upto(m) \in SUBSET K
    OBVIOUS
  <2> HIDE DEF upto
  <2>2. IsFiniteSet(upto(m))
    BY <1>1, <2>1, FS_Subset
  <2> QED BY <2>2, FS_CardinalityType
<1> \A j \in K : j \in Int /\ 1 <= j /\ j <= n
  <2>1. \A j \in 1 .. n : j \in Int /\ 1 <= j /\ j <= n
    OBVIOUS
  <2> QED BY <2>1
<1>3. upto(n) = K /\ upto(0) = {}
  <2>1. \A j \in K : ~(j <= 0)
    OBVIOUS
  <2> QED BY <2>1
<1>4. \A m \in Nat \ {0} : upto(m) = IF m \in K THEN upto(m - 1) \cup {m} ELSE upto(m - 1)
  <2> TAKE m \in Nat \ {0}
  <2>1. \A j \in K : j <= m <=> j <= m - 1 \/ j = m
    OBVIOUS
  <2> QED BY <2>1
<1>5. \A m \in Nat \ {0} : m \notin upto(m - 1)
  OBVIOUS
<1> HIDE DEF upto
<1>6. n \in enough /\ 0 \notin enough /\ enough \in SUBSET Nat
  BY <1>1, <1>2, <1>3, FS_EmptySet
<1>7. PICK m \in enough : \A l \in enough : m <= l
  <2> HIDE DEF enough
  <2> QED BY <1>6, LeastNumber
<1>8. m \in Nat \ {0} /\ m - 1 \in Nat /\ m - 1 \notin enough
  BY <1>6, <1>7
<1>9. Cardinality(upto(m - 1)) < i /\ i <= Cardinality(upto(m))
  BY <1>7, <1>8, <1>2
<1>10. m \in K
  BY <1>4, <1>8, <1>9, <1>2
<1>11. Cardinality(upto(m)) = Cardinality(upto(m - 1)) + 1
  BY <1>2, <1>4, <1>5, <1>8, <1>10, FS_AddElement
<1>12. Cardinality(upto(m)) = i
  BY <1>2, <1>9, <1>11
<1> QED BY <1>10, <1>12 DEF upto

\* The functions that give, for a place and the value before it, the value at the place.
Steps(lo, hi, S) == [(lo .. hi) \X S -> S]

\* The values from a at lo on, one step after another.
Follows(lo, hi, a, step, f) ==
    f[lo] = a /\ \A n \in (lo .. hi) \ {lo} : f[n] = step[<<n, f[n - 1]>>]

(* A sequence of values given by a step from one to the next is defined.   *)
LEMMA StepsDefined ==
    ASSUME NEW lo \in Nat, NEW hi \in Nat, lo <= hi, NEW S, NEW a \in S,
           NEW step \in Steps(lo, hi, S)
    PROVE  \E f \in [lo .. hi -> S] : Follows(lo, hi, a, step, f)
<1> DEFINE Upto(m, f) ==
             f \in [lo .. m -> S] /\ Follows(lo, m, a, step, f)
           missing == {m \in lo .. hi : ~ \E f : Upto(m, f)}
<1>1. SUFFICES ASSUME missing # {} PROVE FALSE
  <2>1. hi \in lo .. hi
    OBVIOUS
  <2>2. \E f : Upto(hi, f)
    BY <1>1, <2>1
  <2> QED
    BY <2>2
<1>2. missing \subseteq Nat
  OBVIOUS
<1>3. PICK m \in missing : \A n \in missing : m <= n
  <2> HIDE DEF missing
  <2> QED
    BY <1>1, <1>2, LeastNumber
<1>4. m \in lo .. hi /\ m \in Nat /\ ~ \E f : Upto(m, f)
  OBVIOUS
<1>5. CASE m = lo
  <2> DEFINE f == [n \in lo .. lo |-> a]
  <2>1. Upto(lo, f)
    BY DEF Follows
  <2> QED
    BY <1>4, <1>5, <2>1
<1>6. CASE m # lo
  <2>1. m - 1 \in lo .. hi /\ m - 1 \notin missing
    <3>1. m - 1 \in lo .. hi /\ ~(m <= m - 1)
      BY <1>4, <1>6
    <3> HIDE DEF missing
    <3> QED
      BY <1>3, <3>1
  <2>2. PICK f : Upto(m - 1, f)
    BY <2>1
  <2> DEFINE g == [n \in lo .. m |-> IF n = m THEN step[<<m, f[m - 1]>>] ELSE f[n]]
  <2>3. f \in [lo .. (m - 1) -> S] /\ f[lo] = a
        /\ \A n \in (lo .. (m - 1)) \ {lo} : f[n] = step[<<n, f[n - 1]>>]
    BY <2>2 DEF Follows
  <2>4. f[m - 1] \in S /\ step[<<m, f[m - 1]>>] \in S
    BY <1>4, <2>1, <2>3 DEF Steps
  <2>5. \A n \in lo .. (m - 1) : f[n] \in S
    BY <2>3
  <2>6. g \in [lo .. m -> S]
    <3>1. \A n \in lo .. m : n # m => n \in lo .. (m - 1)
      BY <1>4
    <3> QED
      BY <2>4, <2>5, <3>1
  <2>7. g[lo] = a
    BY <1>4, <1>6, <2>3
  <2>8. \A n \in (lo .. m) \ {lo} : g[n] = step[<<n, g[n - 1]>>]
    <3> TAKE n \in (lo .. m) \ {lo}
    <3>1. n \in lo .. m /\ n - 1 \in lo .. m /\ n - 1 # m
      BY <1>4
    <3>2. g[n - 1] = f[n - 1]
      BY <3>1
    <3>3. CASE n = m
      BY <3>1, <3>2, <3>3
    <3>4. CASE n # m
      <4>1. n \in (lo .. (m - 1)) \ {lo}
        BY <1>4, <3>4
      <4> QED
        BY <2>3, <3>1, <3>2, <3>4, <4>1
    <3> QED
      BY <3>3, <3>4
  <2>9. Upto(m, g)
    BY <2>6, <2>7, <2>8 DEF Follows
  <2> QED
    BY <1>4, <2>9
<1> QED
  BY <1>5, <1>6

(* What holds of the first value and of each from the one before, holds.   *)
LEMMA StepsStay ==
    ASSUME NEW lo \in Nat, NEW hi \in Nat, NEW S, NEW f, f[lo] \in S,
           \A n \in (lo .. hi) \ {lo} : f[n - 1] \in S => f[n] \in S
    PROVE  \A n \in lo .. hi : f[n] \in S
<1> DEFINE bad == {n \in lo .. hi : f[n] \notin S}
<1>1. SUFFICES ASSUME bad # {} PROVE FALSE
  OBVIOUS
<1>2. bad \subseteq Nat
  OBVIOUS
<1>3. PICK m \in bad : \A n \in bad : m <= n
  <2> HIDE DEF bad
  <2> QED
    BY <1>1, <1>2, LeastNumber
<1>4. m \in (lo .. hi) \ {lo} /\ m - 1 \in lo .. hi /\ ~(m <= m - 1) /\ f[m] \notin S
  OBVIOUS
<1>5. m - 1 \notin bad
  <2> HIDE DEF bad
  <2> QED
    BY <1>3, <1>4
<1> QED
  BY <1>4, <1>5

-----------------------------------------------------------------------------
(* Sums.                                                                   *)

(* Of some sets with finitely many elements, one holds none of the others. *)
LEMMA SmallestSet ==
    ASSUME NEW T, IsFiniteSet(T), NEW sets \in SUBSET (SUBSET T), sets # {}
    PROVE  \E X \in sets : \A Y \in sets : Y \subseteq X => Y = X
<1>1. IsWellFoundedOn(StrictSubsetOrdering(T), FiniteSubsetsOf(T))
  BY FS_StrictSubsetOrderingWellFounded
<1>2. sets \subseteq FiniteSubsetsOf(T)
  BY FS_Subset DEF FiniteSubsetsOf
<1>3. PICK X \in sets : \A Y \in sets : <<Y, X>> \notin StrictSubsetOrdering(T)
  BY <1>1, <1>2, WFMin
<1>4. ASSUME NEW Y \in sets, Y \subseteq X, Y # X PROVE FALSE
  <2>1. <<Y, X>> \in StrictSubsetOrdering(T)
    BY <1>4 DEF StrictSubsetOrdering
  <2> QED
    BY <1>3, <1>4, <2>1
<1> QED
  BY <1>3, <1>4

Picked(s) == CHOOSE x \in s : TRUE

\* The sums of f over the parts of S, element by element as a fold takes them.
Sums(f, S, g) ==
    g = [s \in SUBSET S |-> IF s = {} THEN 0 ELSE f[Picked(s)] + g[s \ {Picked(s)}]]

LEMMA PickedIn == \A s : s # {} => Picked(s) \in s
BY DEF Picked

LEMMA SumsAgree ==
    ASSUME NEW f, NEW S, NEW T, IsFiniteSet(S), NEW g, NEW h, Sums(f, S, g), Sums(f, T, h),
           NEW s \in SUBSET (S \cap T)
    PROVE  g[s] = h[s]
<1> DEFINE differ == {p \in SUBSET (S \cap T) : g[p] # h[p]}
<1>1. SUFFICES ASSUME differ # {} PROVE FALSE
  OBVIOUS
<1>2. PICK X \in differ : \A Y \in differ : Y \subseteq X => Y = X
  <2>1. IsFiniteSet(S) /\ differ \in SUBSET (SUBSET S)
    OBVIOUS
  <2> HIDE DEF differ
  <2> QED
    BY <1>1, <2>1, SmallestSet
<1>3. X \in SUBSET S /\ X \in SUBSET T /\ g[X] # h[X]
  OBVIOUS
<1>4. /\ g[X] = IF X = {} THEN 0 ELSE f[Picked(X)] + g[X \ {Picked(X)}]
      /\ h[X] = IF X = {} THEN 0 ELSE f[Picked(X)] + h[X \ {Picked(X)}]
  BY <1>3 DEF Sums
<1>5. X # {} /\ Picked(X) \in X
  BY <1>3, <1>4, PickedIn
<1>6. X \ {Picked(X)} \notin differ
  BY <1>2, <1>5
<1>7. g[X \ {Picked(X)}] = h[X \ {Picked(X)}]
  BY <1>3, <1>6
<1> QED
  BY <1>3, <1>4, <1>5, <1>7

LEMMA SumsDefined ==
    ASSUME NEW f, NEW S, IsFiniteSet(S)
    PROVE  \E g : Sums(f, S, g)
<1> DEFINE without == {s \in SUBSET S : ~ \E g : Sums(f, s, g)}
<1>1. SUFFICES ASSUME without # {} PROVE FALSE
  OBVIOUS
<1>2. PICK X \in without : \A Y \in without : Y \subseteq X => Y = X
  <2>1. without \in SUBSET (SUBSET S)
    OBVIOUS
  <2> HIDE DEF without
  <2> QED
    BY <1>1, <2>1, SmallestSet
<1> DEFINE G(s) == CHOOSE g : Sums(f, s, g)
           value(s) == IF s = {} THEN 0
                       ELSE f[Picked(s)] + G(s \ {Picked(s)})[s \ {Picked(s)}]
           h == [s \in SUBSET X |-> value(s)]
<1>3. \A s \in SUBSET X : s # X => Sums(f, s, G(s))
  <2> SUFFICES ASSUME NEW s \in SUBSET X, s # X PROVE Sums(f, s, G(s))
    OBVIOUS
  <2>1. \E g : Sums(f, s, g)
    BY <1>2
  <2> QED
    BY <2>1
<1>4. \A s \in SUBSET X : s # {} =>
         /\ s \ {Picked(s)} \in SUBSET X /\ s \ {Picked(s)} # X
         /\ IsFiniteSet(s \ {Picked(s)})
  BY PickedIn, FS_Subset
<1> HIDE DEF G
<1>5. ASSUME NEW s \in SUBSET X, s # X
      PROVE  value(s) = G(s)[s]
  <2>1. G(s)[s] = IF s = {} THEN 0 ELSE f[Picked(s)] + G(s)[s \ {Picked(s)}]
    BY <1>3, <1>5 DEF Sums
  <2>2. CASE s = {}
    BY <2>1, <2>2
  <2>3. CASE s # {}
    <3> DEFINE less == s \ {Picked(s)}
    <3>1. less \in SUBSET X /\ less # X /\ IsFiniteSet(less)
      BY <1>4, <2>3
    <3>2. Sums(f, s, G(s)) /\ Sums(f, less, G(less))
      BY <1>3, <1>5, <3>1
    <3>3. less \in SUBSET (less \cap s)
      OBVIOUS
    <3> HIDE DEF less
    <3>4. G(less)[less] = G(s)[less]
      BY <3>1, <3>2, <3>3, SumsAgree
    <3> QED
      BY <2>1, <2>3, <3>4 DEF less
  <2> QED
    BY <2>2, <2>3
<1>6. Sums(f, X, h)
  <2>1. ASSUME NEW s \in SUBSET X
        PROVE  value(s) = IF s = {} THEN 0 ELSE f[Picked(s)] + h[s \ {Picked(s)}]
    <3>1. CASE s = {}
      BY <3>1
    <3>2. CASE s # {}
      <4> DEFINE less == s \ {Picked(s)}
      <4>1. less \in SUBSET X /\ less # X
        BY <1>4, <3>2
      <4>2. h[less] = value(less) /\ value(less) = G(less)[less]
        BY <1>5, <4>1
      <4> QED
        BY <3>2, <4>2
    <3> QED
      BY <3>1, <3>2
  <2> HIDE DEF value
  <2> QED
    BY <2>1 DEF Sums
<1> QED
  BY <1>2, <1>6

LEMMA SumIs ==
    ASSUME NEW f, NEW S, IsFiniteSet(S)
    PROVE  \E g : Sums(f, S, g) /\ SumFunctionOnSet(f, S) = g[S]
<1> DEFINE g == CHOOSE h : Sums(f, S, h)
<1>1. Sums(f, S, g)
  BY SumsDefined
<1>2. SumFunctionOnSet(f, S) = g[S]
  BY DEF SumFunctionOnSet, FoldFunctionOnSet, MapThenFoldSet, Sums, Picked
<1> QED
  BY <1>1, <1>2

LEMMA SumStep ==
    ASSUME NEW f, NEW S, IsFiniteSet(S)
    PROVE  SumFunctionOnSet(f, S) =
             IF S = {} THEN 0 ELSE f[Picked(S)] + SumFunctionOnSet(f, S \ {Picked(S)})
<1> DEFINE less == S \ {Picked(S)}
<1>1. PICK g : Sums(f, S, g) /\ SumFunctionOnSet(f, S) = g[S]
  BY SumIs
<1>2. IsFiniteSet(less) /\ less \in SUBSET S
  BY FS_Subset
<1>3. PICK h : Sums(f, less, h) /\ SumFunctionOnSet(f, less) = h[less]
  <2> HIDE DEF less
  <2> QED
    BY <1>2, SumIs
<1>4. g[S] = IF S = {} THEN 0 ELSE f[Picked(S)] + g[less]
  BY <1>1 DEF Sums
<1>5. g[less] = h[less]
  <2>1. less \in SUBSET (S \cap less)
    BY <1>2
  <2> HIDE DEF less
  <2> QED
    BY <1>1, <1>2, <1>3, <2>1, SumsAgree
<1> QED
  BY <1>1, <1>3, <1>4, <1>5

\* A sum of naturals is one, and an element may be taken from it first, whichever it is.
LEMMA SumAdds ==
    ASSUME NEW f, NEW S, IsFiniteSet(S), \A x \in S : f[x] \in Nat
    PROVE  /\ SumFunctionOnSet(f, S) \in Nat
           /\ \A x \in S : SumFunctionOnSet(f, S) = f[x] + SumFunctionOnSet(f, S \ {x})
<1> DEFINE Sum(p) == SumFunctionOnSet(f, p)
           adds(p) == Sum(p) \in Nat /\ \A x \in p : Sum(p) = f[x] + Sum(p \ {x})
           fails == {p \in SUBSET S : ~adds(p)}
<1>1. SUFFICES ASSUME fails # {} PROVE FALSE
  <2>1. adds(S)
    BY <1>1
  <2> QED
    BY <2>1
<1>2. PICK X \in fails : \A Y \in fails : Y \subseteq X => Y = X
  <2>1. fails \in SUBSET (SUBSET S)
    OBVIOUS
  <2> HIDE DEF fails
  <2> QED
    BY <1>1, <2>1, SmallestSet
<1>3. X \in SUBSET S /\ ~adds(X)
  OBVIOUS
<1>4. ASSUME NEW p \in SUBSET S
      PROVE  Sum(p) = IF p = {} THEN 0 ELSE f[Picked(p)] + Sum(p \ {Picked(p)})
  <2>1. IsFiniteSet(p)
    BY FS_Subset
  <2> QED
    BY <2>1, SumStep
<1>5. ASSUME NEW p \in SUBSET X, p # X PROVE adds(p)
  BY <1>2, <1>5
<1> HIDE DEF Sum
<1>6. CASE X = {}
  <2>1. Sum(X) = 0
    BY <1>3, <1>4, <1>6
  <2> QED
    BY <1>3, <1>6, <2>1
<1>7. CASE X # {}
  <2> DEFINE c == Picked(X)
  <2>1. c \in X /\ X \ {c} \in SUBSET X /\ X \ {c} # X
    BY <1>7, PickedIn
  <2>2. Sum(X) = f[c] + Sum(X \ {c})
    BY <1>3, <1>4, <1>7
  <2> HIDE DEF c
  <2>3. Sum(X \ {c}) \in Nat /\ \A x \in X \ {c} : Sum(X \ {c}) = f[x] + Sum((X \ {c}) \ {x})
    BY <1>5, <2>1
  <2>4. f[c] \in Nat
    BY <1>3, <2>1
  <2>5. ASSUME NEW x \in X, x # c PROVE Sum(X) = f[x] + Sum(X \ {x})
    <3>1. X \ {x} \in SUBSET X /\ X \ {x} # X /\ c \in X \ {x}
      BY <2>1, <2>5
    <3>2. Sum(X \ {x}) = f[c] + Sum((X \ {x}) \ {c})
      BY <1>5, <3>1
    <3>3. (X \ {x}) \ {c} = (X \ {c}) \ {x}
      OBVIOUS
    <3>4. Sum(X \ {c}) = f[x] + Sum((X \ {c}) \ {x})
      BY <2>3, <2>5
    <3>5. (X \ {c}) \ {x} \in SUBSET X /\ (X \ {c}) \ {x} # X
      BY <2>1
    <3>6. Sum((X \ {c}) \ {x}) \in Nat /\ f[x] \in Nat
      BY <1>3, <1>5, <3>5
    <3> QED
      BY <2>2, <2>4, <3>2, <3>3, <3>4, <3>6
  <2>6. adds(X)
    BY <2>2, <2>3, <2>4, <2>5
  <2> QED
    BY <1>3, <2>6
<1> QED
  BY <1>6, <1>7

\* A sum depends on what is added only.
LEMMA SumSame ==
    ASSUME NEW f, NEW g, NEW S, IsFiniteSet(S), \A x \in S : f[x] = g[x]
    PROVE  SumFunctionOnSet(f, S) = SumFunctionOnSet(g, S)
<1>1. PICK h : Sums(f, S, h) /\ SumFunctionOnSet(f, S) = h[S]
  BY SumIs
<1>2. PICK k : Sums(g, S, k) /\ SumFunctionOnSet(g, S) = k[S]
  BY SumIs
<1>3. Sums(g, S, h)
  <2>1. ASSUME NEW s \in SUBSET S
        PROVE  (IF s = {} THEN 0 ELSE f[Picked(s)] + h[s \ {Picked(s)}])
                 = (IF s = {} THEN 0 ELSE g[Picked(s)] + h[s \ {Picked(s)}])
    <3>1. s # {} => Picked(s) \in S
      BY PickedIn
    <3> QED
      BY <3>1
  <2> QED
    BY <1>1, <2>1 DEF Sums
<1>4. S \in SUBSET (S \cap S)
  OBVIOUS
<1> QED
  BY <1>1, <1>2, <1>3, <1>4, SumsAgree

\* What a part of a sum with bounded terms adds to the rest.
LEMMA SumBound ==
    ASSUME NEW f, NEW S, IsFiniteSet(S), \A x \in S : f[x] \in Nat, NEW R \in SUBSET S,
           NEW B \in Nat, \A x \in R : f[x] <= B
    PROVE  SumFunctionOnSet(f, S) <= SumFunctionOnSet(f, S \ R) + Cardinality(R) * B
<1> DEFINE Sum(p) == SumFunctionOnSet(f, p)
           bounded(p) == Sum(S) <= Sum(S \ p) + Cardinality(p) * B
           fails == {p \in SUBSET R : ~bounded(p)}
<1>1. SUFFICES ASSUME fails # {} PROVE FALSE
  <2>1. bounded(R)
    BY <1>1
  <2> QED
    BY <2>1
<1>2. PICK X \in fails : \A Y \in fails : Y \subseteq X => Y = X
  <2>1. fails \in SUBSET (SUBSET S)
    OBVIOUS
  <2> HIDE DEF fails
  <2> QED
    BY <1>1, <2>1, SmallestSet
<1>3. X \in SUBSET R /\ ~bounded(X)
  OBVIOUS
<1>4. ASSUME NEW p \in SUBSET S
      PROVE  /\ Sum(p) \in Nat /\ IsFiniteSet(p) /\ Cardinality(p) \in Nat
             /\ \A x \in p : Sum(p) = f[x] + Sum(p \ {x})
  <2>1. IsFiniteSet(p) /\ \A x \in p : f[x] \in Nat
    BY FS_Subset
  <2> QED
    BY <2>1, SumAdds, FS_CardinalityType
<1> HIDE DEF Sum
<1>5. X # {}
  <2>1. bounded({})
    <3>1. Cardinality({}) = 0 /\ S \ {} = S
      BY FS_EmptySet
    <3> QED
      BY <1>4, <3>1
  <2> QED
    BY <1>3, <2>1
<1>6. PICK x : x \in X
  BY <1>5
<1> DEFINE less == X \ {x}
<1>7. less \in SUBSET R /\ less # X /\ less \subseteq X
  BY <1>3, <1>6
<1>8. bounded(less)
  BY <1>2, <1>7
<1>9. Sum(S \ less) = f[x] + Sum(S \ X)
  <2>1. x \in S \ less /\ (S \ less) \ {x} = S \ X
    BY <1>3, <1>6
  <2> QED
    BY <1>4, <2>1
<1>10. Cardinality(X) = Cardinality(less) + 1
  <2>1. IsFiniteSet(less) /\ x \notin less /\ less \cup {x} = X
    BY <1>4, <1>6, <1>7
  <2> QED
    BY <2>1, FS_AddElement
<1>11. /\ Sum(S) \in Nat /\ Sum(S \ less) \in Nat /\ Sum(S \ X) \in Nat
       /\ Cardinality(less) \in Nat /\ f[x] \in Nat /\ f[x] <= B
  BY <1>3, <1>4, <1>6, <1>7
<1> HIDE DEF less
<1>12. (Cardinality(less) + 1) * B = Cardinality(less) * B + B
  BY <1>11
<1>13. PICK n \in Nat : n = Cardinality(less) * B
  BY <1>11
<1>14. Sum(S) <= Sum(S \ X) + (Cardinality(less) + 1) * B
  BY <1>8, <1>9, <1>11, <1>12, <1>13
<1> QED
  BY <1>3, <1>10, <1>14

\* Finitely many naturals have a bound.
LEMMA FiniteIsBounded ==
    ASSUME NEW S, IsFiniteSet(S), \A x \in S : x \in Nat
    PROVE  \E b \in Nat : S \subseteq 0 .. b
<1> DEFINE unbounded == {p \in SUBSET S : ~ \E b \in Nat : p \subseteq 0 .. b}
<1>1. SUFFICES ASSUME unbounded # {} PROVE FALSE
  OBVIOUS
<1>2. PICK X \in unbounded : \A Y \in unbounded : Y \subseteq X => Y = X
  <2>1. unbounded \in SUBSET (SUBSET S)
    OBVIOUS
  <2>2. IsFiniteSet(S)
    OBVIOUS
  <2> HIDE DEF unbounded
  <2> QED
    BY <1>1, <2>1, <2>2, SmallestSet
<1>3. X # {}
  OBVIOUS
<1>4. PICK x \in X : TRUE
  BY <1>3
<1>5. X \ {x} \notin unbounded
  BY <1>2, <1>4
<1>6. PICK b \in Nat : X \ {x} \subseteq 0 .. b
  BY <1>5
<1>7. b + x \in Nat /\ X \subseteq 0 .. (b + x)
  BY <1>6
<1>8. ~ \E c \in Nat : X \subseteq 0 .. c
  OBVIOUS
<1> QED
  BY <1>7, <1>8

-----------------------------------------------------------------------------
(* The hunt: its types.                                                    *)

Cell == [node: Nodes, who: Who \cup {ANONYMOUS}, row: DOMAIN Registry]

TierEvents ==
    {"HUNT_TIER_V1_REJECTED", "HUNT_TIER_V1_PASSED", "HUNT_TIER_V2_REJECTED",
     "HUNT_TIER_V2_PASSED", "HUNT_TIER_V3_QUEUED"}

GraphFacts ==
    [scope: [Nodes -> {"ABSENT", "UNKNOWN", "IN_SCOPE", "OUT_OF_SCOPE"}],
     who: [Nodes -> SUBSET Who], edge: SUBSET Nodes]

HuntHypothesis ==
    [node: Nodes, who: Who \cup {ANONYMOUS}, family: Families, events: SUBSET TierEvents]

HuntOperator ==
    [pc: {"idle", "scheduled", "validating"}, schedule: Seq(Cell), graph: GraphFacts,
     todo: Seq(Nat)]

HuntTypeOK ==
    /\ graph \in GraphFacts
    /\ hyps \in Seq(HuntHypothesis)
    /\ queue \in Seq([hyp: Nat, state: {"PENDING", "APPROVED"}])
    /\ approval \in Seq({"NONE", "APPROVED", "REJECTED"})
    /\ breaker \in [Families -> {"NONE", "ALLOW", "THROTTLE"}]
    /\ standing \in Standings
    /\ operator \in [Operators -> HuntOperator]
    /\ interruptions \in Nat

-----------------------------------------------------------------------------
(* The hunt: its invariant.                                                *)

\* Every item has its decision, and was released by an approval.
ItemsDecided ==
    /\ Len(approval) = Len(queue)
    /\ \A q \in DOMAIN queue : queue[q].state = "APPROVED" => approval[q] = "APPROVED"

\* An item and the event that it is queued come and stay together, one to one.
ItemsAreEvents ==
    /\ \A q \in DOMAIN queue :
          /\ queue[q].hyp \in DOMAIN hyps
          /\ "HUNT_TIER_V3_QUEUED" \in hyps[queue[q].hyp].events
    /\ \A p, q \in DOMAIN queue : queue[p].hyp = queue[q].hyp => p = q
    /\ \A h \in DOMAIN hyps :
          "HUNT_TIER_V3_QUEUED" \in hyps[h].events => \E q \in DOMAIN queue : queue[q].hyp = h

\* What is queued has passed the first two tiers, and what it passed them by has not
\* left the graph since.
QueuedHasPassed ==
    \A h \in DOMAIN hyps :
        "HUNT_TIER_V3_QUEUED" \in hyps[h].events =>
            /\ {"HUNT_TIER_V1_PASSED", "HUNT_TIER_V2_PASSED"} \subseteq hyps[h].events
            /\ RowOf(h).needs => hyps[h].node \in graph.edge

\* What a cycle has still to validate are its own hypotheses, without an event yet.
TodoIsFresh ==
    /\ \A o \in Operators : \A i \in DOMAIN operator[o].todo :
          /\ operator[o].todo[i] \in DOMAIN hyps
          /\ hyps[operator[o].todo[i]].events = {}
    /\ \A o, p \in Operators :
          \A i \in DOMAIN operator[o].todo, j \in DOMAIN operator[p].todo :
             operator[o].todo[i] = operator[p].todo[j] => o = p /\ i = j

\* A cycle works on a graph that has been, and on something.
CycleIsBehind ==
    \A o \in Operators :
        /\ operator[o].graph.edge \subseteq graph.edge
        /\ operator[o].pc = "validating" => operator[o].todo # <<>>

HuntInv ==
    /\ HuntTypeOK
    /\ ItemsDecided
    /\ ItemsAreEvents
    /\ QueuedHasPassed
    /\ TodoIsFresh
    /\ CycleIsBehind

-----------------------------------------------------------------------------
(* The hunt: what its operators give.                                      *)

\* A registry row is of a family, and has the fields the code reads.
LEMMA RegistryRows ==
    /\ DOMAIN Registry = 1 .. Len(Registry) /\ Len(Registry) \in Nat
    /\ \A k \in DOMAIN Registry :
          /\ Registry[k] \in [family: Families, on: SUBSET Nodes, in_scope: BOOLEAN,
                              absent: BOOLEAN, needs: BOOLEAN, tier: {"V1", "V2", "V3"},
                              mapped: BOOLEAN]
          /\ Registry[k].family \in Families
<1> DEFINE Row == [family: Families, on: SUBSET Nodes, in_scope: BOOLEAN, absent: BOOLEAN,
                   needs: BOOLEAN, tier: {"V1", "V2", "V3"}, mapped: BOOLEAN]
<1>1. Registry \in Seq(Row)
  BY HuntAssumption
<1>2. DOMAIN Registry = 1 .. Len(Registry) /\ Len(Registry) \in Nat
      /\ \A k \in DOMAIN Registry : Registry[k] \in Row
  <2> HIDE DEF Row
  <2> QED BY <1>1
<1> QED BY <1>2 DEF Families

\* The last and the first row of a family are rows of it.
LEMMA RowsOfFamily ==
    ASSUME NEW f \in Families
    PROVE  Max(RowsOf(f)) \in RowsOf(f) /\ Min(RowsOf(f)) \in RowsOf(f)
<1>1. RowsOf(f) \in SUBSET (0 .. Len(Registry)) /\ RowsOf(f) # {}
  BY RegistryRows DEF RowsOf, Families
<1> QED BY <1>1, RegistryRows, MaxMinMember

LEMMA CellsFinite == IsFiniteSet(Cell)
<1> DEFINE W == Who \cup {ANONYMOUS}
           Triples == (Nodes \X W) \X DOMAIN Registry
           f == [t \in Triples |-> [node |-> t[1][1], who |-> t[1][2], row |-> t[2]]]
<1>1. IsFiniteSet(W) /\ IsFiniteSet(DOMAIN Registry)
  <2>1. IsFiniteSet(W)
    BY HuntAssumption, FS_AddElement
  <2>2. IsFiniteSet(1 .. Len(Registry))
    BY RegistryRows, FS_Interval
  <2> QED BY <2>1, <2>2, RegistryRows
<1>2. IsFiniteSet(Triples)
  BY <1>1, HuntAssumption, FS_Product
<1>3. f \in Surjection(Triples, Cell)
  <2>1. f \in [Triples -> Cell]
    BY DEF Cell
  <2>2. \A c \in Cell : \E t \in Triples : f[t] = c
    <3> TAKE c \in Cell
    <3>1. <<<<c.node, c.who>>, c.row>> \in Triples
      BY DEF Cell
    <3>2. f[<<<<c.node, c.who>>, c.row>>] = c
      BY <3>1 DEF Cell
    <3> QED BY <3>1, <3>2
  <2> QED BY <2>1, <2>2 DEF Surjection
<1> QED
  <2> HIDE DEF f, Triples
  <2> QED BY <1>2, <1>3, FS_Surjection

\* What SetToSeq makes of a finite set is a sequence of its members.
LEMMA SetToSeqType ==
    ASSUME NEW S, IsFiniteSet(S)
    PROVE  SetToSeq(S) \in Seq(S)
<1>1. Cardinality(S) \in Nat /\ ExistsBijection(1 .. Cardinality(S), S)
  BY FS_CardinalityType
<1>2. \E f \in [1 .. Cardinality(S) -> S] : IsInjective(f)
  BY <1>1 DEF ExistsBijection, Bijection, Injection, IsInjective
<1>3. SetToSeq(S) \in [1 .. Cardinality(S) -> S]
  BY <1>2 DEF SetToSeq
<1> QED BY <1>1, <1>3

LEMMA FromGraphType == \A g : FromGraph(g) \in Seq(Cell)
<1> TAKE g
<1> DEFINE S == {c \in [node: InGraph(g), who: Who \cup {ANONYMOUS}, row: DOMAIN Registry] :
                   /\ Applies(g, c.node, Registry[c.row])
                   /\ c.who \in IdentitiesOf(g, c.node)}
<1>1. S \in SUBSET Cell
  BY DEF Cell, InGraph
<1>2. IsFiniteSet(S)
  <2> HIDE DEF S
  <2> QED BY <1>1, CellsFinite, FS_Subset
<1>3. SetToSeq(S) \in Seq(S)
  BY <1>2, SetToSeqType
<1>4. Seq(S) \subseteq Seq(Cell)
  <2> HIDE DEF S
  <2> QED BY <1>1
<1>5. FromGraph(g) = SetToSeq(S)
  BY DEF FromGraph
<1> QED BY <1>3, <1>4, <1>5

LEMMA ScheduledType ==
    ASSUME NEW schedule \in Seq(Cell), NEW g
    PROVE  Scheduled(schedule, g) \in Seq(Cell)
<1> DEFINE known == {k \in DOMAIN schedule : schedule[k].node \in InGraph(g)}
           nth(i) == CHOOSE k \in known : Cardinality({j \in known : j <= k}) = i
           cell(i) == [node |-> schedule[nth(i)].node, who |-> schedule[nth(i)].who,
                       row |-> Max(RowsOf(Registry[schedule[nth(i)].row].family))]
<1>1. known \in SUBSET (1 .. Len(schedule)) /\ Len(schedule) \in Nat
  OBVIOUS
<1>2. Cardinality(known) \in Nat
  <2> HIDE DEF known
  <2>1. IsFiniteSet(1 .. Len(schedule))
    BY <1>1, FS_Interval
  <2> QED BY <1>1, <2>1, FS_Subset, FS_CardinalityType
<1>3. \A i \in 1 .. Cardinality(known) : nth(i) \in known
  <2> HIDE DEF known
  <2> QED BY <1>1, NthPosition
<1>4. ASSUME NEW i \in 1 .. Cardinality(known) PROVE cell(i) \in Cell
  <2>1. nth(i) \in DOMAIN schedule
    <3> HIDE DEF nth
    <3> QED BY <1>3
  <2> HIDE DEF nth
  <2>2. schedule[nth(i)] \in Cell
    BY <2>1
  <2>3. Registry[schedule[nth(i)].row].family \in Families
    BY <2>2, RegistryRows DEF Cell
  <2>4. Max(RowsOf(Registry[schedule[nth(i)].row].family)) \in DOMAIN Registry
    BY <2>3, RowsOfFamily DEF RowsOf
  <2> QED BY <2>2, <2>4 DEF Cell
<1>5. Scheduled(schedule, g) = [i \in 1 .. Cardinality(known) |-> cell(i)]
  BY DEF Scheduled
<1> HIDE DEF known, cell
<1> QED BY <1>2, <1>4, <1>5

LEMMA RecommendationsType ==
    ASSUME NEW states, DOMAIN states \subseteq Cell, NEW exhausted,
           NEW s \in Recommendations(states, exhausted)
    PROVE  s \in Seq(Cell)
<1> DEFINE D == DOMAIN states
           n == Min({TopN, Cardinality(D)})
<1>1. Cardinality(D) \in Nat
  <2> HIDE DEF D
  <2>1. D \in SUBSET Cell
    BY DEF D
  <2> QED BY <2>1, CellsFinite, FS_Subset, FS_CardinalityType
<1>2. n \in Nat
  <2> HIDE DEF D
  <2>1. TopN \in Nat
    BY HuntAssumption
  <2>2. {TopN, Cardinality(D)} \in SUBSET (0 .. TopN + Cardinality(D))
    BY <1>1, <2>1
  <2>3. TopN + Cardinality(D) \in Nat
    BY <1>1, <2>1
  <2>4. Min({TopN, Cardinality(D)}) \in {TopN, Cardinality(D)}
    BY <2>2, <2>3, MaxMinMember
  <2> QED BY <2>4, <1>1, <2>1
<1>3. s \in [1 .. n -> D]
  BY DEF Recommendations
<1> HIDE DEF n
<1> QED BY <1>2, <1>3

LEMMA DebtCellsType == \A g : DebtCells(g) \subseteq Cell
BY DEF DebtCells, Cells, Cell, InGraph

\* The events of a validation: those that go with being queued, and that there are any.
LEMMA EventsOf ==
    ASSUME NEW g, NEW h
    PROVE  /\ Events(g, h) \in SUBSET TierEvents /\ Events(g, h) # {}
           /\ "HUNT_TIER_V3_QUEUED" \in Events(g, h) =>
                /\ {"HUNT_TIER_V1_PASSED", "HUNT_TIER_V2_PASSED"} \subseteq Events(g, h)
                /\ PassesV2(g, h)
BY DEF Events, TierEvents

-----------------------------------------------------------------------------
(* The hunt: the invariant is inductive.                                   *)

\* Parts of the state that a step leaves alone keep the parts of the invariant that
\* speak of nothing else; RowOf depends on the family of a hypothesis only.
LEMMA HuntInvKept ==
    ASSUME HuntInv, UNCHANGED <<hyps, queue, approval>>,
           graph' \in GraphFacts, graph.edge \subseteq graph'.edge,
           breaker' \in [Families -> {"NONE", "ALLOW", "THROTTLE"}], standing' \in Standings,
           operator' \in [Operators -> HuntOperator], interruptions' \in Nat,
           \A o \in Operators :
              \/ operator'[o].todo = <<>>
              \/ operator'[o].todo = operator[o].todo,
           \A o \in Operators :
              /\ operator'[o].graph.edge \subseteq graph'.edge
              /\ operator'[o].pc = "validating" => operator'[o].todo # <<>>
    PROVE  HuntInv'
<1> USE DEF HuntInv
<1>1. HuntTypeOK'
  BY DEF HuntTypeOK
<1>2. ItemsDecided'
  BY DEF ItemsDecided
<1>3. ItemsAreEvents'
  BY DEF ItemsAreEvents
<1>4. QueuedHasPassed'
  <2>1. \A h : RowOf(h)' = RowOf(h)
    BY DEF RowOf
  <2> QED BY <2>1 DEF QueuedHasPassed
<1>5. TodoIsFresh'
  BY DEF TodoIsFresh
<1>6. CycleIsBehind'
  BY DEF CycleIsBehind
<1> QED BY <1>1, <1>2, <1>3, <1>4, <1>5, <1>6

LEMMA UnoccupiedType == Unoccupied \in HuntOperator /\ NoFacts \in GraphFacts
BY DEF Unoccupied, HuntOperator, NoFacts, GraphFacts

LEMMA HuntInvInit == HuntInit => HuntInv
<1> SUFFICES ASSUME HuntInit PROVE HuntInv
  OBVIOUS
<1> USE DEF HuntInit
<1>1. HuntTypeOK
  BY UnoccupiedType DEF HuntTypeOK
<1>2. ItemsDecided /\ ItemsAreEvents /\ QueuedHasPassed
  BY DEF ItemsDecided, ItemsAreEvents, QueuedHasPassed
<1>3. TodoIsFresh /\ CycleIsBehind
  BY DEF TodoIsFresh, CycleIsBehind, Unoccupied, NoFacts
<1> QED BY <1>1, <1>2, <1>3 DEF HuntInv

LEMMA ObserveStep ==
    ASSUME HuntInv, NEW n \in Nodes, NEW scope \in {"UNKNOWN", "IN_SCOPE", "OUT_OF_SCOPE"},
           NEW w \in Who, Observe(n, scope, w)
    PROVE  HuntInv'
<1>1. graph \in GraphFacts /\ Merged(graph.scope[n], scope) \in
        {"ABSENT", "UNKNOWN", "IN_SCOPE", "OUT_OF_SCOPE"}
  BY DEF HuntInv, HuntTypeOK, GraphFacts, Merged
<1>2. graph' \in GraphFacts /\ graph'.edge = graph.edge
  BY <1>1 DEF Observe, GraphFacts
<1>3. UNCHANGED <<hyps, queue, approval, breaker, standing, operator, interruptions>>
  BY DEF Observe
<1> QED BY <1>2, <1>3, HuntInvKept DEF HuntInv, HuntTypeOK, CycleIsBehind

LEMMA ConnectStep ==
    ASSUME HuntInv, NEW n \in Nodes, Connect(n)
    PROVE  HuntInv'
<1>1. graph' \in GraphFacts /\ graph.edge \subseteq graph'.edge
  BY DEF HuntInv, HuntTypeOK, GraphFacts, Connect
<1>2. UNCHANGED <<hyps, queue, approval, breaker, standing, operator, interruptions>>
  BY DEF Connect
<1> QED BY <1>1, <1>2, HuntInvKept DEF HuntInv, HuntTypeOK, CycleIsBehind

LEMMA RecommendStep ==
    ASSUME HuntInv, NEW o \in Operators, Recommend(o)
    PROVE  HuntInv'
<1>1. PICK s \in Seq(Cell) :
        operator' = [operator EXCEPT ![o].pc = "scheduled", ![o].schedule = s]
  BY RecommendationsType, DebtCellsType DEF Recommend
<1>2. operator' \in [Operators -> HuntOperator]
  BY <1>1 DEF HuntInv, HuntTypeOK, HuntOperator
<1>3. \A p \in Operators : /\ operator'[p].todo = operator[p].todo
                           /\ operator'[p].graph = operator[p].graph
                           /\ operator'[p].pc = "validating" => operator[p].pc = "validating"
  BY <1>1 DEF HuntInv, HuntTypeOK, HuntOperator
<1>4. UNCHANGED <<graph, hyps, queue, approval, breaker, standing, interruptions>>
  BY DEF Recommend
<1> QED BY <1>2, <1>3, <1>4, HuntInvKept DEF HuntInv, HuntTypeOK, CycleIsBehind

LEMMA InterruptStep ==
    ASSUME HuntInv, NEW o \in Operators, Interrupt(o)
    PROVE  HuntInv'
<1>1. operator' = [operator EXCEPT ![o] = Unoccupied]
      /\ operator' \in [Operators -> HuntOperator] /\ interruptions' \in Nat
  BY UnoccupiedType DEF Interrupt, HuntInv, HuntTypeOK
<1>2. \A p \in Operators : operator'[p] = operator[p] \/ operator'[p] = Unoccupied
  BY <1>1 DEF HuntInv, HuntTypeOK
<1>3. UNCHANGED <<graph, hyps, queue, approval, breaker, standing>>
  BY DEF Interrupt
<1> QED BY <1>1, <1>2, <1>3, HuntInvKept
        DEF HuntInv, HuntTypeOK, CycleIsBehind, Unoccupied, NoFacts

LEMMA EvaluateFamilyStep ==
    ASSUME HuntInv, NEW f \in Families, EvaluateFamily(f)
    PROVE  HuntInv'
<1>1. breaker' \in [Families -> {"NONE", "ALLOW", "THROTTLE"}]
  BY DEF HuntInv, HuntTypeOK, EvaluateFamily
<1>2. UNCHANGED <<graph, hyps, queue, approval, standing, operator, interruptions>>
  BY DEF EvaluateFamily
<1> QED BY <1>1, <1>2, HuntInvKept DEF HuntInv, HuntTypeOK, CycleIsBehind

LEMMA ReassessStep ==
    ASSUME HuntInv, NEW s \in Standings, Reassess(s)
    PROVE  HuntInv'
<1>1. UNCHANGED <<graph, hyps, queue, approval, breaker, operator, interruptions>>
      /\ standing' \in Standings
  BY DEF Reassess
<1> QED BY <1>1, HuntInvKept DEF HuntInv, HuntTypeOK, CycleIsBehind

\* A decision is made once, so what an item was released by stays.
LEMMA DecideStep ==
    ASSUME HuntInv, NEW q \in DOMAIN queue, NEW verdict \in {"APPROVED", "REJECTED"},
           Decide(q, verdict)
    PROVE  HuntInv'
<1> USE DEF HuntInv
<1>1. UNCHANGED <<graph, hyps, queue, breaker, standing, operator, interruptions>>
  BY DEF Decide
<1>2. DOMAIN approval = DOMAIN queue /\ approval' = [approval EXCEPT ![q] = verdict]
      /\ approval[q] = "NONE"
  BY DEF HuntTypeOK, ItemsDecided, Decide
<1>3. approval' \in Seq({"NONE", "APPROVED", "REJECTED"}) /\ Len(approval') = Len(approval)
  BY <1>2 DEF HuntTypeOK
<1>4. HuntTypeOK'
  BY <1>1, <1>3 DEF HuntTypeOK
<1>5. ItemsDecided'
  BY <1>1, <1>2, <1>3 DEF ItemsDecided, HuntTypeOK
<1>6. ItemsAreEvents'
  BY <1>1 DEF ItemsAreEvents
<1>7. QueuedHasPassed'
  BY <1>1 DEF QueuedHasPassed, RowOf
<1>8. TodoIsFresh' /\ CycleIsBehind'
  BY <1>1 DEF TodoIsFresh, CycleIsBehind
<1> QED BY <1>4, <1>5, <1>6, <1>7, <1>8

\* A release changes no item's hypothesis.
LEMMA ApproveStep ==
    ASSUME HuntInv, NEW q \in DOMAIN queue, Approve(q)
    PROVE  HuntInv'
<1> USE DEF HuntInv
<1>1. UNCHANGED <<graph, hyps, approval, breaker, standing, operator, interruptions>>
  BY DEF Approve
<1>2. queue' \in Seq([hyp: Nat, state: {"PENDING", "APPROVED"}]) /\ Len(queue') = Len(queue)
  <2> DEFINE Item == [hyp: Nat, state: {"PENDING", "APPROVED"}]
  <2>1. queue \in Seq(Item) /\ queue' = [queue EXCEPT ![q].state = "APPROVED"]
    BY DEF Approve, HuntTypeOK
  <2>2. queue[q] \in Item
    <3> HIDE DEF Item
    <3> QED BY <2>1
  <2>3. [queue[q] EXCEPT !.state = "APPROVED"] \in Item
    BY <2>2
  <2> HIDE DEF Item
  <2>4. queue' = [queue EXCEPT ![q] = [queue[q] EXCEPT !.state = "APPROVED"]]
    BY <2>1
  <2>5. QED
    BY <2>1, <2>3, <2>4 DEF Item
<1>3. \A p \in DOMAIN queue :
        /\ queue'[p].hyp = queue[p].hyp
        /\ p # q => queue'[p].state = queue[p].state
  BY DEF Approve, HuntTypeOK
<1>4. DOMAIN queue' = DOMAIN queue /\ approval[q] = "APPROVED"
  BY <1>2 DEF Approve, Authorizes, HuntTypeOK
<1>5. HuntTypeOK'
  BY <1>1, <1>2 DEF HuntTypeOK
<1>6. ItemsDecided'
  BY <1>1, <1>2, <1>3, <1>4 DEF ItemsDecided
<1>7. ItemsAreEvents'
  BY <1>1, <1>3, <1>4 DEF ItemsAreEvents
<1>8. QueuedHasPassed'
  BY <1>1 DEF QueuedHasPassed, RowOf
<1>9. TodoIsFresh' /\ CycleIsBehind'
  BY <1>1 DEF TodoIsFresh, CycleIsBehind
<1> QED BY <1>5, <1>6, <1>7, <1>8, <1>9

\* Rows that are appended have no event, and the operator's list is theirs.
LEMMA GenerateStep ==
    ASSUME HuntInv, NEW o \in Operators, NEW targets \in Seq(Cell), Generate(o, targets),
           UNCHANGED <<graph, queue, approval, breaker, standing, interruptions>>
    PROVE  HuntInv'
<1> USE DEF HuntInv
<1> DEFINE fresh(i) == [node |-> targets[i].node, who |-> targets[i].who,
                      family |-> Registry[targets[i].row].family, events |-> {}]
           rows == [i \in DOMAIN targets |-> fresh(i)]
           todo == [i \in DOMAIN targets |-> Len(hyps) + i]
           now == [pc |-> IF targets = <<>> THEN "idle" ELSE "validating",
                   schedule |-> <<>>, graph |-> graph, todo |-> todo]
<1>1. \A i \in DOMAIN targets : fresh(i) \in HuntHypothesis /\ fresh(i).events = {}
  <2> TAKE i \in DOMAIN targets
  <2>1. targets[i] \in Cell
    OBVIOUS
  <2> QED BY <2>1, RegistryRows DEF Cell, HuntHypothesis
<1>2. hyps \in Seq(HuntHypothesis) /\ graph \in GraphFacts
      /\ operator \in [Operators -> HuntOperator]
  BY DEF HuntTypeOK
<1>3. rows \in Seq(HuntHypothesis) /\ Len(rows) = Len(targets)
  <2> HIDE DEF fresh
  <2> QED BY <1>1
<1>4. hyps' = hyps \o rows
  BY DEF Generate
<1>5. hyps' \in Seq(HuntHypothesis) /\ Len(hyps') = Len(hyps) + Len(targets)
  <2> HIDE DEF rows
  <2>1. hyps \o rows \in Seq(HuntHypothesis)
    BY <1>2, <1>3
  <2>2. Len(hyps \o rows) = Len(hyps) + Len(rows)
    BY <1>2, <1>3
  <2> QED BY <2>1, <2>2, <1>3, <1>4
<1>6. \A h \in DOMAIN hyps : h \in DOMAIN hyps' /\ hyps'[h] = hyps[h]
  <2> HIDE DEF rows
  <2> QED BY <1>2, <1>3, <1>4
<1>7. \A h \in DOMAIN hyps' \ DOMAIN hyps : hyps'[h].events = {}
  <2> TAKE h \in DOMAIN hyps' \ DOMAIN hyps
  <2>1. h - Len(hyps) \in DOMAIN targets /\ h \in Nat
    BY <1>2, <1>5
  <2>2. hyps'[h] = rows[h - Len(hyps)]
    <3> HIDE DEF rows
    <3> QED BY <1>2, <1>3, <1>4, <2>1
  <2> QED BY <1>1, <2>1, <2>2
<1>8. /\ todo \in Seq(Nat) /\ Len(todo) = Len(targets)
      /\ \A i \in DOMAIN todo : todo[i] \in DOMAIN hyps' \ DOMAIN hyps
      /\ \A i, j \in DOMAIN todo : todo[i] = todo[j] => i = j
  <2>1. Len(hyps) \in Nat /\ Len(targets) \in Nat /\ DOMAIN targets = 1 .. Len(targets)
        /\ DOMAIN hyps = 1 .. Len(hyps) /\ DOMAIN hyps' = 1 .. Len(hyps) + Len(targets)
    BY <1>2, <1>5
  <2>2. \A i \in 1 .. Len(targets) :
          Len(hyps) + i \in Nat /\ Len(hyps) + i \in DOMAIN hyps' \ DOMAIN hyps
    BY <2>1
  <2>3. todo \in Seq(Nat) /\ Len(todo) = Len(targets)
    BY <2>1, <2>2
  <2> QED BY <2>1, <2>2, <2>3
<1>9. now \in HuntOperator /\ (now.pc = "validating" => now.todo # <<>>)
      /\ now.todo = todo /\ now.graph = graph
  <2>1. targets # <<>> => todo # <<>>
    BY <1>8
  <2> HIDE DEF todo
  <2> QED BY <1>2, <1>8, <2>1 DEF HuntOperator
<1>10. operator' = [operator EXCEPT ![o] = now]
  BY DEF Generate
<1> HIDE DEF now, todo, rows
<1>11. \A p \in Operators : operator'[p] = IF p = o THEN now ELSE operator[p]
  BY <1>2, <1>10
<1>12. HuntTypeOK'
  BY <1>2, <1>5, <1>9, <1>10 DEF HuntTypeOK
<1>13. ItemsDecided'
  BY DEF ItemsDecided
<1>14. ItemsAreEvents'
  BY <1>6, <1>7 DEF ItemsAreEvents
<1>15. QueuedHasPassed'
  <2>1. \A h \in DOMAIN hyps : RowOf(h)' = RowOf(h)
    BY <1>6 DEF RowOf
  <2> QED BY <1>6, <1>7, <2>1 DEF QueuedHasPassed
<1>16. TodoIsFresh'
  <2>1. ASSUME NEW p \in Operators, NEW i \in DOMAIN operator'[p].todo
        PROVE  /\ operator'[p].todo[i] \in DOMAIN hyps'
               /\ hyps'[operator'[p].todo[i]].events = {}
               /\ operator'[p].todo[i] \in DOMAIN hyps <=> p # o
    BY <2>1, <1>6, <1>7, <1>8, <1>9, <1>11 DEF TodoIsFresh
  <2>2. ASSUME NEW p \in Operators, NEW q \in Operators,
               NEW i \in DOMAIN operator'[p].todo, NEW j \in DOMAIN operator'[q].todo,
               operator'[p].todo[i] = operator'[q].todo[j]
        PROVE  p = q /\ i = j
    <3>1. p = o <=> q = o
      BY <2>1, <2>2
    <3>2. CASE p = o
      BY <3>1, <3>2, <2>2, <1>8, <1>9, <1>11
    <3>3. CASE p # o
      BY <3>1, <3>3, <2>2, <1>11 DEF TodoIsFresh
    <3> QED BY <3>2, <3>3
  <2> QED BY <2>1, <2>2 DEF TodoIsFresh
<1>17. CycleIsBehind'
  BY <1>9, <1>11 DEF CycleIsBehind
<1> QED BY <1>12, <1>13, <1>14, <1>15, <1>16, <1>17

\* What is left of a sequence behind its head.
LEMMA TailOf ==
    ASSUME NEW S, NEW s \in Seq(S), Len(s) # 0, Len(s) # 1
    PROVE  /\ Tail(s) \in Seq(S) /\ Tail(s) # <<>>
           /\ \A i \in DOMAIN Tail(s) : i + 1 \in DOMAIN s /\ i # 0 /\ Tail(s)[i] = s[i + 1]
<1>0. Len(s) \in Nat /\ DOMAIN s = 1 .. Len(s)
  OBVIOUS
<1>1. Len(s) \in Nat /\ Len(s) > 1 /\ DOMAIN s = 1 .. Len(s)
  BY <1>0
<1>2. Tail(s) \in Seq(S) /\ Len(Tail(s)) = Len(s) - 1
  BY <1>1
<1>3. DOMAIN Tail(s) = 1 .. Len(s) - 1 /\ Tail(s) # <<>>
  BY SMTT(30), <1>1, <1>2
<1>4. \A i \in 1 .. Len(s) - 1 : Tail(s)[i] = s[i + 1]
  BY <1>1
<1> QED BY <1>1, <1>2, <1>3, <1>4

\* The operator goes on with the rest of its list, or is done.
LEMMA NextHypothesisStep ==
    ASSUME HuntInv, NEW o \in Operators, operator[o].pc = "validating",
           NextHypothesis(o) \/ operator' = [operator EXCEPT ![o] = Unoccupied]
    PROVE  /\ operator' \in [Operators -> HuntOperator]
           /\ \A p \in Operators : p # o => operator'[p] = operator[p]
           /\ operator'[o].graph.edge \subseteq graph.edge
           /\ operator'[o].pc = "validating" => operator'[o].todo # <<>>
           /\ \A i \in DOMAIN operator'[o].todo :
                 i + 1 \in DOMAIN operator[o].todo /\ i # 0
                 /\ operator'[o].todo[i] = operator[o].todo[i + 1]
<1>1. operator \in [Operators -> HuntOperator] /\ operator[o].todo # <<>>
      /\ operator[o].graph.edge \subseteq graph.edge
  BY DEF HuntInv, HuntTypeOK, CycleIsBehind
<1>2. operator[o] \in HuntOperator /\ operator[o].todo \in Seq(Nat)
      /\ Len(operator[o].todo) \in Nat \ {0}
  BY <1>1 DEF HuntOperator
<1>3. CASE operator' = [operator EXCEPT ![o] = Unoccupied]
  BY <1>1, <1>3, UnoccupiedType DEF Unoccupied, NoFacts
<1>4. CASE operator' = [operator EXCEPT ![o] = [operator[o] EXCEPT !.todo = Tail(@)]]
           /\ Len(operator[o].todo) # 1
  <2> DEFINE todo == operator[o].todo
             now == [operator[o] EXCEPT !.todo = Tail(todo)]
  <2>1. Tail(todo) \in Seq(Nat) /\ Tail(todo) # <<>>
        /\ \A i \in DOMAIN Tail(todo) :
              i + 1 \in DOMAIN todo /\ i # 0 /\ Tail(todo)[i] = todo[i + 1]
    BY <1>2, <1>4, TailOf
  <2>2. now \in HuntOperator /\ now.todo = Tail(todo) /\ now.graph = operator[o].graph
    <3> HIDE DEF todo
    <3> QED BY <1>2, <2>1 DEF HuntOperator
  <2> HIDE DEF now
  <2>3. operator' = [operator EXCEPT ![o] = now]
    BY <1>4 DEF now
  <2>4. operator'[o] = now
    BY <2>3, <1>1
  <2> HIDE DEF todo
  <2>5. \A p \in Operators : p # o => operator'[p] = operator[p]
    BY <2>3, <1>1
  <2>6. operator' \in [Operators -> HuntOperator]
    BY <2>2, <2>3, <1>1
  <2> QED BY <1>1, <2>1, <2>2, <2>4, <2>5, <2>6 DEF todo
<1> QED BY <1>3, <1>4 DEF NextHypothesis

\* A validation that raises leaves nothing.
LEMMA ValidateRaises ==
    ASSUME HuntInv, NEW o \in Operators, operator[o].pc = "validating",
           operator' = [operator EXCEPT ![o] = Unoccupied],
           UNCHANGED <<graph, hyps, queue, approval, breaker, standing, interruptions>>
    PROVE  HuntInv'
<1>1. operator' \in [Operators -> HuntOperator]
      /\ \A p \in Operators : operator'[p] = operator[p] \/ operator'[p] = Unoccupied
  BY UnoccupiedType DEF HuntInv, HuntTypeOK
<1> QED BY <1>1, HuntInvKept DEF HuntInv, HuntTypeOK, CycleIsBehind, Unoccupied, NoFacts

\* What the events of the head of a list, and the item that goes with them, do to the
\* parts of the invariant.
LEMMA ValidateStores ==
    ASSUME HuntInv, NEW o \in Operators, operator[o].pc = "validating", NextHypothesis(o),
           NEW h, h = Head(operator[o].todo), NEW events, events = Events(operator[o].graph, h),
           hyps' = [hyps EXCEPT ![h].events = @ \cup events],
           IF "HUNT_TIER_V3_QUEUED" \in events
           THEN /\ queue' = Append(queue, [hyp |-> h, state |-> "PENDING"])
                /\ approval' = Append(approval, "NONE")
           ELSE UNCHANGED <<queue, approval>>,
           UNCHANGED <<graph, breaker, standing, interruptions>>
    PROVE  HuntInv'
<1> USE DEF HuntInv
<1> DEFINE queued == "HUNT_TIER_V3_QUEUED" \in events
           Item == [hyp: Nat, state: {"PENDING", "APPROVED"}]
           item == [hyp |-> h, state |-> "PENDING"]
<1>1. /\ hyps \in Seq(HuntHypothesis) /\ queue \in Seq(Item)
      /\ approval \in Seq({"NONE", "APPROVED", "REJECTED"}) /\ Len(approval) = Len(queue)
  BY DEF HuntTypeOK, ItemsDecided
<1>2. 1 \in DOMAIN operator[o].todo /\ h = operator[o].todo[1]
  <2>1. operator[o].todo \in Seq(Nat) /\ operator[o].todo # <<>>
    BY DEF HuntTypeOK, HuntOperator, CycleIsBehind
  <2> QED BY <2>1
<1>3. h \in DOMAIN hyps /\ hyps[h].events = {} /\ h \in Nat
  BY <1>1, <1>2 DEF TodoIsFresh
<1>4. events \in SUBSET TierEvents
  BY EventsOf
<1>5. /\ hyps' \in Seq(HuntHypothesis) /\ DOMAIN hyps' = DOMAIN hyps
      /\ \A g \in DOMAIN hyps : hyps'[g].node = hyps[g].node /\ hyps'[g].family = hyps[g].family
      /\ \A g \in DOMAIN hyps : hyps'[g].events = IF g = h THEN events ELSE hyps[g].events
  <2> DEFINE changed == [hyps[h] EXCEPT !.events = @ \cup events]
  <2>1. hyps[h] \in HuntHypothesis
    BY <1>1, <1>3
  <2>2. changed \in HuntHypothesis /\ changed.events = events
        /\ changed.node = hyps[h].node /\ changed.family = hyps[h].family
    BY <2>1, <1>3, <1>4 DEF HuntHypothesis
  <2>3. hyps' = [hyps EXCEPT ![h] = changed]
    OBVIOUS
  <2> HIDE DEF changed
  <2> QED BY <1>1, <1>3, <2>2, <2>3
<1>6. \A g \in DOMAIN hyps : RowOf(g)' = RowOf(g)
  BY <1>5 DEF RowOf
<1>7. /\ operator' \in [Operators -> HuntOperator]
      /\ \A p \in Operators : p # o => operator'[p] = operator[p]
      /\ operator'[o].graph.edge \subseteq graph.edge
      /\ operator'[o].pc = "validating" => operator'[o].todo # <<>>
      /\ \A i \in DOMAIN operator'[o].todo :
            i + 1 \in DOMAIN operator[o].todo /\ i # 0
            /\ operator'[o].todo[i] = operator[o].todo[i + 1]
  BY NextHypothesisStep
<1>8. item \in Item
  BY <1>3
<1>9. /\ queue' \in Seq(Item)
      /\ approval' \in Seq({"NONE", "APPROVED", "REJECTED"}) /\ Len(approval') = Len(queue')
      /\ \A q \in DOMAIN queue : q \in DOMAIN queue' /\ queue'[q] = queue[q]
                                 /\ approval'[q] = approval[q]
      /\ \A q \in DOMAIN queue' \ DOMAIN queue :
            queued /\ queue'[q] = item /\ q = Len(queue) + 1
      /\ queued => Len(queue) + 1 \in DOMAIN queue' /\ queue'[Len(queue) + 1] = item
  <2> HIDE DEF Item, item
  <2>1. CASE queued
    <3>1. queue' = Append(queue, item) /\ approval' = Append(approval, "NONE")
      BY <2>1 DEF item
    <3>2. queue' \in Seq(Item) /\ Len(queue') = Len(queue) + 1 /\ queue'[Len(queue) + 1] = item
          /\ \A q \in 1 .. Len(queue) : queue'[q] = queue[q]
      BY <1>1, <1>8, <3>1
    <3>3. approval' \in Seq({"NONE", "APPROVED", "REJECTED"})
          /\ Len(approval') = Len(approval) + 1
          /\ \A q \in 1 .. Len(approval) : approval'[q] = approval[q]
      BY <1>1, <3>1
    <3>4. DOMAIN queue = 1 .. Len(queue) /\ DOMAIN queue' = 1 .. Len(queue) + 1
          /\ Len(queue) \in Nat
      BY <1>1, <3>2
    <3> QED BY <1>1, <2>1, <3>2, <3>3, <3>4
  <2>2. CASE ~queued
    BY <1>1, <2>2
  <2> QED BY <2>1, <2>2
<1>10. \A q \in DOMAIN queue : queue[q].hyp # h
  BY <1>3 DEF ItemsAreEvents
<1>11. HuntTypeOK'
  BY <1>5, <1>7, <1>9 DEF HuntTypeOK
<1>12. ItemsDecided'
  <2>1. item.state # "APPROVED"
    OBVIOUS
  <2> HIDE DEF item
  <2> QED BY <1>9, <2>1 DEF ItemsDecided
<1>13. ItemsAreEvents'
  <2>1. item.hyp = h
    OBVIOUS
  <2> HIDE DEF item
  <2>2. \A q \in DOMAIN queue' :
          /\ queue'[q].hyp \in DOMAIN hyps'
          /\ "HUNT_TIER_V3_QUEUED" \in hyps'[queue'[q].hyp].events
    BY <1>3, <1>5, <1>9, <1>10, <2>1 DEF ItemsAreEvents
  <2>3. \A p, q \in DOMAIN queue' : queue'[p].hyp = queue'[q].hyp => p = q
    BY <1>9, <1>10, <2>1 DEF ItemsAreEvents
  <2>4. ASSUME NEW g \in DOMAIN hyps', "HUNT_TIER_V3_QUEUED" \in hyps'[g].events
        PROVE  \E q \in DOMAIN queue' : queue'[q].hyp = g
    <3>1. CASE g = h
      BY <3>1, <2>1, <2>4, <1>3, <1>5, <1>9
    <3>2. CASE g # h
      <4>1. PICK q \in DOMAIN queue : queue[q].hyp = g
        BY <3>2, <2>4, <1>5 DEF ItemsAreEvents
      <4> QED BY <4>1, <1>9
    <3> QED BY <3>1, <3>2
  <2> QED BY <2>2, <2>3, <2>4 DEF ItemsAreEvents
<1>14. QueuedHasPassed'
  <2>1. ASSUME NEW g \in DOMAIN hyps, "HUNT_TIER_V3_QUEUED" \in hyps'[g].events
        PROVE  /\ {"HUNT_TIER_V1_PASSED", "HUNT_TIER_V2_PASSED"} \subseteq hyps'[g].events
               /\ RowOf(g).needs => hyps[g].node \in graph.edge
    <3>1. CASE g = h
      <4>1. PassesV2(operator[o].graph, h)
            /\ {"HUNT_TIER_V1_PASSED", "HUNT_TIER_V2_PASSED"} \subseteq events
        BY <3>1, <2>1, <1>5, EventsOf
      <4> QED BY <3>1, <4>1, <1>3, <1>5 DEF PassesV2, CycleIsBehind
    <3>2. CASE g # h
      BY <3>2, <2>1, <1>5 DEF QueuedHasPassed
    <3> QED BY <3>1, <3>2
  <2> QED BY <2>1, <1>5, <1>6 DEF QueuedHasPassed
<1>15. TodoIsFresh'
  <2>1. ASSUME NEW p \in Operators, NEW i \in DOMAIN operator'[p].todo
        PROVE  \E k \in DOMAIN operator[p].todo :
                  /\ operator'[p].todo[i] = operator[p].todo[k]
                  /\ k = IF p = o THEN i + 1 ELSE i
                  /\ p = o => i # 0
    BY <2>1, <1>7
  <2>2. ASSUME NEW p \in Operators, NEW i \in DOMAIN operator'[p].todo
        PROVE  /\ operator'[p].todo[i] \in DOMAIN hyps /\ operator'[p].todo[i] # h
               /\ hyps[operator'[p].todo[i]].events = {}
    <3>1. operator'[p].todo \in Seq(Nat)
      BY <1>7 DEF HuntOperator
    <3>2. i \in Nat
      BY <3>1
    <3>3. PICK k \in DOMAIN operator[p].todo :
            /\ operator'[p].todo[i] = operator[p].todo[k]
            /\ k = IF p = o THEN i + 1 ELSE i
            /\ p = o => i # 0
      BY <2>1
    <3>4. p = o => k # 1
      BY <3>2, <3>3
    <3> QED BY <3>3, <3>4, <1>2 DEF TodoIsFresh
  <2>3. ASSUME NEW p \in Operators, NEW q \in Operators,
               NEW i \in DOMAIN operator'[p].todo, NEW j \in DOMAIN operator'[q].todo,
               operator'[p].todo[i] = operator'[q].todo[j]
        PROVE  p = q /\ i = j
    <3>1. operator'[p].todo \in Seq(Nat) /\ operator'[q].todo \in Seq(Nat)
      BY <1>7 DEF HuntOperator
    <3>2. i \in Nat /\ j \in Nat
      BY SMTT(30), <3>1
    <3>3. PICK k \in DOMAIN operator[p].todo, l \in DOMAIN operator[q].todo :
            /\ operator'[p].todo[i] = operator[p].todo[k]
            /\ operator'[q].todo[j] = operator[q].todo[l]
            /\ k = IF p = o THEN i + 1 ELSE i
            /\ l = IF q = o THEN j + 1 ELSE j
      BY <2>1
    <3>4. operator[p].todo[k] = operator[q].todo[l]
      BY <2>3, <3>3
    <3>5. \A a, b \in Operators :
             \A c \in DOMAIN operator[a].todo, d \in DOMAIN operator[b].todo :
                operator[a].todo[c] = operator[b].todo[d] => a = b /\ c = d
      BY DEF TodoIsFresh
    <3>6. p = q /\ k = l
      BY <3>4, <3>5
    <3> QED BY <3>2, <3>3, <3>6
  <2> QED BY SMTT(30), <2>2, <2>3, <1>5 DEF TodoIsFresh
<1>16. CycleIsBehind'
  BY <1>7 DEF CycleIsBehind
<1> QED BY <1>11, <1>12, <1>13, <1>14, <1>15, <1>16

LEMMA ValidateStep ==
    ASSUME HuntInv, NEW o \in Operators, Validate(o)
    PROVE  HuntInv'
<1> DEFINE h == Head(operator[o].todo)
           events == Events(operator[o].graph, h)
<1>1. operator[o].pc = "validating" /\ UNCHANGED <<graph, breaker, standing, interruptions>>
  BY DEF Validate
<1>2. CASE operator' = [operator EXCEPT ![o] = Unoccupied] /\ UNCHANGED <<hyps, queue, approval>>
  BY <1>1, <1>2, ValidateRaises
<1>3. CASE /\ hyps' = [hyps EXCEPT ![h].events = @ \cup events]
           /\ IF "HUNT_TIER_V3_QUEUED" \in events
              THEN /\ queue' = Append(queue, [hyp |-> h, state |-> "PENDING"])
                   /\ approval' = Append(approval, "NONE")
              ELSE UNCHANGED <<queue, approval>>
           /\ NextHypothesis(o)
  BY <1>1, <1>3, ValidateStores
<1> QED BY <1>2, <1>3 DEF Validate

LEMMA HuntInvNext == HuntInv /\ [HuntNext]_huntVars => HuntInv'
<1> SUFFICES ASSUME HuntInv, [HuntNext]_huntVars PROVE HuntInv'
  OBVIOUS
<1>1. ASSUME NEW o \in Operators, CycleOfSchedule(o) PROVE HuntInv'
  <2>1. operator[o].schedule \in Seq(Cell)
    BY DEF HuntInv, HuntTypeOK, HuntOperator
  <2>2. Scheduled(operator[o].schedule, graph) \in Seq(Cell)
    BY <2>1, ScheduledType
  <2> QED BY <1>1, <2>2, GenerateStep DEF CycleOfSchedule
<1>2. ASSUME NEW o \in Operators, CycleOfGraph(o) PROVE HuntInv'
  BY <1>2, FromGraphType, GenerateStep DEF CycleOfGraph
<1>3. CASE UNCHANGED huntVars
  BY <1>3, HuntInvKept DEF huntVars, HuntInv, HuntTypeOK, CycleIsBehind
<1> QED
  BY <1>1, <1>2, <1>3, ObserveStep, ConnectStep, RecommendStep, InterruptStep,
     EvaluateFamilyStep, ReassessStep, DecideStep, ApproveStep, ValidateStep
     DEF HuntNext, Work

-----------------------------------------------------------------------------
(* The hunt: its properties.                                               *)

(* The state of the hunt keeps its types, and the queue, the decisions,    *)
(* the tier events and the lists of the cycles fit together.               *)
THEOREM HuntInvariant == HuntSpec => []HuntInv
BY HuntInvInit, HuntInvNext, PTL DEF HuntSpec

LEMMA QueueBacked == HuntInv => QueueIsBacked
<1> SUFFICES ASSUME HuntInv PROVE QueueIsBacked
  OBVIOUS
<1> USE DEF HuntInv
<1>1. ASSUME NEW q \in DOMAIN queue
      PROVE  LET h == queue[q].hyp IN
             /\ {"HUNT_TIER_V1_PASSED", "HUNT_TIER_V2_PASSED", "HUNT_TIER_V3_QUEUED"}
                  \subseteq hyps[h].events
             /\ RowOf(h).needs => hyps[h].node \in graph.edge
             /\ queue[q].state = "APPROVED" => approval[q] = "APPROVED"
  BY DEF ItemsAreEvents, QueuedHasPassed, ItemsDecided
<1>2. ASSUME NEW h \in DOMAIN hyps
      PROVE  Cardinality({q \in DOMAIN queue : queue[q].hyp = h})
               = IF "HUNT_TIER_V3_QUEUED" \in hyps[h].events THEN 1 ELSE 0
  <2> DEFINE items == {q \in DOMAIN queue : queue[q].hyp = h}
  <2>1. CASE "HUNT_TIER_V3_QUEUED" \in hyps[h].events
    <3>1. PICK q \in DOMAIN queue : queue[q].hyp = h
      BY <2>1 DEF ItemsAreEvents
    <3>2. items = {q}
      BY <3>1 DEF ItemsAreEvents
    <3> QED BY <2>1, <3>2, FS_Singleton
  <2>2. CASE "HUNT_TIER_V3_QUEUED" \notin hyps[h].events
    <3>1. items = {}
      BY <2>2 DEF ItemsAreEvents
    <3> QED BY <2>2, <3>1, FS_EmptySet
  <2> QED BY <2>1, <2>2
<1> QED BY <1>1, <1>2 DEF QueueIsBacked

(* An active experiment is queued once, for a hypothesis whose evidence is *)
(* in the graph, and released by an approval only, however many operators  *)
(* run cycles side by side and wherever one of them dies or raises         *)
(* (ValidateHuntTiers, _enqueue_v3, ApproveHuntV3Queue).                   *)
THEOREM QueueStaysBacked == HuntSpec => []QueueIsBacked
BY HuntInvariant, QueueBacked, PTL

\* An outcome that counts as a rejection is one of a hypothesis that was rejected.
LEMMA ThrottleIsDeserved ==
    ASSUME HuntInv, [HuntNext]_huntVars, NEW f \in Families,
           breaker'[f] = "THROTTLE", breaker[f] # "THROTTLE"
    PROVE  Throttles(Cardinality(RejectedHypotheses(f)), Cardinality(Validated(f)))
<1>1. breaker \in [Families -> {"NONE", "ALLOW", "THROTTLE"}] /\ hyps \in Seq(HuntHypothesis)
  BY DEF HuntInv, HuntTypeOK
<1>2. PICK g \in Families : EvaluateFamily(g)
  <2>1. breaker' # breaker
    OBVIOUS
  <2> QED BY <2>1 DEF HuntNext, huntVars, Work, Recommend, CycleOfSchedule, CycleOfGraph,
                      Validate, Interrupt, Reassess, Observe, Connect, Approve, Decide
<1>3. PICK outcome \in [Validated(g) -> {"PASSED", "REJECTED"}] :
        /\ \A h \in Validated(g) : outcome[h] \in LatestOutcomes(h)
        /\ breaker' = [breaker EXCEPT
              ![g] = IF Throttles(Cardinality({h \in Validated(g) : outcome[h] = "REJECTED"}),
                                  Cardinality(Validated(g)))
                     THEN "THROTTLE" ELSE "ALLOW"]
  BY <1>2 DEF EvaluateFamily
<1> DEFINE rejected == {h \in Validated(g) : outcome[h] = "REJECTED"}
<1>4. g = f /\ Throttles(Cardinality(rejected), Cardinality(Validated(f)))
  BY <1>1, <1>3
<1>5. rejected \in SUBSET RejectedHypotheses(f)
  BY <1>3, <1>4 DEF RejectedHypotheses, LatestOutcomes, Rejecting
<1>6. IsFiniteSet(Validated(f))
  <2>1. IsFiniteSet(1 .. Len(hyps)) /\ DOMAIN hyps = 1 .. Len(hyps)
    BY <1>1, FS_Interval
  <2>2. Validated(f) \in SUBSET DOMAIN hyps
    BY DEF Validated
  <2> QED BY <2>1, <2>2, FS_Subset
<1>7. IsFiniteSet(RejectedHypotheses(f))
  <2>1. RejectedHypotheses(f) \in SUBSET Validated(f)
    BY DEF RejectedHypotheses
  <2> QED BY <2>1, <1>6, FS_Subset
<1>8. /\ Cardinality(rejected) <= Cardinality(RejectedHypotheses(f))
      /\ Cardinality(rejected) \in Nat /\ Cardinality(RejectedHypotheses(f)) \in Nat
      /\ Cardinality(Validated(f)) \in Nat
  <2> HIDE DEF rejected
  <2> QED BY <1>5, <1>6, <1>7, FS_Subset, FS_CardinalityType
<1>9. MinimumSample \in Nat
  BY HuntAssumption
<1> HIDE DEF rejected
<1> QED BY <1>4, <1>8, <1>9 DEF Throttles

(* A family is throttled for rejections it had, whichever of the events of *)
(* one validation the random ids put last (EvaluateFamilyCircuitBreaker,   *)
(* evaluate_family_circuit_breaker).                                       *)
THEOREM ThrottleForRejectionsOnly == HuntSpec => ThrottledForRejections
<1>1. HuntInv /\ [HuntNext]_huntVars =>
        [\A f \in Families :
            breaker'[f] = "THROTTLE" /\ breaker[f] # "THROTTLE"
              => Throttles(Cardinality(RejectedHypotheses(f)), Cardinality(Validated(f)))]_huntVars
  BY ThrottleIsDeserved
<1> QED BY <1>1, HuntInvariant, PTL DEF HuntSpec, ThrottledForRejections

-----------------------------------------------------------------------------
(* Selection: its types.                                                   *)

HypothesisIds == Contexts \cup UNION {DOMAIN existing : existing \in Existing}

Actors ==
    {ActorOf[k] : k \in Contexts}
    \cup {VerifierOf[k].actor : k \in {c \in Contexts : VerifierOf[c] # Null}}

Resources ==
    {ResourceOf[k] : k \in Contexts}
    \cup {VerifierOf[k].resource : k \in {c \in Contexts : VerifierOf[c] # Null}}

Purposes == {"probe", "control", "reproduction"}

Identities == HypothesisFamilies \X {"control", "probe"} \X Origins \X Actors \X Resources

\* What an option of ResearchSelection is, as far as a probe is made of it.
OptionRow ==
    [hypothesis: HypothesisIds, family: HypothesisFamilies, purpose: Purposes,
     origin: Origins, actor: Actors, resource: Resources, resolves: BOOLEAN,
     control: BOOLEAN, signature: HypothesisFamilies \X Origins \X Resources,
     identity: Identities]

\* An option says of itself what the plan made of it will say.
IsSelf(o) ==
    /\ o.signature = <<o.family, o.origin, o.resource>>
    /\ o.identity = Identity(o.family, o.purpose = "control", o.origin, o.actor, o.resource)

ProbeRow ==
    [hypothesis: HypothesisIds, family: HypothesisFamilies, purpose: Purposes, actor: Actors,
     resource: Resources, signature: HypothesisFamilies \X Origins \X Resources,
     identity: Identities, state: {"PLANNED", "EXECUTION_SUCCEEDED"} \cup Unobserved,
     outcome: Outcomes \cup {Null}, cycle: Nat \cup {Null}]

SelectionTypeOK ==
    /\ run \in RunRow \cup {Null}
    /\ \E D \in SUBSET HypothesisIds :
          hypothesis \in [D -> [family: HypothesisFamilies, origin: Contexts \cup {Null}]]
    /\ opportunities \subseteq Identities
    /\ probes \in Seq(ProbeRow)
    /\ stepper.at \in {"unbound", "idle", "prepare", "execute", "evaluate", "close"}
    /\ stepper.at \in {"prepare", "execute", "evaluate"} =>
          stepper.option \in OptionRow /\ IsSelf(stepper.option)

-----------------------------------------------------------------------------
(* Selection: its invariant.                                               *)

\* What was probed was kept as selected before, and what is about to be is new.
SelectedFirst ==
    /\ \A i \in DOMAIN probes : probes[i].identity \in opportunities
    /\ stepper.at = "prepare" =>
          /\ stepper.option.identity \in opportunities
          /\ \A i \in DOMAIN probes : probes[i].identity # stepper.option.identity
    /\ ProbedOnce

\* A probe is of the resource that its signature names.
SignaturesName ==
    \A i \in DOMAIN probes : probes[i].signature[3] = probes[i].resource

\* The cycles of the probes are numbered in the order of the probes, and the step that
\* works on the last probe has not numbered it.
CyclesInOrder ==
    /\ run = Null => probes = <<>> /\ stepper.at = "unbound"
    /\ stepper.at \in {"execute", "evaluate", "close"} => probes # <<>>
    /\ \A i \in DOMAIN probes : probes[i].cycle # Null => probes[i].cycle <= run.cycle
    /\ \A i, j \in DOMAIN probes :
          i < j /\ probes[i].cycle # Null /\ probes[j].cycle # Null
             => probes[i].cycle < probes[j].cycle

\* A run that is over has stopped for a reason its portfolio still gives, and nothing
\* steps it.
StoppedForReason ==
    run # Null =>
        /\ run.state \in {"COMPLETED", "BUDGET_EXHAUSTED"} => stepper.at \in {"unbound", "idle"}
        /\ run.state \notin {"COMPLETED", "BUDGET_EXHAUSTED"} => run.stop \in {"OPERATOR_PAUSED", Null}
        /\ run.state = "COMPLETED" /\ run.stop # "MAX_CYCLES_REACHED" => Eligible = {}
        /\ run.stop = "SUFFICIENT_EVIDENCE_FOR_VERIFICATION" => With({"SUPPORTED"}) # {}
        /\ run.stop = "ALL_HYPOTHESES_FALSIFIED" => With({"FALSIFIED"}) = DOMAIN hypothesis

SelectionInv ==
    /\ SelectionTypeOK
    /\ SelectedFirst
    /\ SignaturesName
    /\ CyclesInOrder
    /\ StoppedForReason

-----------------------------------------------------------------------------
(* Selection: lemmas about its operators.                                  *)

\* The portfolio, and what is eligible, are functions of the rows.
LEMMA PortfolioKept ==
    ASSUME UNCHANGED <<hypothesis, opportunities, probes, seen>>
    PROVE  /\ \A states : With(states)' = With(states)
           /\ Eligible' = Eligible
           /\ SelectedFirst' <=>
                /\ \A i \in DOMAIN probes : probes[i].identity \in opportunities
                /\ stepper'.at = "prepare" =>
                      /\ stepper'.option.identity \in opportunities
                      /\ \A i \in DOMAIN probes : probes[i].identity # stepper'.option.identity
                /\ ProbedOnce
<1>1. \A h : Assessed(h)' = Assessed(h)
  BY DEF Assessed
<1>2. \A i : CycleOf(i)' = CycleOf(i)
  BY DEF CycleOf
<1>3. \A h : LatestOutcome(h)' = LatestOutcome(h)
  BY DEF LatestOutcome, Assessed, CycleOf
<1>4. \A k : Observed(k)' = Observed(k) /\ Unresolved(k)' = Unresolved(k)
             /\ ControlMissing(k)' = ControlMissing(k)
  BY DEF Observed, Unresolved, ControlMissing, Subject
<1>5. \A h, k : Binds(h, k)' = Binds(h, k)
  BY DEF Binds
<1>6. \A h : RemainingUntested(h)' = RemainingUntested(h)
  BY <1>4, <1>5 DEF RemainingUntested
<1>7. SupportedFamilies' = SupportedFamilies
  BY <1>3 DEF SupportedFamilies
<1>8. \A h : Lifecycle(h)' = Lifecycle(h)
  BY <1>3, <1>6, <1>7 DEF Lifecycle, CompetingSupported
<1>9. \A states : With(states)' = With(states)
  BY <1>8 DEF With
<1>10. \A h, k, origin : OptionsOn(h, k, origin)' = OptionsOn(h, k, origin)
  BY <1>4, <1>8, <1>9 DEF OptionsOn, Option, Open
<1>11. Options' = Options
  BY <1>5, <1>10 DEF Options
<1>12. ExecutedIdentities' = ExecutedIdentities /\ NegativeContexts' = NegativeContexts
  BY <1>8 DEF ExecutedIdentities, NegativeContexts
<1>13. Eligible' = Eligible
  BY <1>11, <1>12 DEF Eligible, LowInformation
<1> QED BY <1>9, <1>13 DEF SelectedFirst, ProbedOnce

LEMMA ProbesTyped ==
    ASSUME SelectionTypeOK
    PROVE  /\ DOMAIN probes = 1 .. Len(probes) /\ Len(probes) \in Nat
           /\ \A i \in DOMAIN probes : probes[i] \in ProbeRow
           /\ \A i \in DOMAIN probes : probes[i].cycle \in Nat \cup {Null}
           /\ \A i \in DOMAIN probes : probes[i].outcome \in Outcomes \cup {Null}
<1>1. probes \in Seq(ProbeRow)
  BY DEF SelectionTypeOK
<1>2. /\ DOMAIN probes = 1 .. Len(probes) /\ Len(probes) \in Nat
      /\ \A i \in DOMAIN probes : probes[i] \in ProbeRow
  BY <1>1
<1> QED BY <1>2 DEF ProbeRow

\* Of the assessments of a hypothesis there is a last one in the order of the code.
LEMMA LatestAssessment ==
    ASSUME SelectionTypeOK, CyclesInOrder, NEW h, Assessed(h) # {}
    PROVE  \E i \in Assessed(h) :
              /\ LatestOutcome(h) = probes[i].outcome
              /\ \A j \in Assessed(h) \ {i} :
                    CycleOf(j) < CycleOf(i) \/ (CycleOf(j) = CycleOf(i) /\ j < i)
<1> DEFINE S == Assessed(h)
           values == {CycleOf(i) : i \in S}
           last(i) == \A j \in S \ {i} :
                         CycleOf(j) < CycleOf(i) \/ (CycleOf(j) = CycleOf(i) /\ j < i)
<1>1. /\ S \subseteq DOMAIN probes /\ DOMAIN probes = 1 .. Len(probes) /\ Len(probes) \in Nat
      /\ run \in RunRow /\ run.cycle \in Nat /\ MaxCycles \in Nat
  <2>1. S \subseteq DOMAIN probes
    BY DEF Assessed
  <2>2. DOMAIN probes = 1 .. Len(probes) /\ Len(probes) \in Nat
    BY ProbesTyped
  <2>3. run # Null
    BY <2>1, <2>2 DEF CyclesInOrder
  <2>4. run \in RunRow
    BY <2>3 DEF SelectionTypeOK
  <2> QED BY <2>1, <2>2, <2>4, SelectionAssumption DEF RunRow
<1>2. \A i \in S : CycleOf(i) \in 0 .. run.cycle + MaxCycles + 1
  <2> TAKE i \in S
  <2>1. i \in DOMAIN probes
    BY <1>1
  <2>2. probes[i].cycle \in Nat \cup {Null}
    BY <2>1, ProbesTyped
  <2>3. probes[i].cycle # Null => probes[i].cycle <= run.cycle
    BY <2>1 DEF CyclesInOrder
  <2> QED BY <1>1, <2>2, <2>3 DEF CycleOf
<1>4. \E m \in values : \A v \in values : v <= m
  <2>1. values \in SUBSET (0 .. run.cycle + MaxCycles + 1) /\ values # {}
    BY <1>2
  <2>2. run.cycle + MaxCycles + 1 \in Nat
    BY <1>1
  <2> HIDE DEF values
  <2> QED BY <2>1, <2>2, GreatestNumber
<1>5. PICK m \in values : \A v \in values : v <= m
  BY <1>4
<1> DEFINE top == {i \in S : CycleOf(i) = m}
<1>6. PICK i \in top : \A j \in top : j <= i
  <2>1. top \in SUBSET (0 .. Len(probes)) /\ top # {}
    BY <1>1
  <2> HIDE DEF top
  <2> QED BY <2>1, <1>1, GreatestNumber
<1>7. i \in S /\ last(i)
  <2>1. i \in S /\ CycleOf(i) = m
    OBVIOUS
  <2>2. ASSUME NEW j \in S \ {i}
        PROVE  CycleOf(j) < CycleOf(i) \/ (CycleOf(j) = CycleOf(i) /\ j < i)
    <3>1. CycleOf(j) <= m /\ CycleOf(j) \in Int /\ m \in Int
      BY <1>2, <1>5
    <3>2. CASE CycleOf(j) = m
      <4>1. j \in top
        BY <3>2
      <4>2. j <= i /\ j # i /\ j \in Int /\ i \in Int
        BY <4>1, <1>1, <1>6
      <4> QED BY <3>2, <2>1, <4>2
    <3>3. CASE CycleOf(j) # m
      BY <3>1, <3>3, <2>1
    <3> QED BY <3>2, <3>3
  <2> QED BY <2>1, <2>2
<1>8. LatestOutcome(h) = probes[CHOOSE j \in S : last(j)].outcome
  BY DEF LatestOutcome
<1>9. (CHOOSE j \in S : last(j)) \in S /\ last(CHOOSE j \in S : last(j))
  <2> HIDE DEF S, last
  <2> QED BY <1>7
<1> QED BY <1>8, <1>9

\* Where no cycle was lost, the last in the order of the code is the last in time.
LEMMA LatestIsLastWord ==
    ASSUME SelectionTypeOK, CyclesInOrder, NEW h,
           \A i \in DOMAIN probes : probes[i].outcome # Null => probes[i].cycle # Null
    PROVE  LatestOutcome(h) = LastWord(h)
<1> DEFINE S == Assessed(h)
<1>1. CASE S = {}
  BY <1>1 DEF LatestOutcome, LastWord
<1>2. CASE S # {}
  <2>1. PICK i \in S :
          /\ LatestOutcome(h) = probes[i].outcome
          /\ \A j \in S \ {i} : CycleOf(j) < CycleOf(i) \/ (CycleOf(j) = CycleOf(i) /\ j < i)
    BY <1>2, LatestAssessment
  <2>2. S \subseteq DOMAIN probes /\ S \subseteq Nat
    BY ProbesTyped DEF Assessed
  <2>3. \A j \in S : CycleOf(j) = probes[j].cycle /\ probes[j].cycle # Null
                     /\ probes[j].cycle \in Nat
    BY <2>2, ProbesTyped DEF Assessed, CycleOf
  <2>4. \A j \in S : j <= i
    <3> SUFFICES ASSUME NEW j \in S, ~(j <= i) PROVE FALSE
      OBVIOUS
    <3>1. i \in Nat /\ j \in Nat /\ i < j /\ j # i
      BY <2>2
    <3>2. CycleOf(i) < CycleOf(j) /\ CycleOf(i) \in Nat /\ CycleOf(j) \in Nat
      BY <2>2, <2>3, <3>1 DEF CyclesInOrder
    <3>3. CycleOf(j) < CycleOf(i) \/ (CycleOf(j) = CycleOf(i) /\ j < i)
      BY <2>1, <3>1
    <3> QED BY <3>2, <3>3
  <2>5. (CHOOSE k \in S : \A j \in S : j <= k) = i
    <3>1. \A k \in S : (\A j \in S : j <= k) => k = i
      BY <2>2, <2>4
    <3> HIDE DEF S
    <3> QED BY <2>4, <3>1
  <2> QED BY <1>2, <2>1, <2>5 DEF LastWord
<1> QED BY <1>1, <1>2

\* What the states of a hypothesis say of its latest outcome.
LEMMA LifecycleSays ==
    ASSUME NEW h
    PROVE  /\ Lifecycle(h) = "SUPPORTED" => LatestOutcome(h) = "CONSISTENT_WITH_PREDICTION"
           /\ Lifecycle(h) = "FALSIFIED" =>
                LatestOutcome(h) = "CONTRADICTS_PREDICTION" /\ ~RemainingUntested(h)
<1>1. Null # "CONTRADICTS_PREDICTION" /\ Null # "CONSISTENT_WITH_PREDICTION"
      /\ Null # "INCONCLUSIVE"
  BY SelectionAssumption DEF Outcomes
<1>2. CASE LatestOutcome(h) = Null
  BY <1>1, <1>2 DEF Lifecycle
<1>3. CASE LatestOutcome(h) = "CONTRADICTS_PREDICTION"
  BY <1>1, <1>3 DEF Lifecycle
<1>4. CASE LatestOutcome(h) = "CONSISTENT_WITH_PREDICTION"
  BY <1>1, <1>4 DEF Lifecycle
<1>5. CASE LatestOutcome(h) = "INCONCLUSIVE"
  BY <1>1, <1>5 DEF Lifecycle
<1>6. CASE LatestOutcome(h) \notin {Null, "CONTRADICTS_PREDICTION", "CONSISTENT_WITH_PREDICTION",
                                   "INCONCLUSIVE"}
  BY <1>6 DEF Lifecycle
<1> QED BY <1>2, <1>3, <1>4, <1>5, <1>6

LEMMA HypothesesTyped ==
    ASSUME SelectionTypeOK
    PROVE  \A h \in DOMAIN hypothesis :
              h \in HypothesisIds /\ hypothesis[h].family \in HypothesisFamilies
BY DEF SelectionTypeOK

LEMMA OptionType ==
    ASSUME SelectionTypeOK, NEW h \in DOMAIN hypothesis, NEW origin \in Origins,
           NEW purpose \in Purposes, NEW actor \in Actors, NEW resource \in Resources,
           NEW resolves \in BOOLEAN, NEW control \in BOOLEAN
    PROVE  /\ Option(h, origin, purpose, actor, resource, resolves, control) \in OptionRow
           /\ IsSelf(Option(h, origin, purpose, actor, resource, resolves, control))
<1>1. h \in HypothesisIds /\ hypothesis[h].family \in HypothesisFamilies
  BY HypothesesTyped
<1>2. Identity(hypothesis[h].family, purpose = "control", origin, actor, resource) \in Identities
  BY <1>1 DEF Identity, Identities
<1> QED BY <1>1, <1>2 DEF Option, OptionRow, IsSelf, OptionIdentity

LEMMA OptionsType ==
    ASSUME SelectionTypeOK, NEW o \in Options
    PROVE  o \in OptionRow /\ IsSelf(o)
<1>1. PICK h \in DOMAIN hypothesis, k \in Contexts, origin \in Origins :
        o \in OptionsOn(h, k, origin)
  BY DEF Options
<1>2. Unresolved(k) \in BOOLEAN /\ ControlMissing(k) \in BOOLEAN
  BY DEF Unresolved, ControlMissing
<1>3. ActorOf[k] \in Actors /\ ResourceOf[k] \in Resources
      /\ (VerifierOf[k] # Null =>
             VerifierOf[k].actor \in Actors /\ VerifierOf[k].resource \in Resources)
  BY DEF Actors, Resources
<1>4. \/ o = Option(h, origin, "probe", ActorOf[k], ResourceOf[k], Unresolved(k), FALSE)
      \/ o = Option(h, origin, "control", ActorOf[k], ResourceOf[k], FALSE, ControlMissing(k))
      \/ /\ VerifierOf[k] # Null
         /\ o = Option(h, origin, "reproduction", VerifierOf[k].actor, VerifierOf[k].resource,
                       FALSE, FALSE)
  BY <1>1 DEF OptionsOn
<1>5. {"probe", "control", "reproduction"} \subseteq Purposes /\ TRUE \in BOOLEAN /\ FALSE \in BOOLEAN
  BY DEF Purposes
<1>6. CASE o = Option(h, origin, "probe", ActorOf[k], ResourceOf[k], Unresolved(k), FALSE)
  BY <1>2, <1>3, <1>5, <1>6, OptionType
<1>7. CASE o = Option(h, origin, "control", ActorOf[k], ResourceOf[k], FALSE, ControlMissing(k))
  BY <1>2, <1>3, <1>5, <1>7, OptionType
<1>8. CASE /\ VerifierOf[k] # Null
           /\ o = Option(h, origin, "reproduction", VerifierOf[k].actor,
                         VerifierOf[k].resource, FALSE, FALSE)
  BY <1>3, <1>5, <1>8, OptionType
<1> QED BY <1>4, <1>6, <1>7, <1>8

-----------------------------------------------------------------------------
(* Selection: the invariant is inductive.                                  *)

Over == {"COMPLETED", "BUDGET_EXHAUSTED"}

\* A row of a run that is not over has no reason to stop but the operator's, so nothing
\* that happens to the portfolio matters to it.
LEMMA NotOver ==
    ASSUME run' \in RunRow, run'.state \notin Over, run'.stop \in {"OPERATOR_PAUSED", Null}
    PROVE  StoppedForReason'
BY SelectionAssumption DEF StoppedForReason, Over, StopReasons

LEMMA RunTyped ==
    ASSUME SelectionInv, run # Null
    PROVE  /\ run \in RunRow /\ run.cycle \in Nat
           /\ run.state \notin Over => run.stop \in {"OPERATOR_PAUSED", Null}
BY DEF SelectionInv, SelectionTypeOK, RunRow, StoppedForReason, Over

\* A process that is in a step has a run that is not over.
LEMMA InStep ==
    ASSUME SelectionInv, stepper.at \notin {"unbound", "idle"}
    PROVE  run # Null /\ run \in RunRow /\ run.state \notin Over
           /\ run.stop \in {"OPERATOR_PAUSED", Null}
BY RunTyped DEF SelectionInv, CyclesInOrder, StoppedForReason, Over

LEMMA SelectionInvInit == SelectionInit => SelectionInv
<1> SUFFICES ASSUME SelectionInit PROVE SelectionInv
  OBVIOUS
<1> USE DEF SelectionInit
<1>1. \E D \in SUBSET HypothesisIds :
         hypothesis \in [D -> [family: HypothesisFamilies, origin: Contexts \cup {Null}]]
  <2>1. DOMAIN hypothesis \in SUBSET HypothesisIds
    BY DEF HypothesisIds
  <2> QED BY <2>1, SelectionAssumption
<1>2. SelectionTypeOK
  BY <1>1 DEF SelectionTypeOK
<1>3. SelectedFirst /\ SignaturesName /\ CyclesInOrder /\ StoppedForReason
  BY DEF SelectedFirst, ProbedOnce, SignaturesName, CyclesInOrder, StoppedForReason
<1> QED BY <1>2, <1>3 DEF SelectionInv

LEMMA StartStep ==
    ASSUME SelectionInv, Start
    PROVE  SelectionInv'
<1> USE DEF SelectionInv, Start
<1>1. run = Null /\ probes = <<>> /\ probes' = <<>> /\ stepper'.at = "idle"
      /\ opportunities' = opportunities
  BY DEF CyclesInOrder
<1>2. run' \in RunRow /\ run' # Null
  BY SelectionAssumption DEF RunRow, StopReasons
<1>3. \E D \in SUBSET HypothesisIds :
         hypothesis' \in [D -> [family: HypothesisFamilies, origin: Contexts \cup {Null}]]
  <2>1. CASE UNCHANGED hypothesis
    BY <2>1 DEF SelectionTypeOK
  <2>2. CASE hypothesis' = [k \in Contexts |-> [family |-> FamilyOf[k], origin |-> k]]
    <3>1. Contexts \in SUBSET HypothesisIds
      BY DEF HypothesisIds
    <3>2. \A k \in Contexts : FamilyOf[k] \in HypothesisFamilies
      BY SelectionAssumption DEF HypothesisFamilies
    <3> QED BY <2>2, <3>1, <3>2
  <2> QED BY <2>1, <2>2
<1>4. SelectionTypeOK'
  BY <1>1, <1>2, <1>3 DEF SelectionTypeOK
<1>5. SelectedFirst' /\ SignaturesName' /\ CyclesInOrder'
  BY <1>1, <1>2 DEF SelectedFirst, ProbedOnce, SignaturesName, CyclesInOrder
<1>6. StoppedForReason'
  BY <1>1, SelectionAssumption DEF StoppedForReason, StopReasons
<1> QED BY <1>4, <1>5, <1>6

\* The run stops, and its portfolio stays what it was.
LEMMA StopRunStep ==
    ASSUME SelectionInv, Stepping, NEW reason \in StopReasons, StopRun(reason),
           \/ reason \in {"MAX_CYCLES_REACHED", "BUDGET_EXHAUSTED"}
           \/ /\ Eligible = {}
              /\ reason = "SUFFICIENT_EVIDENCE_FOR_VERIFICATION" => With({"SUPPORTED"}) # {}
              /\ reason = "ALL_HYPOTHESES_FALSIFIED" => With({"FALSIFIED"}) = DOMAIN hypothesis
    PROVE  SelectionInv'
<1> USE DEF SelectionInv
<1>1. run \in RunRow /\ run # Null /\ stepper.at = "idle"
  BY RunTyped DEF Stepping
<1>2. UNCHANGED <<hypothesis, opportunities, probes, seen, stepper>>
  BY DEF StopRun
<1>3. /\ run' \in RunRow /\ run' # Null /\ run'.cycle = run.cycle /\ run'.stop = reason
      /\ run'.state = IF reason = "BUDGET_EXHAUSTED" THEN reason ELSE "COMPLETED"
  BY <1>1, SelectionAssumption DEF StopRun, RunRow
<1>4. SelectionTypeOK'
  BY <1>2, <1>3 DEF SelectionTypeOK
<1>5. SelectedFirst' /\ SignaturesName' /\ CyclesInOrder'
  BY <1>1, <1>2, <1>3 DEF SelectedFirst, ProbedOnce, SignaturesName, CyclesInOrder
<1>6. \A states : With(states)' = With(states)
  BY <1>2, PortfolioKept
<1>7. Eligible' = Eligible
  BY <1>2, PortfolioKept
<1>8. StoppedForReason'
  BY <1>1, <1>2, <1>3, <1>6, <1>7 DEF StoppedForReason
<1> QED BY <1>4, <1>5, <1>8

LEMMA SelectStep ==
    ASSUME SelectionInv, Select
    PROVE  SelectionInv'
<1> USE DEF SelectionInv
<1>1. Stepping
  BY DEF Select
<1>2. CASE BoundReached # Null /\ StopRun(BoundReached)
  <2>1. BoundReached \in {"MAX_CYCLES_REACHED", "BUDGET_EXHAUSTED"}
    BY <1>2 DEF BoundReached
  <2> QED BY <1>1, <1>2, <2>1, StopRunStep DEF StopReasons
<1>3. CASE Eligible = {} /\ StopRun(StopReason)
  <2>1. /\ StopReason \in StopReasons
        /\ StopReason = "SUFFICIENT_EVIDENCE_FOR_VERIFICATION" => With({"SUPPORTED"}) # {}
        /\ StopReason = "ALL_HYPOTHESES_FALSIFIED" => With({"FALSIFIED"}) = DOMAIN hypothesis
    BY DEF StopReason, StopReasons
  <2> QED BY <1>1, <1>3, <2>1, StopRunStep
<1>4. ASSUME NEW o \in Selected,
             opportunities' = opportunities \cup {o.identity},
             stepper' = [at |-> "prepare", pause |-> stepper.pause, option |-> o],
             UNCHANGED <<run, hypothesis, probes, seen, deaths>>
      PROVE  SelectionInv'
  <2>1. o \in OptionRow /\ IsSelf(o) /\ o.identity \notin ExecutedIdentities
    BY OptionsType DEF Selected, Eligible
  <2>2. o.identity \in Identities /\ stepper'.at = "prepare" /\ stepper'.option = o
    BY <1>4, <2>1 DEF OptionRow
  <2>3. SelectionTypeOK'
    BY <1>4, <2>1, <2>2 DEF SelectionTypeOK
  <2>4. SelectedFirst'
    BY <1>4, <2>1, <2>2 DEF SelectedFirst, ProbedOnce, ExecutedIdentities
  <2>5. SignaturesName' /\ CyclesInOrder'
    BY <1>1, <1>4, <2>2 DEF SignaturesName, CyclesInOrder, Stepping
  <2>6. StoppedForReason'
    <3>1. run \in RunRow /\ run.state \notin Over /\ run.stop \in {"OPERATOR_PAUSED", Null}
      BY <1>1, RunTyped DEF Stepping, Over
    <3> QED BY <1>4, <3>1, NotOver
  <2> QED BY <2>3, <2>4, <2>5, <2>6
<1> QED BY <1>1, <1>2, <1>3, <1>4 DEF Select

\* The plan of the selected option is a new probe with the option's identity.
LEMMA PrepareStep ==
    ASSUME SelectionInv, Prepare
    PROVE  SelectionInv'
<1> USE DEF SelectionInv
<1> DEFINE o == stepper.option
           probe == [hypothesis |-> o.hypothesis, family |-> o.family, purpose |-> o.purpose,
                     actor |-> o.actor, resource |-> o.resource, signature |-> o.signature,
                     identity |-> Identity(o.family, o.purpose = "control", o.origin, o.actor,
                                           o.resource),
                     state |-> "PLANNED", outcome |-> Null, cycle |-> Null]
           n == Len(probes) + 1
<1>1. stepper.at = "prepare" /\ o \in OptionRow /\ IsSelf(o)
  BY DEF Prepare, SelectionTypeOK
<1>2. /\ probe \in ProbeRow /\ probe.identity = o.identity /\ probe.cycle = Null
      /\ probe.signature[3] = probe.resource
  <2>1. probe.identity = o.identity /\ probe.signature = <<o.family, o.origin, o.resource>>
    BY <1>1 DEF IsSelf
  <2>2. probe \in ProbeRow
    BY <1>1, <2>1 DEF OptionRow, ProbeRow, IsSelf
  <2> QED BY <2>1, <2>2
<1>3. probes' = Append(probes, probe)
  BY DEF Prepare
<1> HIDE DEF probe
<1>4. /\ probes' \in Seq(ProbeRow) /\ DOMAIN probes = 1 .. Len(probes) /\ Len(probes) \in Nat
      /\ DOMAIN probes' = 1 .. n /\ probes'[n] = probe
      /\ \A i \in 1 .. Len(probes) : probes'[i] = probes[i]
  <2>1. probes \in Seq(ProbeRow)
    BY DEF SelectionTypeOK
  <2> QED BY <1>2, <1>3, <2>1
<1>5. /\ \A i \in DOMAIN probes' : i = n \/ (i \in DOMAIN probes /\ probes'[i] = probes[i])
      /\ n \notin DOMAIN probes /\ probes' # <<>>
  <2>1. \A i \in 1 .. n : i = n \/ i \in 1 .. Len(probes)
    BY <1>4
  <2> QED BY <1>4, <2>1
<1> HIDE DEF n
<1>6. stepper' = [at |-> "execute", pause |-> stepper.pause, option |-> o]
      /\ UNCHANGED <<run, hypothesis, opportunities, seen>>
  BY DEF Prepare
<1>7. SelectionTypeOK'
  BY <1>1, <1>4, <1>6 DEF SelectionTypeOK
<1>8. SelectedFirst'
  <2>1. o.identity \in opportunities /\ \A i \in DOMAIN probes : probes[i].identity # o.identity
    BY <1>1 DEF SelectedFirst
  <2>4. ProbedOnce'
    BY <1>2, <1>4, <1>5, <2>1 DEF SelectedFirst, ProbedOnce
  <2> QED BY <1>2, <1>4, <1>5, <1>6, <2>1, <2>4 DEF SelectedFirst
<1>9. SignaturesName'
  BY <1>2, <1>4, <1>5 DEF SignaturesName
<1>10. CyclesInOrder'
  <2>1. probes'[n].cycle = probe.cycle
    BY <1>4
  <2>2. probes'[n].cycle = Null
    BY <1>2, <2>1
  <2>3. run # Null
    BY <1>1, InStep
  <2>4. \A i \in DOMAIN probes' : probes'[i].cycle # Null =>
           i \in DOMAIN probes /\ probes'[i] = probes[i]
    BY <1>5, <2>2
  <2>5. run' = run /\ stepper'.at = "execute"
    BY <1>6
  <2> HIDE DEF o
  <2> QED BY <1>5, <2>3, <2>4, <2>5 DEF CyclesInOrder
<1>11. StoppedForReason'
  BY <1>1, <1>6, InStep, NotOver
<1> QED BY <1>7, <1>8, <1>9, <1>10, <1>11

\* A step that works on the last probe leaves what identifies it.
LEMMA LastProbeChanges ==
    ASSUME SelectionInv, probes # <<>>, NEW probe \in ProbeRow,
           probes' = [probes EXCEPT ![LastProbe] = probe],
           probe.identity = probes[LastProbe].identity,
           probe.signature = probes[LastProbe].signature,
           probe.resource = probes[LastProbe].resource,
           opportunities' = opportunities, stepper'.at # "prepare"
    PROVE  /\ probes' \in Seq(ProbeRow) /\ probes' # <<>>
           /\ DOMAIN probes' = DOMAIN probes /\ LastProbe \in DOMAIN probes
           /\ \A i \in DOMAIN probes : i <= LastProbe
           /\ \A i \in DOMAIN probes :
                 probes'[i] = IF i = LastProbe THEN probe ELSE probes[i]
           /\ SelectedFirst'
           /\ SignaturesName'
<1> USE DEF SelectionInv
<1>1. probes \in Seq(ProbeRow)
  BY DEF SelectionTypeOK
<1>2. LastProbe \in DOMAIN probes /\ \A i \in DOMAIN probes : i <= LastProbe
  BY <1>1 DEF LastProbe
<1>3. /\ probes' \in Seq(ProbeRow) /\ DOMAIN probes' = DOMAIN probes
      /\ \A i \in DOMAIN probes : probes'[i] = IF i = LastProbe THEN probe ELSE probes[i]
  BY <1>1, <1>2
<1>4. probes' # <<>>
  BY <1>2, <1>3
<1>5. SelectedFirst'
  BY <1>2, <1>3 DEF SelectedFirst, ProbedOnce
<1>6. SignaturesName'
  BY <1>2, <1>3 DEF SignaturesName
<1> QED BY <1>2, <1>3, <1>4, <1>5, <1>6

\* Execution and evaluation: the cycle of the last probe stays what it is.
LEMMA StepOnLastProbe ==
    ASSUME SelectionInv, stepper.at \in {"execute", "evaluate"}, NEW probe \in ProbeRow,
           probes' = [probes EXCEPT ![LastProbe] = probe],
           probe.identity = probes[LastProbe].identity,
           probe.signature = probes[LastProbe].signature,
           probe.resource = probes[LastProbe].resource,
           probe.cycle = probes[LastProbe].cycle,
           UNCHANGED <<run, hypothesis, opportunities>>,
           \/ stepper'.at = "close"
           \/ stepper'.at = "evaluate" /\ stepper'.option = stepper.option
    PROVE  SelectionInv'
<1> USE DEF SelectionInv
<1>1. probes # <<>> /\ run # Null
  BY InStep DEF CyclesInOrder
<1>2. /\ probes' \in Seq(ProbeRow) /\ probes' # <<>>
      /\ DOMAIN probes' = DOMAIN probes /\ LastProbe \in DOMAIN probes
      /\ \A i \in DOMAIN probes : probes'[i] = IF i = LastProbe THEN probe ELSE probes[i]
      /\ SelectedFirst' /\ SignaturesName'
  BY <1>1, LastProbeChanges
<1>3. SelectionTypeOK'
  BY <1>2 DEF SelectionTypeOK
<1>4. \A i \in DOMAIN probes : probes'[i].cycle = probes[i].cycle
  BY <1>2
<1>5. CyclesInOrder'
  BY <1>1, <1>2, <1>4 DEF CyclesInOrder
<1>6. StoppedForReason'
  BY InStep, NotOver
<1> QED BY <1>2, <1>3, <1>5, <1>6

LEMMA ExecuteStep ==
    ASSUME SelectionInv, Execute
    PROVE  SelectionInv'
<1>1. stepper.at = "execute" /\ UNCHANGED <<run, hypothesis, opportunities>>
  BY DEF Execute
<1>2. PICK state \in {"EXECUTION_SUCCEEDED"} \cup Unobserved :
        probes' = [probes EXCEPT ![LastProbe].state = state]
  BY DEF Execute
<1>3. \/ stepper'.at = "close"
      \/ stepper'.at = "evaluate" /\ stepper'.option = stepper.option
  BY DEF Execute
<1>4. probes[LastProbe] \in ProbeRow
  <2>1. probes \in Seq(ProbeRow) /\ probes # <<>>
    BY <1>1 DEF SelectionInv, SelectionTypeOK, CyclesInOrder
  <2> QED BY <2>1 DEF LastProbe
<1> DEFINE probe == [probes[LastProbe] EXCEPT !.state = state]
<1>5. /\ probe \in ProbeRow /\ probe.identity = probes[LastProbe].identity
      /\ probe.signature = probes[LastProbe].signature
      /\ probe.resource = probes[LastProbe].resource /\ probe.cycle = probes[LastProbe].cycle
  BY <1>4 DEF ProbeRow
<1>6. probes' = [probes EXCEPT ![LastProbe] = probe]
  BY <1>2
<1> HIDE DEF probe
<1> QED BY <1>1, <1>3, <1>5, <1>6, StepOnLastProbe

LEMMA EvaluateStep ==
    ASSUME SelectionInv, Evaluate
    PROVE  SelectionInv'
<1>1. stepper.at = "evaluate" /\ UNCHANGED <<run, hypothesis, opportunities>>
      /\ stepper'.at = "close"
  BY DEF Evaluate
<1>2. PICK outcome \in Outcomes : probes' = [probes EXCEPT ![LastProbe].outcome = outcome]
  BY DEF Evaluate
<1>3. probes[LastProbe] \in ProbeRow
  <2>1. probes \in Seq(ProbeRow) /\ probes # <<>>
    BY <1>1 DEF SelectionInv, SelectionTypeOK, CyclesInOrder
  <2> QED BY <2>1 DEF LastProbe
<1> DEFINE probe == [probes[LastProbe] EXCEPT !.outcome = outcome]
<1>4. /\ probe \in ProbeRow /\ probe.identity = probes[LastProbe].identity
      /\ probe.signature = probes[LastProbe].signature
      /\ probe.resource = probes[LastProbe].resource /\ probe.cycle = probes[LastProbe].cycle
  BY <1>3 DEF ProbeRow
<1>5. probes' = [probes EXCEPT ![LastProbe] = probe]
  BY <1>2
<1> HIDE DEF probe
<1> QED BY <1>1, <1>4, <1>5, StepOnLastProbe

\* The cycle that closes is later than all that have, and is the last probe's.
LEMMA CloseStep ==
    ASSUME SelectionInv, Close
    PROVE  SelectionInv'
<1> USE DEF SelectionInv
<1> DEFINE cycle == run.cycle + 1
<1>1. /\ stepper.at = "close" /\ stepper'.at = "idle"
      /\ UNCHANGED <<hypothesis, opportunities, seen>>
      /\ probes' = [probes EXCEPT ![LastProbe].cycle = cycle]
      /\ run'.cycle = cycle /\ run'.state \in {"PAUSED", "RUNNING"}
      /\ run'.stop \in {"OPERATOR_PAUSED", Null}
      /\ run' = [state |-> run'.state, cycle |-> cycle, stop |-> run'.stop]
  BY DEF Close, Waiting
<1>2. run # Null /\ run.cycle \in Nat /\ probes # <<>>
  BY <1>1, InStep DEF CyclesInOrder, RunRow
<1>3. run' \in RunRow /\ run' # Null
  BY <1>1, <1>2, SelectionAssumption DEF RunRow, StopReasons
<1>4. probes[LastProbe] \in ProbeRow
  <2>1. probes \in Seq(ProbeRow)
    BY DEF SelectionTypeOK
  <2> QED BY <1>2, <2>1 DEF LastProbe
<1> DEFINE probe == [probes[LastProbe] EXCEPT !.cycle = cycle]
<1>5. /\ probe \in ProbeRow /\ probe.identity = probes[LastProbe].identity
      /\ probe.signature = probes[LastProbe].signature
      /\ probe.resource = probes[LastProbe].resource /\ probe.cycle = cycle
  BY <1>2, <1>4 DEF ProbeRow
<1>6. probes' = [probes EXCEPT ![LastProbe] = probe]
  BY <1>1
<1> HIDE DEF probe
<1>7. /\ probes' \in Seq(ProbeRow) /\ probes' # <<>>
      /\ DOMAIN probes' = DOMAIN probes /\ LastProbe \in DOMAIN probes
      /\ \A i \in DOMAIN probes : i <= LastProbe
      /\ \A i \in DOMAIN probes : probes'[i] = IF i = LastProbe THEN probe ELSE probes[i]
      /\ SelectedFirst' /\ SignaturesName'
  BY <1>1, <1>2, <1>5, <1>6, LastProbeChanges
<1>8. SelectionTypeOK'
  BY <1>1, <1>3, <1>7 DEF SelectionTypeOK
<1>9. CyclesInOrder'
  <2>1. \A i \in DOMAIN probes : probes[i].cycle # Null =>
           probes[i].cycle \in Nat /\ probes[i].cycle <= run.cycle
    BY ProbesTyped DEF CyclesInOrder
  <2>2. \A i \in DOMAIN probes' : probes'[i].cycle # Null =>
           /\ probes'[i].cycle \in Nat /\ probes'[i].cycle <= cycle
           /\ i # LastProbe => probes'[i].cycle = probes[i].cycle /\ probes'[i].cycle < cycle
           /\ i = LastProbe => probes'[i].cycle = cycle
    BY <1>2, <1>5, <1>7, <2>1
  <2>3. DOMAIN probes \subseteq Nat
    BY ProbesTyped
  <2>4. ASSUME NEW i \in DOMAIN probes', NEW j \in DOMAIN probes', i < j,
               probes'[i].cycle # Null, probes'[j].cycle # Null
        PROVE  probes'[i].cycle < probes'[j].cycle
    <3>1. i # LastProbe
      BY <1>7, <2>3, <2>4
    <3>2. CASE j = LastProbe
      BY <2>2, <2>4, <3>1, <3>2
    <3>3. CASE j # LastProbe
      BY <1>7, <2>2, <2>4, <3>1, <3>3 DEF CyclesInOrder
    <3> QED BY <3>2, <3>3
  <2> QED BY <1>1, <1>3, <2>2, <2>4 DEF CyclesInOrder
<1>10. StoppedForReason'
  BY <1>1, <1>3, NotOver DEF Over
<1> QED BY <1>7, <1>8, <1>9, <1>10

\* Between steps the process may change, and a paused run be taken up again.
LEMMA BetweenSteps ==
    ASSUME SelectionInv, UNCHANGED <<hypothesis, opportunities, probes, seen>>,
           stepper'.at \in {"idle", "unbound"}, run = Null => stepper'.at = "unbound",
           run' = run \/ (run # Null /\ run.state = "PAUSED"
                           /\ run' = [run EXCEPT !.state = "RUNNING", !.stop = Null])
    PROVE  SelectionInv'
<1> USE DEF SelectionInv
<1>1. (run' = Null <=> run = Null) /\ (run # Null => run' \in RunRow /\ run'.cycle = run.cycle)
  BY RunTyped, SelectionAssumption DEF RunRow
<1>2. SelectionTypeOK'
  BY <1>1 DEF SelectionTypeOK
<1>3. SelectedFirst' /\ SignaturesName'
  BY DEF SelectedFirst, ProbedOnce, SignaturesName
<1>4. CyclesInOrder'
  BY <1>1 DEF CyclesInOrder
<1>5. StoppedForReason'
  <2>1. CASE run' = run
    <3>1. Eligible' = Eligible
      BY PortfolioKept
    <3>2. \A states : With(states)' = With(states)
      BY PortfolioKept
    <3> QED BY <2>1, <3>1, <3>2 DEF StoppedForReason
  <2>2. CASE run # Null /\ run' = [run EXCEPT !.state = "RUNNING", !.stop = Null]
    <3>1. run' \in RunRow /\ run'.state = "RUNNING" /\ run'.stop = Null
      BY <1>1, <2>2, RunTyped DEF RunRow
    <3> QED BY <3>1, NotOver DEF Over
  <2> QED BY <2>1, <2>2
<1> QED BY <1>2, <1>3, <1>4, <1>5

LEMMA SelectionInvNext == SelectionInv /\ [SelectionNext]_selectionVars => SelectionInv'
<1> SUFFICES ASSUME SelectionInv, [SelectionNext]_selectionVars PROVE SelectionInv'
  OBVIOUS
<1>1. CASE Resume
  BY <1>1, BetweenSteps DEF Resume, Waiting
<1>2. CASE ProcessDies
  BY <1>2, BetweenSteps DEF ProcessDies
<1>3. CASE UNCHANGED selectionVars
  <2>1. Eligible' = Eligible
    BY <1>3, PortfolioKept DEF selectionVars
  <2>2. \A states : With(states)' = With(states)
    BY <1>3, PortfolioKept DEF selectionVars
  <2> QED
    BY <1>3, <2>1, <2>2 DEF selectionVars, SelectionInv, SelectionTypeOK, SelectedFirst,
       ProbedOnce, SignaturesName, CyclesInOrder, StoppedForReason
<1> QED
  BY <1>1, <1>2, <1>3, StartStep, SelectStep, PrepareStep, ExecuteStep, EvaluateStep, CloseStep
     DEF SelectionNext


-----------------------------------------------------------------------------
(* Selection: what the invariant says.                                     *)

\* The invariant holds of every run of the selection loop, whatever its contexts, its
\* options, its bounds and the moments at which its process dies.
THEOREM SelectionInvariant == SelectionSpec => []SelectionInv
BY SelectionInvInit, SelectionInvNext, PTL DEF SelectionSpec

\* No two experiments of a run put the same question: an opportunity is kept in the
\* transaction that selects, and nothing kept is eligible again.
THEOREM QuestionsPutOnce == SelectionSpec => []ProbedOnce
<1>1. SelectionInv => ProbedOnce
  BY DEF SelectionInv, SelectedFirst
<1> QED BY <1>1, SelectionInvariant, PTL

LEMMA VerdictFromInvariant == SelectionInv => VerdictStands
<1> SUFFICES ASSUME SelectionInv, run # Null,
                    \A i \in DOMAIN probes :
                       probes[i].outcome # Null => probes[i].cycle # Null
             PROVE  /\ run.stop = "SUFFICIENT_EVIDENCE_FOR_VERIFICATION" =>
                         \E h \in DOMAIN hypothesis :
                            LastWord(h) = "CONSISTENT_WITH_PREDICTION"
                    /\ run.stop = "ALL_HYPOTHESES_FALSIFIED" =>
                         \A h \in DOMAIN hypothesis :
                            /\ LastWord(h) = "CONTRADICTS_PREDICTION"
                            /\ \A k \in Contexts : Binds(h, k) => Observed(k)
  BY DEF VerdictStands
<1>1. \A h : LatestOutcome(h) = LastWord(h)
  BY LatestIsLastWord DEF SelectionInv
<1>2. ASSUME run.stop = "SUFFICIENT_EVIDENCE_FOR_VERIFICATION"
      PROVE  \E h \in DOMAIN hypothesis : LastWord(h) = "CONSISTENT_WITH_PREDICTION"
  <2>1. PICK h \in DOMAIN hypothesis : Lifecycle(h) = "SUPPORTED"
    BY <1>2 DEF SelectionInv, StoppedForReason, With
  <2> QED BY <1>1, <2>1, LifecycleSays
<1>3. ASSUME run.stop = "ALL_HYPOTHESES_FALSIFIED", NEW h \in DOMAIN hypothesis
      PROVE  /\ LastWord(h) = "CONTRADICTS_PREDICTION"
             /\ \A k \in Contexts : Binds(h, k) => Observed(k)
  <2>1. Lifecycle(h) = "FALSIFIED"
    BY <1>3 DEF SelectionInv, StoppedForReason, With
  <2>2. LatestOutcome(h) = "CONTRADICTS_PREDICTION" /\ ~RemainingUntested(h)
    BY <2>1, LifecycleSays
  <2> QED BY <1>1, <2>2 DEF RemainingUntested
<1> QED BY <1>2, <1>3

\* The reason a run stopped for agrees with the last word on its hypotheses, as long as
\* no cycle was lost.
THEOREM VerdictsStand == SelectionSpec => []VerdictStands
BY SelectionInvariant, VerdictFromInvariant, PTL

\* What may be asked and is not eligible was selected before, or tells nothing.
LEMMA NotEligible ==
    ASSUME SelectionInv, Eligible = {}, NEW h \in DOMAIN hypothesis, NEW k \in Contexts,
           Binds(h, k), NEW o \in OptionsOn(h, k, AuthorizedOrigin),
           o.origin = AuthorizedOrigin
    PROVE  o.identity \in opportunities \/ LowInformation(o)
<1>1. o \in Options
  <2> DEFINE x == <<h, k, AuthorizedOrigin>>
  <2>1. x \in {y \in (DOMAIN hypothesis) \X Contexts \X Origins : Binds(y[1], y[2])}
    BY SelectionAssumption
  <2>2. OptionsOn(x[1], x[2], x[3]) = OptionsOn(h, k, AuthorizedOrigin)
    OBVIOUS
  <2> HIDE DEF x
  <2> QED BY <2>1, <2>2 DEF Options
<1>2. ExecutedIdentities \subseteq opportunities
  BY DEF SelectionInv, SelectedFirst, ExecutedIdentities
<1> QED BY <1>1, <1>2 DEF Eligible

\* Where a probe tells nothing, another hypothesis was probed there and is refuted.
LEMMA RefutedElsewhere ==
    ASSUME SelectionInv, NEW h \in Open, NEW o, LowInformation(o),
           o.signature = <<o.family, o.origin, o.resource>>
    PROVE  \A k \in Contexts : ResourceOf[k] = o.resource => RefutedBeside(h, k)
<1>1. PICK j \in DOMAIN probes :
        Lifecycle(probes[j].hypothesis) = "FALSIFIED" /\ probes[j].signature = o.signature
  BY DEF LowInformation, NegativeContexts
<1> DEFINE g == probes[j].hypothesis
<1>2. LatestOutcome(g) = "CONTRADICTS_PREDICTION"
  BY <1>1, LifecycleSays
<1>3. Assessed(g) # {}
  BY <1>2, SelectionAssumption DEF LatestOutcome, Outcomes
<1>4. PICK i \in Assessed(g) : LatestOutcome(g) = probes[i].outcome
  <2> HIDE DEF g
  <2> QED BY <1>3, LatestAssessment DEF SelectionInv
<1>5. i \in DOMAIN probes /\ probes[i].hypothesis = g
  BY <1>4 DEF Assessed
<1>6. g # h
  BY <1>1 DEF Open, With
<1>7. probes[j].resource = o.resource
  <2>1. probes[j].signature[3] = probes[j].resource
    BY DEF SelectionInv, SignaturesName
  <2> QED BY <1>1, <2>1
<1> QED BY <1>2, <1>4, <1>5, <1>6, <1>7 DEF RefutedBeside

\* A question that a run at its end has, was selected.
LEMMA QuestionsSelected ==
    ASSUME SelectionInv, Eligible = {}
    PROVE  Questions \subseteq opportunities
<1> SUFFICES ASSUME NEW h \in DOMAIN hypothesis, NEW k \in Contexts, Binds(h, k)
             PROVE  QuestionsOn(h, k) \subseteq opportunities
  BY DEF Questions
<1> DEFINE ask(control, actor, resource) ==
              Identity(FamilyOf[k], control, AuthorizedOrigin, actor, resource)
           option(purpose, actor, resource, resolves, control) ==
              Option(h, AuthorizedOrigin, purpose, actor, resource, resolves, control)
<1>1. hypothesis[h].family = FamilyOf[k]
  BY DEF Binds
<1> HIDE DEF option
<1>2. ASSUME h \in Open
      PROVE  ask(TRUE, ActorOf[k], ResourceOf[k]) \in opportunities
  <2> DEFINE o == option("control", ActorOf[k], ResourceOf[k], FALSE, ControlMissing(k))
  <2>1. o \in OptionsOn(h, k, AuthorizedOrigin)
    BY <1>2 DEF OptionsOn, option
  <2>2. o.origin = AuthorizedOrigin /\ o.purpose = "control"
        /\ o.identity = ask(TRUE, ActorOf[k], ResourceOf[k])
    BY <1>1 DEF option, Option, OptionIdentity
  <2> HIDE DEF o
  <2>3. ~LowInformation(o)
    BY <2>2 DEF LowInformation
  <2> QED BY <2>1, <2>2, <2>3, NotEligible
<1>3. ASSUME h \in Open, ~RefutedBeside(h, k)
      PROVE  ask(FALSE, ActorOf[k], ResourceOf[k]) \in opportunities
  <2> DEFINE o == option("probe", ActorOf[k], ResourceOf[k], Unresolved(k), FALSE)
  <2>1. o \in OptionsOn(h, k, AuthorizedOrigin)
    BY <1>3 DEF OptionsOn, option
  <2>2. o.origin = AuthorizedOrigin /\ o.resource = ResourceOf[k]
        /\ o.signature = <<o.family, o.origin, o.resource>>
        /\ o.identity = ask(FALSE, ActorOf[k], ResourceOf[k])
    BY <1>1 DEF option, Option, OptionIdentity
  <2> HIDE DEF o
  <2>3. ~LowInformation(o)
    BY <1>3, <2>2, RefutedElsewhere
  <2> QED BY <2>1, <2>2, <2>3, NotEligible
<1>4. ASSUME Lifecycle(h) = "SUPPORTED", VerifierOf[k] # Null
      PROVE  ask(FALSE, VerifierOf[k].actor, VerifierOf[k].resource) \in opportunities
  <2> DEFINE o == option("reproduction", VerifierOf[k].actor, VerifierOf[k].resource, FALSE,
                         FALSE)
  <2>1. o \in OptionsOn(h, k, AuthorizedOrigin)
    BY <1>4 DEF OptionsOn, option
  <2>2. o.origin = AuthorizedOrigin /\ o.purpose = "reproduction"
        /\ o.identity = ask(FALSE, VerifierOf[k].actor, VerifierOf[k].resource)
    BY <1>1 DEF option, Option, OptionIdentity
  <2> HIDE DEF o
  <2>3. ~LowInformation(o)
    BY <2>2 DEF LowInformation
  <2> QED BY <2>1, <2>2, <2>3, NotEligible
<1> QED BY <1>2, <1>3, <1>4 DEF QuestionsOn

\* What was selected, never put, and is not about to be.
LostQuestions ==
    {q \in opportunities \ QuestionsPut :
        stepper.at = "prepare" => q # stepper.option.identity}

\* A death loses one question at most.
LostOnlyWithDeaths ==
    deaths \in Nat /\ IsFiniteSet(LostQuestions) /\ Cardinality(LostQuestions) <= deaths

LEMMA LosesNone ==
    ASSUME LostOnlyWithDeaths, LostQuestions' \subseteq LostQuestions, deaths' = deaths
    PROVE  LostOnlyWithDeaths'
<1>1. IsFiniteSet(LostQuestions') /\ Cardinality(LostQuestions') <= Cardinality(LostQuestions)
  BY FS_Subset DEF LostOnlyWithDeaths
<1>2. Cardinality(LostQuestions') \in Nat /\ Cardinality(LostQuestions) \in Nat
  BY <1>1, FS_CardinalityType DEF LostOnlyWithDeaths
<1> QED BY <1>1, <1>2 DEF LostOnlyWithDeaths

\* No step takes back a question that was put.
LEMMA PutStaysPut ==
    ASSUME SelectionInv, Execute \/ Evaluate \/ Close
    PROVE  QuestionsPut' = QuestionsPut
<1>1. probes \in Seq(ProbeRow) /\ stepper.at \in {"execute", "evaluate", "close"}
  BY DEF SelectionInv, SelectionTypeOK, Execute, Evaluate, Close
<1>2. /\ DOMAIN probes' = DOMAIN probes
      /\ \A i \in DOMAIN probes : probes'[i].identity = probes[i].identity
  <2>1. PICK probe :
           /\ probes' = [probes EXCEPT ![LastProbe] = probe]
           /\ probe.identity = probes[LastProbe].identity
    <3>1. probes # <<>> /\ probes[LastProbe] \in ProbeRow
      BY <1>1 DEF SelectionInv, CyclesInOrder, LastProbe
    <3>2. \/ \E state : probes' = [probes EXCEPT ![LastProbe].state = state]
          \/ \E outcome : probes' = [probes EXCEPT ![LastProbe].outcome = outcome]
          \/ \E cycle : probes' = [probes EXCEPT ![LastProbe].cycle = cycle]
      BY DEF Execute, Evaluate, Close
    <3> QED BY <3>1, <3>2 DEF ProbeRow
  <2> QED BY <2>1
<1> QED BY <1>2 DEF QuestionsPut

LEMMA LostInit == SelectionInit => LostOnlyWithDeaths
<1> SUFFICES ASSUME SelectionInit PROVE LostOnlyWithDeaths
  OBVIOUS
<1>1. LostQuestions = {} /\ deaths = 0
  BY DEF SelectionInit, LostQuestions
<1> QED BY <1>1, FS_EmptySet DEF LostOnlyWithDeaths

LEMMA LostNext ==
    ASSUME SelectionInv, LostOnlyWithDeaths, [SelectionNext]_selectionVars
    PROVE  LostOnlyWithDeaths'
<1>1. CASE Start
  <2>1. stepper.at = "unbound" /\ stepper'.at = "idle" /\ deaths' = deaths
        /\ UNCHANGED <<opportunities, probes>>
    BY <1>1 DEF Start, SelectionInv, CyclesInOrder
  <2> QED BY <2>1, LosesNone DEF LostQuestions, QuestionsPut
<1>2. CASE Select
  <2>1. stepper.at = "idle" /\ UNCHANGED <<probes, deaths>>
    BY <1>2 DEF Select, Stepping, StopRun
  <2>2. \/ UNCHANGED <<opportunities, stepper>>
        \/ \E o : /\ opportunities' = opportunities \cup {o.identity}
                  /\ stepper'.at = "prepare" /\ stepper'.option = o
    BY <1>2 DEF Select, StopRun
  <2>3. LostQuestions' \subseteq LostQuestions
    BY <2>1, <2>2 DEF LostQuestions, QuestionsPut
  <2> QED BY <2>1, <2>3, LosesNone
<1>3. CASE Prepare
  <2> DEFINE n == Len(probes) + 1
  <2>1. /\ stepper.at = "prepare" /\ stepper'.at = "execute" /\ IsSelf(stepper.option)
        /\ UNCHANGED <<opportunities, deaths>> /\ probes \in Seq(ProbeRow)
    BY <1>3 DEF Prepare, SelectionInv, SelectionTypeOK
  <2>2. \E probe : probes' = Append(probes, probe) /\ probe.identity = stepper.option.identity
    BY <1>3, <2>1 DEF Prepare, IsSelf
  <2>3. /\ DOMAIN probes \subseteq DOMAIN probes' /\ n \in DOMAIN probes'
        /\ \A i \in DOMAIN probes : probes'[i] = probes[i]
        /\ probes'[n].identity = stepper.option.identity
    BY <2>1, <2>2
  <2> HIDE DEF n
  <2>4. QuestionsPut \subseteq QuestionsPut' /\ stepper.option.identity \in QuestionsPut'
    BY <2>3 DEF QuestionsPut
  <2>5. LostQuestions' \subseteq LostQuestions
    BY <2>1, <2>4 DEF LostQuestions
  <2> QED BY <2>1, <2>5, LosesNone
<1>4. CASE Execute \/ Evaluate \/ Close
  <2>1. stepper.at # "prepare" /\ stepper'.at # "prepare" /\ UNCHANGED <<opportunities, deaths>>
    BY <1>4 DEF Execute, Evaluate, Close, Waiting
  <2>2. LostQuestions' \subseteq LostQuestions
    BY <1>4, <2>1, PutStaysPut DEF LostQuestions
  <2> QED BY <2>1, <2>2, LosesNone
<1>5. CASE Resume
  <2>1. stepper.at # "prepare" /\ stepper'.at # "prepare"
        /\ UNCHANGED <<opportunities, probes, deaths>>
    BY <1>5 DEF Resume, Waiting
  <2> QED BY <2>1, LosesNone DEF LostQuestions, QuestionsPut
<1>6. CASE ProcessDies
  <2> DEFINE more == LostQuestions \cup {stepper.option.identity}
  <2>1. UNCHANGED <<opportunities, probes>> /\ deaths' = deaths + 1 /\ deaths \in Nat
        /\ IsFiniteSet(LostQuestions) /\ Cardinality(LostQuestions) <= deaths
    BY <1>6 DEF ProcessDies, LostOnlyWithDeaths
  <2>2. LostQuestions' \subseteq more
    BY <2>1 DEF LostQuestions, QuestionsPut
  <2>3. /\ IsFiniteSet(more) /\ Cardinality(LostQuestions) \in Nat
        /\ Cardinality(more) = Cardinality(LostQuestions)
           \/ Cardinality(more) = Cardinality(LostQuestions) + 1
    BY <2>1, FS_AddElement, FS_CardinalityType
  <2> HIDE DEF more
  <2>4. IsFiniteSet(LostQuestions') /\ Cardinality(LostQuestions') <= Cardinality(more)
    BY <2>2, <2>3, FS_Subset
  <2>5. Cardinality(LostQuestions') \in Nat
    BY <2>4, FS_CardinalityType
  <2> QED BY <2>1, <2>3, <2>4, <2>5 DEF LostOnlyWithDeaths
<1>7. CASE UNCHANGED selectionVars
  BY <1>7, LosesNone DEF selectionVars, LostQuestions, QuestionsPut
<1> QED BY <1>1, <1>2, <1>3, <1>4, <1>5, <1>6, <1>7 DEF SelectionNext

LEMMA NothingLeftFromInvariant ==
    SelectionInv /\ LostOnlyWithDeaths => NothingLeftUntried
<1> SUFFICES ASSUME SelectionInv, LostOnlyWithDeaths, run # Null, run.state = "COMPLETED",
                    run.stop # "MAX_CYCLES_REACHED"
             PROVE  Cardinality(Questions \ QuestionsPut) <= deaths
  BY DEF NothingLeftUntried
<1>1. Eligible = {} /\ stepper.at \in {"unbound", "idle"}
  BY DEF SelectionInv, StoppedForReason
<1>2. Questions \ QuestionsPut \subseteq LostQuestions
  BY <1>1, QuestionsSelected DEF LostQuestions
<1>3. /\ IsFiniteSet(Questions \ QuestionsPut)
      /\ Cardinality(Questions \ QuestionsPut) <= Cardinality(LostQuestions)
  BY <1>2, FS_Subset DEF LostOnlyWithDeaths
<1>4. Cardinality(Questions \ QuestionsPut) \in Nat /\ Cardinality(LostQuestions) \in Nat
  BY <1>3, FS_CardinalityType DEF LostOnlyWithDeaths
<1> QED BY <1>3, <1>4 DEF LostOnlyWithDeaths

\* A run that stops by itself has put every question it has in an experiment, but for one
\* at most of each death of its process, or knows the answer of another hypothesis that
\* was refuted there.
THEOREM NoQuestionLeft == SelectionSpec => []NothingLeftUntried
<1>1. SelectionSpec => []LostOnlyWithDeaths
  BY SelectionInvariant, LostInit, LostNext, PTL DEF SelectionSpec
<1> QED BY <1>1, SelectionInvariant, NothingLeftFromInvariant, PTL

-----------------------------------------------------------------------------
(* Reasoning: its types.                                                   *)

OwnIds(r) == [run: {r}, kind: Kinds, n: Nat]

OwnIdsOrNone(r) == OwnIds(r) \cup {None}

ItemClasses ==
    {"AUTHORITATIVE_FACT", "PROCEDURAL", "OBSERVATION", "HYPOTHESIS", "DERIVED_FACT",
     "NEGATIVE_EVIDENCE", "INFERRED", "UNTRUSTED_EXTERNAL"}

ItemsOf(r) == [id: OwnIds(r), class: ItemClasses, references: SUBSET OwnIds(r)]

\* A context of a run holds items of the run only.
ContextsOf(r) ==
    [items: SUBSET ItemsOf(r), omitted: SUBSET OwnIds(r), truncated: SUBSET OwnIds(r)]

Answered(r, role) == {result \in Results(r, role) : result.error = None}

HypothesisRows(r) ==
    [id: OwnIds(r), claim: {result.output.claim : result \in Answered(r, "GENERATOR")},
     origin: OwnIds(r)]

ReasoningRows(r) ==
    [id: OwnIds(r), role: {"GENERATOR", "FALSIFIER"}, hypothesis: OwnIdsOrNone(r),
     fingerprint: ContextsOf(r),
     output: {result.output :
                 result \in Answered(r, "GENERATOR") \cup Answered(r, "FALSIFIER")}]

Decisions ==
    [outcome: {"ADMITTED", "REJECTED_UNTESTABLE", "REJECTED_POLICY_CONFLICT",
               "REJECTED_UNSUPPORTED", "NEEDS_MORE_CONTEXT", "MODEL_INVOCATION_FAILED"},
     reason: {"ADMITTED", "INVALID_STRUCTURED_OUTPUT", "POLICY_CONFLICT",
              "NO_SOURCE_REFERENCES", "HALLUCINATED_SOURCE", "UNSUPPORTED_CONTEXT",
              "MISSING_ALTERNATIVE_EXPLANATION", "MODEL_INVOCATION_FAILED",
              "CONTENT_POLICY_BLOCKED"}]

AdmissionRows(r) ==
    [outcome: {d.outcome : d \in Decisions}, reason: {d.reason : d \in Decisions},
     fingerprint: ContextsOf(r), generator: OwnIdsOrNone(r),
     falsifier: OwnIdsOrNone(r), hypothesis: OwnIdsOrNone(r)]

ExperimentRows(r) ==
    [id: OwnIds(r), hypothesis: OwnIds(r),
     state: {"PLANNED", "OUTCOME_RECORDED", "EXECUTION_FAILED", "BLOCKED", "UNKNOWN_OUTCOME"}]

ReasonsToStop ==
    {"BUDGET_EXHAUSTED", "COMPLETED_NO_MORE_OPPORTUNITIES", "CONTENT_POLICY_BLOCKED",
     "NO_COMPATIBLE_RUNTIME", "AUTH_REQUIRED", "RATE_LIMITED", "CANCELLED",
     "OPERATIONAL_FAILURE", "CORE_BLOCKED", "REQUIRE_HUMAN_REVIEW", "MAX_CYCLES_REACHED"}

StatesAtRest ==
    {"BUDGET_EXHAUSTED", "FAILED_OPERATIONAL", "WAITING_HUMAN", "BLOCKED", "COMPLETED"}

RunRows(r) ==
    [state: {"READY", "RUNNING"} \cup StatesAtRest,
     phase: {"CYCLE_READY", "OPPORTUNITY_SELECTED", "HYPOTHESIS_ADMITTED",
             "EXPERIMENT_PLANNED", "CYCLE_COMPLETE"},
     cycle: OwnIdsOrNone(r), opportunity: OwnIdsOrNone(r),
     hypothesis: OwnIdsOrNone(r), experiment: OwnIdsOrNone(r),
     stop: ReasonsToStop \cup {None}]

Asking == {"ask", "call", "in", "out", "answer"}

Controls(r) ==
    [pc: {"idle", "context"} \cup Asking, role: {"GENERATOR", "FALSIFIER", None},
     cycle: OwnIdsOrNone(r), opportunity: OwnIdsOrNone(r), context: ContextsOf(r) \cup {None},
     generated: Answered(r, "GENERATOR") \cup {None},
     result: Results(r, "GENERATOR") \cup Results(r, "FALSIFIER") \cup {None}]

-----------------------------------------------------------------------------
(* Reasoning: its invariant, run by run.                                   *)

\* The rows of a run are of the run, its hypotheses are numbered, and an admission names
\* one of them if any.
RowsTyped(r) ==
    /\ hypotheses[r] \in Seq(HypothesisRows(r))
    /\ reasoning[r] \in Seq(ReasoningRows(r))
    /\ admissions[r] \in Seq(AdmissionRows(r))
    /\ experiments[r] \in Seq(ExperimentRows(r))
    /\ observations[r] \subseteq OwnIds(r)
    /\ \A n \in DOMAIN hypotheses[r] : hypotheses[r][n].id = Id(r, "hyp", n)
    /\ \A m \in DOMAIN admissions[r] :
          \/ admissions[r][m].hypothesis = None
          \/ \E n \in DOMAIN hypotheses[r] : admissions[r][m].hypothesis = Id(r, "hyp", n)

\* What the run's row points to where its phase needs it.
RowFits(r, x) ==
    /\ x \in RunRows(r)
    /\ x.phase = "OPPORTUNITY_SELECTED" => x.opportunity # None
    /\ x.phase = "HYPOTHESIS_ADMITTED" => x.hypothesis # None
    /\ x.phase = "EXPERIMENT_PLANNED" => x.experiment # None

RowTyped(r) == RowFits(r, row[r])

\* What the controller holds at each point of a step.
ControlFits(r, c) ==
    /\ c.pc \in {"idle", "context", "finish", "plan"} \cup Asking
    /\ c.pc \notin {"finish", "plan"} => c \in Controls(r)
    /\ c.pc = "context" => c.opportunity # None
    /\ c.pc \in Asking =>
          /\ c.role \in {"GENERATOR", "FALSIFIER"} /\ c.context \in ContextsOf(r)
          /\ c.role = "FALSIFIER" => c.generated \in Answered(r, "GENERATOR")
    /\ c.pc \in {"in", "out", "answer"} => c.result \in Results(r, c.role)

\* In a step the run's row waits at its opportunity, or at the hypothesis just admitted.
ControlTyped(r) ==
    /\ ControlFits(r, ctl[r])
    /\ ctl[r].pc \notin {"idle", "plan"} => row[r].phase = "OPPORTUNITY_SELECTED"
    /\ ctl[r].pc = "plan" => row[r].phase = "HYPOTHESIS_ADMITTED"
    /\ ctl[r].pc # "idle" => row[r].state = "RUNNING"

\* A hypothesis of the run and the admission it is the outcome of.
GroundedBy(r, h, a) ==
    \E g, f \in Range(reasoning[r]) :
        /\ a.hypothesis = h.id /\ a.outcome = "ADMITTED"
        /\ a.generator = g.id /\ g.id = h.origin /\ a.falsifier = f.id
        /\ g.fingerprint = a.fingerprint /\ f.fingerprint = a.fingerprint
        /\ f.output.alternatives > 0
        /\ LET cited == {i \in a.fingerprint.items : i.id \in g.output.references} IN
           /\ g.output.references = {i.id : i \in cited} /\ cited # {}
           /\ \A i \in cited : i.id.run = r

Grounded(r) ==
    \A h \in Range(hypotheses[r]) :
        \E a \in Range(admissions[r]) :
            /\ GroundedBy(r, h, a)
            /\ \A b \in Range(admissions[r]) : b.hypothesis = h.id => b = a

\* The hypothesis the row is at gets an experiment by the row's next step, unless the
\* controller dies before, or was refused one.
Secure(r) ==
    \/ ctl[r].pc = "plan"
    \/ row[r].phase = "HYPOTHESIS_ADMITTED" /\ row[r].experiment = None
    \/ row[r].state = "BLOCKED" /\ row[r].stop = "CORE_BLOCKED"

Tested(r) == {x.hypothesis : x \in Range(experiments[r])}

\* The hypotheses that will not be tested, or only by a step that dies no more.
Doomed(r) ==
    {h \in {g.id : g \in Range(hypotheses[r])} :
        h \notin Tested(r) /\ (row[r].hypothesis = h => ~Secure(r))}

\* A death dooms one hypothesis at most, and none before the row names an experiment.
Kept(r) ==
    /\ crashes[r] \in Nat
    /\ IsFiniteSet(Doomed(r)) /\ Cardinality(Doomed(r)) <= crashes[r]
    /\ Doomed(r) # {} => row[r].experiment # None

ReasoningInvOf(r) ==
    /\ RowsTyped(r) /\ RowTyped(r) /\ ControlTyped(r)
    /\ Grounded(r) /\ Kept(r)

Domains ==
    /\ DOMAIN row = ResearchRuns /\ DOMAIN ctl = ResearchRuns
    /\ DOMAIN hypotheses = ResearchRuns /\ DOMAIN reasoning = ResearchRuns
    /\ DOMAIN admissions = ResearchRuns /\ DOMAIN experiments = ResearchRuns
    /\ DOMAIN observations = ResearchRuns /\ DOMAIN crashes = ResearchRuns

ReasoningInv == Domains /\ \A r \in ResearchRuns : ReasoningInvOf(r)


-----------------------------------------------------------------------------
(* Reasoning: lemmas about its operators.                                  *)

LEMMA IdTyped ==
    ASSUME NEW r, NEW kind \in Kinds, NEW n \in Nat
    PROVE  Id(r, kind, n) \in OwnIds(r)
BY DEF Id, OwnIds

LEMMA OwnIdIsNotNone ==
    ASSUME NEW r \in ResearchRuns, NEW i \in OwnIds(r)
    PROVE  i # None /\ i.run = r
<1>1. i \in Ids
  BY DEF OwnIds, Ids
<1> QED BY <1>1, ReasoningAssumption DEF OwnIds

\* An id of a run under another kind is an id of the run.
LEMMA OtherKind ==
    ASSUME NEW r, NEW i \in OwnIds(r), NEW kind \in Kinds
    PROVE  [i EXCEPT !.kind = kind] \in OwnIds(r)
BY DEF OwnIds

\* What is kept of a set is part of it.
LEMMA TakesPart ==
    ASSUME NEW S, NEW limit, NEW T \in Takes(S, limit)
    PROVE  T \subseteq S
BY DEF Takes, kSubset

LEMMA NoTextRoom ==
    ASSUME NEW characters
    PROVE  DOMAIN TextRoom(<<>>, characters) = {}
BY DEF TextRoom

\* A context built of a run's own rows, without external texts, holds items of the run
\* only.
LEMMA ContextTyped ==
    ASSUME NEW r \in ResearchRuns, NEW sources, NEW budget, NEW kept,
           sources.observations \subseteq OwnIds(r), sources.hypotheses \subseteq OwnIds(r),
           sources.experiments \subseteq ExperimentRows(r), sources.inferences = {},
           sources.external = <<>>, sources.focus \subseteq OwnIds(r),
           kept.observations \subseteq sources.observations,
           kept.hypotheses \subseteq sources.hypotheses
    PROVE  BuildContext(r, sources, kept, budget) \in ContextsOf(r)
<1> DEFINE own(kind) == Id(r, kind, 0)
           of(ids, class) == {ContextItem(i, class, {i}) : i \in ids}
           derived == {ContextItem([x.id EXCEPT !.kind = "der"], "DERIVED_FACT",
                                   {x.id, x.hypothesis}) : x \in sources.experiments}
           negative == {ContextItem([x.id EXCEPT !.kind = "neg"], "NEGATIVE_EVIDENCE",
                                    {x.id, x.hypothesis}) :
                           x \in {y \in Negatives(sources) : y.id \in kept.negatives}}
           room == TextRoom(sources.external, budget.characters)
           external == {ContextItem(sources.external[i].id, "UNTRUSTED_EXTERNAL", {}) :
                           i \in {j \in DOMAIN room : room[j] > 0}}
           focus == {ContextItem(f, FocusClass(f.kind), {f}) : f \in sources.focus}
           items == {ContextItem(own("run"), "AUTHORITATIVE_FACT", {own("run")}),
                     ContextItem(own("question"), "PROCEDURAL", {own("run")})}
                    \cup of(kept.observations, "OBSERVATION")
                    \cup of(kept.hypotheses, "HYPOTHESIS")
                    \cup derived \cup negative
                    \cup of(sources.inferences, "INFERRED")
                    \cup focus
                    \cup external
           omitted == (sources.observations \ kept.observations)
                      \cup (sources.hypotheses \ kept.hypotheses)
                      \cup {[x.id EXCEPT !.kind = "neg"] :
                               x \in {y \in Negatives(sources) : y.id \notin kept.negatives}}
                      \cup {sources.external[i].id : i \in {j \in DOMAIN room : room[j] <= 0}}
           truncated == {sources.external[i].id :
                            i \in {j \in DOMAIN room :
                                      room[j] \in 1..(sources.external[j].length - 1)}}
<1>1. BuildContext(r, sources, kept, budget)
        = [items |-> items, omitted |-> omitted, truncated |-> truncated]
  BY DEF BuildContext
<1>2. \A i \in OwnIds(r), class \in ItemClasses, refs \in SUBSET OwnIds(r) :
         ContextItem(i, class, refs) \in ItemsOf(r)
  BY DEF ContextItem, ItemsOf
<1>3. own("run") \in OwnIds(r) /\ own("question") \in OwnIds(r)
  BY IdTyped DEF Kinds
<1>4. \A ids \in SUBSET OwnIds(r), class \in ItemClasses : of(ids, class) \subseteq ItemsOf(r)
  <2> SUFFICES ASSUME NEW ids \in SUBSET OwnIds(r), NEW class \in ItemClasses, NEW i \in ids
               PROVE  ContextItem(i, class, {i}) \in ItemsOf(r)
    OBVIOUS
  <2>1. i \in OwnIds(r) /\ {i} \in SUBSET OwnIds(r)
    OBVIOUS
  <2> QED BY <1>2, <2>1
<1>5. \A x \in sources.experiments :
         /\ x.id \in OwnIds(r) /\ x.hypothesis \in OwnIds(r)
         /\ [x.id EXCEPT !.kind = "der"] \in OwnIds(r)
         /\ [x.id EXCEPT !.kind = "neg"] \in OwnIds(r)
  BY OtherKind DEF ExperimentRows, Kinds
<1>6. Negatives(sources) \subseteq sources.experiments
  BY DEF Negatives
<1>7. DOMAIN room = {}
  BY NoTextRoom
<1>8. derived \subseteq ItemsOf(r)
  BY <1>2, <1>5 DEF ItemClasses
<1>9. negative \subseteq ItemsOf(r)
  BY ZenonT(30), <1>2, <1>5, <1>6 DEF ItemClasses
<1>10. focus \subseteq ItemsOf(r)
  BY ZenonT(30), <1>2 DEF FocusClass, ItemClasses
<1>11. external = {} /\ truncated = {}
  BY <1>7
<1>12. omitted \subseteq OwnIds(r)
  BY <1>5, <1>6, <1>7
<1>13. items \subseteq ItemsOf(r)
  <2>1. {ContextItem(own("run"), "AUTHORITATIVE_FACT", {own("run")}),
         ContextItem(own("question"), "PROCEDURAL", {own("run")})} \subseteq ItemsOf(r)
    BY <1>2, <1>3 DEF ItemClasses
  <2>2. /\ of(kept.observations, "OBSERVATION") \subseteq ItemsOf(r)
        /\ of(kept.hypotheses, "HYPOTHESIS") \subseteq ItemsOf(r)
        /\ of(sources.inferences, "INFERRED") \subseteq ItemsOf(r)
    BY <1>4 DEF ItemClasses
  <2> HIDE DEF own, of, derived, negative, external, focus
  <2> QED BY <1>8, <1>9, <1>10, <1>11, <2>1, <2>2
<1> HIDE DEF items, omitted, truncated
<1> QED BY <1>1, <1>11, <1>12, <1>13 DEF ContextsOf

\* An admitted proposal cites something, and only what its context holds; its challenge
\* lists an alternative.
LEMMA AdmittedOnGrounds ==
    ASSUME NEW context, NEW proposal, NEW challenge,
           AdmitHypothesis(context, proposal, challenge).outcome = "ADMITTED"
    PROVE  /\ proposal.references # {}
           /\ proposal.references \subseteq ResolvableSourceIds(context)
           /\ challenge.alternatives # 0
BY DEF AdmitHypothesis, AdmissionDecision, PolicyConflict

LEMMA DecisionTyped ==
    ASSUME NEW context, NEW proposal, NEW challenge
    PROVE  AdmitHypothesis(context, proposal, challenge) \in Decisions
BY DEF AdmitHypothesis, AdmissionDecision, PolicyConflict, Decisions


LEMMA RowSet ==
    ASSUME NEW r \in ResearchRuns, Domains, NEW changed, Set(r, changed)
    PROVE  /\ DOMAIN row' = ResearchRuns /\ row'[r] = changed
           /\ \A s \in ResearchRuns : s # r => row'[s] = row[s]
BY DEF Set, Domains

LEMMA ControlSet ==
    ASSUME NEW r \in ResearchRuns, Domains, NEW changed, Go(r, changed)
    PROVE  /\ DOMAIN ctl' = ResearchRuns /\ ctl'[r] = changed
           /\ \A s \in ResearchRuns : s # r => ctl'[s] = ctl[s]
BY DEF Go, Domains

\* What the invariant says of a run depends on nothing but the rows of the run and its
\* controller.
Same(r) ==
    /\ row'[r] = row[r] /\ ctl'[r] = ctl[r]
    /\ hypotheses'[r] = hypotheses[r] /\ reasoning'[r] = reasoning[r]
    /\ admissions'[r] = admissions[r] /\ experiments'[r] = experiments[r]
    /\ observations'[r] = observations[r] /\ crashes'[r] = crashes[r]

LEMMA SameKeeps ==
    ASSUME NEW r, Same(r), ReasoningInvOf(r)
    PROVE  ReasoningInvOf(r)'
<1> USE DEF Same, ReasoningInvOf
<1>1. RowsTyped(r)'
  BY DEF RowsTyped
<1>2. RowTyped(r)' /\ ControlTyped(r)'
  BY DEF RowTyped, RowFits, ControlTyped, ControlFits
<1>3. \A h, a : GroundedBy(r, h, a)' = GroundedBy(r, h, a)
  BY DEF GroundedBy
<1>4. Grounded(r)'
  BY <1>3 DEF Grounded
<1>5. Secure(r)' = Secure(r) /\ Tested(r)' = Tested(r)
  BY DEF Secure, Tested
<1>6. Doomed(r)' = Doomed(r)
  BY <1>5 DEF Doomed
<1>7. Kept(r)'
  BY <1>6 DEF Kept
<1> QED BY <1>1, <1>2, <1>4, <1>7

Elsewhere(r) == Domains' /\ \A s \in ResearchRuns : s # r => Same(s)

\* A step that leaves all rows but the run's own.
LEMMA RowsUntouched ==
    ASSUME NEW r \in ResearchRuns, Domains, UNCHANGED <<reasoningRows, crashes>>,
           UNCHANGED row \/ \E changed : Set(r, changed),
           UNCHANGED ctl \/ \E changed : Go(r, changed)
    PROVE  Elsewhere(r)
<1>1. DOMAIN row' = ResearchRuns /\ \A s \in ResearchRuns : s # r => row'[s] = row[s]
  BY RowSet DEF Domains
<1>2. DOMAIN ctl' = ResearchRuns /\ \A s \in ResearchRuns : s # r => ctl'[s] = ctl[s]
  BY ControlSet DEF Domains
<1> QED BY <1>1, <1>2 DEF Elsewhere, Same, Domains, reasoningRows


\* A step that leaves the rows of a run leaves what was admitted and on what grounds.
LEMMA RowsKept ==
    ASSUME NEW r, ReasoningInvOf(r), UNCHANGED reasoningRows
    PROVE  RowsTyped(r)' /\ Grounded(r)'
<1> USE DEF ReasoningInvOf, reasoningRows
<1>1. RowsTyped(r)'
  BY DEF RowsTyped
<1>2. \A h, a : GroundedBy(r, h, a)' = GroundedBy(r, h, a)
  BY DEF GroundedBy
<1> QED BY <1>1, <1>2 DEF Grounded

\* While the hypothesis of the row is not on its way to an experiment, a step that adds
\* no hypothesis but such a one dooms none.
LEMMA DoomedShrinks ==
    ASSUME NEW r, Tested(r) \subseteq Tested(r)',
           \A h \in Range(hypotheses'[r]) :
              h \in Range(hypotheses[r]) \/ (row'[r].hypothesis = h.id /\ Secure(r)'),
           \/ ~Secure(r)
           \/ row[r].hypothesis \in Tested(r)'
           \/ row'[r].hypothesis = row[r].hypothesis /\ Secure(r)'
    PROVE  Doomed(r)' \subseteq Doomed(r)
<1> SUFFICES ASSUME NEW h \in Doomed(r)' PROVE h \in Doomed(r)
  OBVIOUS
<1>1. /\ h \in {g.id : g \in Range(hypotheses'[r])} /\ h \notin Tested(r)'
      /\ row'[r].hypothesis = h => ~Secure(r)'
  BY DEF Doomed
<1>2. h \in {g.id : g \in Range(hypotheses[r])} /\ h \notin Tested(r)
  BY <1>1
<1>3. row[r].hypothesis = h => ~Secure(r)
  BY <1>1
<1> QED BY <1>2, <1>3 DEF Doomed

LEMMA KeptStays ==
    ASSUME NEW r, Kept(r), Doomed(r)' \subseteq Doomed(r), crashes'[r] = crashes[r],
           row[r].experiment # None => row'[r].experiment # None
    PROVE  Kept(r)'
<1>1. IsFiniteSet(Doomed(r)') /\ Cardinality(Doomed(r)') <= Cardinality(Doomed(r))
  BY FS_Subset DEF Kept
<1>2. Cardinality(Doomed(r)') \in Nat /\ Cardinality(Doomed(r)) \in Nat
  BY <1>1, FS_CardinalityType DEF Kept
<1> QED BY <1>1, <1>2 DEF Kept

\* A step that leaves the rows, taken where no hypothesis is on its way.
LEMMA AllTested ==
    ASSUME NEW r, ReasoningInvOf(r), UNCHANGED reasoningRows, ~Secure(r),
           crashes' = crashes, row'[r].experiment = row[r].experiment
    PROVE  Kept(r)'
<1>1. Doomed(r)' \subseteq Doomed(r)
  BY DoomedShrinks DEF Tested, reasoningRows
<1> QED BY <1>1, KeptStays DEF ReasoningInvOf

LEMMA InvOfRun ==
    ASSUME ReasoningInv, NEW r \in ResearchRuns, Elsewhere(r), ReasoningInvOf(r)'
    PROVE  ReasoningInv'
<1>1. ASSUME NEW s \in ResearchRuns, s # r PROVE ReasoningInvOf(s)'
  BY <1>1, SameKeeps DEF Elsewhere, ReasoningInv
<1> QED BY <1>1 DEF Elsewhere, ReasoningInv

LEMMA IdleFits ==
    ASSUME NEW r
    PROVE  ControlFits(r, Idle) /\ Idle \in Controls(r)
BY DEF ControlFits, Idle, Controls, Asking, OwnIdsOrNone

\* A run under way that is at no hypothesis has none on its way.
LEMMA NoneOnItsWay ==
    ASSUME NEW r, row[r].state \in {"READY", "RUNNING"},
           row[r].phase # "HYPOTHESIS_ADMITTED" \/ row[r].experiment # None,
           ctl[r].pc # "plan"
    PROVE  ~Secure(r)
BY DEF Secure

\* The row of a run and what its controller holds, as the steps below use them.
LEMMA RunFacts ==
    ASSUME ReasoningInv, NEW r \in ResearchRuns
    PROVE  /\ Domains /\ ReasoningInvOf(r)
           /\ row[r] \in RunRows(r) /\ RowFits(r, row[r])
           /\ ControlFits(r, ctl[r])
           /\ ctl[r].pc \notin {"idle", "plan"} =>
                 row[r].phase = "OPPORTUNITY_SELECTED" /\ ~Secure(r)
           /\ ctl[r].pc = "plan" => row[r].phase = "HYPOTHESIS_ADMITTED"
           /\ ctl[r].pc # "idle" => row[r].state = "RUNNING"
           /\ ctl[r].pc \notin {"finish", "plan"} => ctl[r] \in Controls(r)
           /\ ctl[r].pc \in Asking =>
                 /\ ctl[r].role \in {"GENERATOR", "FALSIFIER"}
                 /\ ctl[r].context \in ContextsOf(r)
                 /\ ctl[r].role = "FALSIFIER" => ctl[r].generated \in Answered(r, "GENERATOR")
<1>1. Domains /\ ReasoningInvOf(r)
  BY DEF ReasoningInv
<1>2. row[r] \in RunRows(r) /\ RowFits(r, row[r])
  BY <1>1 DEF ReasoningInvOf, RowTyped, RowFits
<1>3. /\ ControlFits(r, ctl[r])
      /\ ctl[r].pc \notin {"idle", "plan"} => row[r].phase = "OPPORTUNITY_SELECTED"
      /\ ctl[r].pc = "plan" => row[r].phase = "HYPOTHESIS_ADMITTED"
      /\ ctl[r].pc # "idle" => row[r].state = "RUNNING"
  BY <1>1 DEF ReasoningInvOf, ControlTyped
<1>4. ctl[r].pc \notin {"finish", "plan"} => ctl[r] \in Controls(r)
  BY <1>3 DEF ControlFits
<1>5. ASSUME ctl[r].pc \in Asking
      PROVE  /\ ctl[r].role \in {"GENERATOR", "FALSIFIER"}
             /\ ctl[r].context \in ContextsOf(r)
             /\ ctl[r].role = "FALSIFIER" => ctl[r].generated \in Answered(r, "GENERATOR")
  <2>1. ctl[r] \in Controls(r)
    BY <1>4, <1>5 DEF Asking
  <2> QED BY <1>3, <1>5, <2>1 DEF ControlFits, Controls
<1>6. ctl[r].pc \notin {"idle", "plan"} => ~Secure(r)
  BY <1>3, NoneOnItsWay
<1> QED BY <1>1, <1>2, <1>3, <1>4, <1>5, <1>6

\* A step of the controller alone.
LEMMA GoStep ==
    ASSUME ReasoningInv, NEW r \in ResearchRuns, NEW c, Go(r, c), ControlFits(r, c),
           c.pc # "plan", ctl[r].pc \notin {"idle", "plan"},
           row' = row, reasoningRows' = reasoningRows, crashes' = crashes
    PROVE  ReasoningInv'
<1>1. /\ Domains /\ ReasoningInvOf(r) /\ ~Secure(r)
      /\ row[r].phase = "OPPORTUNITY_SELECTED" /\ row[r].state = "RUNNING"
  BY RunFacts
<1>2. Elsewhere(r)
  BY <1>1, RowsUntouched
<1>3. ctl'[r] = c
  BY <1>1, ControlSet
<1>4. RowsTyped(r)' /\ Grounded(r)' /\ Kept(r)'
  BY <1>1, RowsKept, AllTested
<1>5. RowTyped(r)'
  BY <1>1 DEF ReasoningInvOf, RowTyped, RowFits
<1>6. ControlTyped(r)'
  BY <1>1, <1>3 DEF ControlTyped, ControlFits
<1> QED BY <1>2, <1>4, <1>5, <1>6, InvOfRun DEF ReasoningInvOf

\* A step of the controller and of the row of a run that is at no hypothesis.
LEMMA RowStep ==
    ASSUME ReasoningInv, NEW r \in ResearchRuns, NEW c, NEW changed,
           Go(r, c), ControlFits(r, c), Set(r, changed), RowFits(r, changed),
           changed.experiment = row[r].experiment, c.pc # "plan",
           c.pc # "idle" => changed.phase = "OPPORTUNITY_SELECTED" /\ changed.state = "RUNNING",
           ~Secure(r), reasoningRows' = reasoningRows, crashes' = crashes
    PROVE  ReasoningInv'
<1>1. Domains /\ ReasoningInvOf(r)
  BY DEF ReasoningInv
<1>2. Elsewhere(r)
  BY <1>1, RowsUntouched
<1>3. ctl'[r] = c /\ row'[r] = changed
  BY <1>1, ControlSet, RowSet
<1>4. RowsTyped(r)' /\ Grounded(r)' /\ Kept(r)'
  BY <1>1, <1>3, RowsKept, AllTested
<1>5. RowTyped(r)'
  BY <1>3 DEF RowTyped, RowFits
<1>6. ControlTyped(r)'
  BY <1>3 DEF ControlTyped, ControlFits
<1> QED BY <1>2, <1>4, <1>5, <1>6, InvOfRun DEF ReasoningInvOf

\* A run that stops is over with its cycle.
StoppedRow(r, reason) ==
    [row[r] EXCEPT !.state = StateForStop(reason), !.stop = reason, !.phase = "CYCLE_COMPLETE"]

LEMMA StoppedRowFits ==
    ASSUME ReasoningInv, NEW r \in ResearchRuns, NEW reason \in ReasonsToStop, Stop(r, reason)
    PROVE  /\ Set(r, StoppedRow(r, reason)) /\ Go(r, Idle)
           /\ RowFits(r, StoppedRow(r, reason))
           /\ StoppedRow(r, reason).experiment = row[r].experiment
           /\ StoppedRow(r, reason).hypothesis = row[r].hypothesis
           /\ StoppedRow(r, reason).stop = reason
           /\ StoppedRow(r, reason).state = StateForStop(reason)
<1>1. row[r] \in RunRows(r)
  BY RunFacts
<1>2. StateForStop(reason) \in StatesAtRest
  <2>1. CASE reason = "BUDGET_EXHAUSTED"
    BY <2>1 DEF StateForStop, StatesAtRest
  <2>2. CASE reason = "OPERATIONAL_FAILURE"
    BY <2>2 DEF StateForStop, StatesAtRest
  <2>3. CASE reason \in {"NO_COMPATIBLE_RUNTIME", "CONTENT_POLICY_BLOCKED", "AUTH_REQUIRED",
                         "RATE_LIMITED", "CORE_BLOCKED"}
    BY <2>3 DEF StateForStop, StatesAtRest
  <2>4. CASE reason \in {"COMPLETED_NO_MORE_OPPORTUNITIES", "CANCELLED", "MAX_CYCLES_REACHED"}
    BY <2>4 DEF StateForStop, StatesAtRest
  <2>5. CASE reason = "REQUIRE_HUMAN_REVIEW"
    BY <2>5 DEF StateForStop, StatesAtRest
  <2> QED BY <2>1, <2>2, <2>3, <2>4, <2>5 DEF ReasonsToStop
<1> DEFINE x == StoppedRow(r, reason)
<1>3. /\ x \in RunRows(r) /\ x.phase = "CYCLE_COMPLETE"
      /\ x.experiment = row[r].experiment /\ x.hypothesis = row[r].hypothesis
      /\ x.stop = reason /\ x.state = StateForStop(reason)
  BY <1>1, <1>2 DEF StoppedRow, RunRows
<1>4. Set(r, x) /\ Go(r, Idle)
  BY DEF Stop, Leave, StoppedRow
<1> HIDE DEF x
<1>5. RowFits(r, x)
  BY <1>3 DEF RowFits
<1> QED BY <1>3, <1>4, <1>5 DEF x

LEMMA StopStep ==
    ASSUME ReasoningInv, NEW r \in ResearchRuns, NEW reason \in ReasonsToStop, Stop(r, reason),
           ~Secure(r), reasoningRows' = reasoningRows, crashes' = crashes
    PROVE  ReasoningInv'
<1>1. Idle.pc = "idle" /\ ControlFits(r, Idle)
  BY IdleFits DEF Idle
<1> QED BY <1>1, StoppedRowFits, RowStep


LEMMA AdoptHypothesisStep ==
    ASSUME ReasoningInv, NEW r \in ResearchRuns, AdoptHypothesis(r)
    PROVE  ReasoningInv'
<1> DEFINE found == IF row[r].hypothesis # None THEN row[r].hypothesis
                    ELSE Last(hypotheses[r]).id
           changed == [row[r] EXCEPT !.state = "RUNNING", !.phase = "HYPOTHESIS_ADMITTED",
                                     !.hypothesis = found]
<1>1. Domains /\ ReasoningInvOf(r) /\ row[r] \in RunRows(r)
  BY RunFacts
<1>2. /\ ctl[r].pc = "idle" /\ row[r].phase = "OPPORTUNITY_SELECTED"
      /\ row[r].state \in {"READY", "RUNNING"}
      /\ row[r].hypothesis # None \/ hypotheses[r] # <<>>
      /\ Set(r, changed) /\ reasoningRows' = reasoningRows /\ ctl' = ctl /\ crashes' = crashes
  BY DEF AdoptHypothesis, Set, Active, unasked
<1>3. found \in OwnIds(r)
  <2>1. CASE row[r].hypothesis # None
    BY <1>1, <2>1 DEF RunRows, OwnIdsOrNone
  <2>2. CASE row[r].hypothesis = None
    <3>1. hypotheses[r] \in Seq(HypothesisRows(r)) /\ hypotheses[r] # <<>>
      BY <1>1, <1>2, <2>2 DEF ReasoningInvOf, RowsTyped
    <3>2. Last(hypotheses[r]) \in HypothesisRows(r)
      BY <3>1 DEF Last
    <3> QED BY <2>2, <3>2 DEF HypothesisRows
  <2> QED BY <2>1, <2>2
<1> HIDE DEF found
<1>4. RowFits(r, changed) /\ changed.experiment = row[r].experiment
  <2>1. found # None
    BY <1>3, OwnIdIsNotNone
  <2>2. /\ changed \in RunRows(r) /\ changed.phase = "HYPOTHESIS_ADMITTED"
        /\ changed.hypothesis = found /\ changed.experiment = row[r].experiment
    BY <1>1, <1>3 DEF RunRows, OwnIdsOrNone
  <2> HIDE DEF changed
  <2> QED BY <2>1, <2>2 DEF RowFits
<1> HIDE DEF changed
<1>5. Elsewhere(r)
  BY <1>1, <1>2, RowsUntouched
<1>6. row'[r] = changed
  BY <1>1, <1>2, RowSet
<1>7. ~Secure(r)
  BY <1>2, NoneOnItsWay
<1>8. RowsTyped(r)' /\ Grounded(r)' /\ Kept(r)'
  BY <1>1, <1>2, <1>4, <1>6, <1>7, RowsKept, AllTested
<1>9. RowTyped(r)'
  BY <1>4, <1>6 DEF RowTyped, RowFits
<1>10. ControlTyped(r)'
  BY <1>1, <1>2 DEF ReasoningInvOf, ControlTyped, ControlFits
<1> QED BY <1>5, <1>8, <1>9, <1>10, InvOfRun DEF ReasoningInvOf

LEMMA StepStopsStep ==
    ASSUME ReasoningInv, NEW r \in ResearchRuns, StepStops(r)
    PROVE  ReasoningInv'
<1>1. \A request : RoutingStop(request) # None => RoutingStop(request) \in ReasonsToStop
  BY DEF RoutingStop, ReasonsToStop
<1>2. \E reason \in ReasonsToStop : Stop(r, reason)
  BY <1>1 DEF StepStops, ReasonsToStop
<1>3. reasoningRows' = reasoningRows /\ crashes' = crashes
  BY DEF StepStops, unasked
<1>4. ~Secure(r)
  BY NoneOnItsWay DEF StepStops, Active
<1> QED BY <1>2, <1>3, <1>4, StopStep

LEMMA CycleIdTyped ==
    ASSUME ReasoningInv, NEW r \in ResearchRuns
    PROVE  CycleId(r) \in OwnIds(r)
<1>1. row[r] \in RunRows(r)
  BY RunFacts
<1>2. Id(r, "cycle", 1) \in OwnIds(r)
  BY IdTyped DEF Kinds
<1> QED BY <1>1, <1>2 DEF CycleId, RunRows, OwnIdsOrNone

\* A step gets under way with an opportunity of its run.
LEMMA BeginsStep ==
    ASSUME ReasoningInv, NEW r \in ResearchRuns, NEW opportunity \in OwnIds(r), NEW changed,
           Go(r, [Idle EXCEPT !.pc = "context", !.cycle = CycleId(r),
                              !.opportunity = opportunity]),
           Set(r, changed), changed \in RunRows(r), changed.phase = "OPPORTUNITY_SELECTED",
           changed.opportunity # None, changed.state = "RUNNING",
           changed.experiment = row[r].experiment, ~Secure(r),
           reasoningRows' = reasoningRows, crashes' = crashes
    PROVE  ReasoningInv'
<1> DEFINE c == [Idle EXCEPT !.pc = "context", !.cycle = CycleId(r),
                             !.opportunity = opportunity]
<1>1. CycleId(r) \in OwnIds(r) /\ opportunity # None
  BY CycleIdTyped, OwnIdIsNotNone
<1>2. c \in Controls(r) /\ c.pc = "context" /\ c.opportunity = opportunity
  BY <1>1 DEF Idle, Controls, OwnIdsOrNone
<1> HIDE DEF c
<1>3. ControlFits(r, c)
  BY <1>1, <1>2 DEF ControlFits, Asking
<1>4. RowFits(r, changed)
  BY DEF RowFits
<1> QED BY <1>2, <1>3, <1>4, RowStep DEF c

LEMMA SelectOpportunityStep ==
    ASSUME ReasoningInv, NEW r \in ResearchRuns, SelectOpportunity(r)
    PROVE  ReasoningInv'
<1> DEFINE opportunity == Id(r, "opportunity", 1)
           changed == [row[r] EXCEPT !.state = "RUNNING", !.phase = "OPPORTUNITY_SELECTED",
                                     !.cycle = CycleId(r), !.opportunity = opportunity]
<1>1. opportunity \in OwnIds(r) /\ CycleId(r) \in OwnIds(r) /\ row[r] \in RunRows(r)
  BY IdTyped, CycleIdTyped, RunFacts DEF Kinds
<1>2. opportunity # None
  BY <1>1, OwnIdIsNotNone
<1>3. /\ Go(r, [Idle EXCEPT !.pc = "context", !.cycle = CycleId(r),
                            !.opportunity = opportunity])
      /\ Set(r, changed) /\ reasoningRows' = reasoningRows /\ crashes' = crashes
      /\ row[r].phase # "HYPOTHESIS_ADMITTED" /\ ctl[r].pc = "idle"
      /\ row[r].state \in {"READY", "RUNNING"}
  BY DEF SelectOpportunity, Active, unasked
<1> HIDE DEF opportunity
<1>4. /\ changed \in RunRows(r) /\ changed.phase = "OPPORTUNITY_SELECTED"
      /\ changed.opportunity = opportunity /\ changed.state = "RUNNING"
      /\ changed.experiment = row[r].experiment
  BY <1>1 DEF RunRows, OwnIdsOrNone
<1> HIDE DEF changed
<1>5. ~Secure(r)
  BY <1>3, NoneOnItsWay
<1> QED BY <1>1, <1>2, <1>3, <1>4, <1>5, BeginsStep

LEMMA TakeUpOpportunityStep ==
    ASSUME ReasoningInv, NEW r \in ResearchRuns, TakeUpOpportunity(r)
    PROVE  ReasoningInv'
<1> DEFINE opportunity == row[r].opportunity
           changed == [row[r] EXCEPT !.state = "RUNNING"]
<1>1. ReasoningInvOf(r) /\ row[r] \in RunRows(r)
  BY RunFacts
<1>2. /\ Go(r, [Idle EXCEPT !.pc = "context", !.cycle = CycleId(r),
                            !.opportunity = opportunity])
      /\ Set(r, changed) /\ row[r].phase = "OPPORTUNITY_SELECTED"
      /\ row[r].state \in {"READY", "RUNNING"} /\ ctl[r].pc = "idle"
      /\ reasoningRows' = reasoningRows /\ crashes' = crashes
  BY DEF TakeUpOpportunity, Active, unasked
<1>3. opportunity # None /\ opportunity \in OwnIds(r)
  BY <1>1, <1>2 DEF ReasoningInvOf, RowTyped, RowFits, RunRows, OwnIdsOrNone
<1>4. /\ changed \in RunRows(r) /\ changed.phase = "OPPORTUNITY_SELECTED"
      /\ changed.opportunity = opportunity /\ changed.state = "RUNNING"
      /\ changed.experiment = row[r].experiment
  BY <1>1, <1>2 DEF RunRows
<1> HIDE DEF changed, opportunity
<1>5. ~Secure(r)
  BY <1>2, NoneOnItsWay
<1> QED BY <1>2, <1>3, <1>4, <1>5, BeginsStep

\* A death costs the hypothesis the row is at, if any, and none while the row names no
\* experiment.
LEMMA CrashStep ==
    ASSUME ReasoningInv, NEW r \in ResearchRuns, Crash(r)
    PROVE  ReasoningInv'
<1>1. /\ Domains /\ ReasoningInvOf(r) /\ row[r] \in RunRows(r)
      /\ ctl[r].pc = "plan" => row[r].phase = "HYPOTHESIS_ADMITTED"
  BY RunFacts
<1>2. /\ Go(r, Idle) /\ row' = row /\ reasoningRows' = reasoningRows /\ Idle.pc = "idle"
      /\ crashes' = [crashes EXCEPT ![r] = @ + 1]
  BY DEF Crash, Leave, Idle
<1>3. /\ DOMAIN ctl' = ResearchRuns /\ ctl'[r] = Idle /\ ctl'[r].pc = "idle"
      /\ \A s \in ResearchRuns : s # r => ctl'[s] = ctl[s]
  BY <1>1, <1>2, ControlSet
<1>4. Elsewhere(r)
  BY <1>1, <1>2, <1>3 DEF Elsewhere, Same, Domains, reasoningRows
<1>5. RowsTyped(r)' /\ Grounded(r)'
  BY <1>1, <1>2, RowsKept
<1>6. RowTyped(r)'
  BY <1>1, <1>2 DEF ReasoningInvOf, RowTyped, RowFits
<1>7. ControlTyped(r)'
  BY <1>3, IdleFits DEF ControlTyped, ControlFits
<1>8. crashes[r] \in Nat /\ crashes'[r] = crashes[r] + 1
  BY <1>1, <1>2 DEF ReasoningInvOf, Kept, Domains
<1>9. Tested(r)' = Tested(r)
  BY <1>2 DEF Tested, reasoningRows
<1>10. row[r].experiment = None => Doomed(r)' \subseteq Doomed(r)
  <2>1. row[r].experiment = None /\ Secure(r) => Secure(r)'
    BY <1>1, <1>2 DEF Secure
  <2> QED BY <1>2, <1>9, <2>1 DEF Doomed, reasoningRows
<1>11. Doomed(r)' \subseteq Doomed(r) \cup {row[r].hypothesis}
  BY <1>2, <1>9 DEF Doomed, reasoningRows
<1>12. Kept(r)'
  <2> DEFINE doomed == Doomed(r)
             more == doomed \cup {row[r].hypothesis}
  <2>1. /\ IsFiniteSet(doomed) /\ Cardinality(doomed) <= crashes[r]
        /\ doomed # {} => row[r].experiment # None
    BY <1>1 DEF ReasoningInvOf, Kept
  <2> HIDE DEF doomed
  <2>2. /\ IsFiniteSet(more) /\ Cardinality(doomed) \in Nat
        /\ Cardinality(more) = Cardinality(doomed)
           \/ Cardinality(more) = Cardinality(doomed) + 1
    BY <2>1, FS_AddElement, FS_CardinalityType
  <2>3. Doomed(r)' \subseteq more
    BY <1>11 DEF doomed
  <2> HIDE DEF more
  <2>4. IsFiniteSet(Doomed(r)') /\ Cardinality(Doomed(r)') <= Cardinality(more)
    BY <2>2, <2>3, FS_Subset
  <2>5. Cardinality(Doomed(r)') \in Nat
    BY <2>4, FS_CardinalityType
  <2>6. Cardinality(Doomed(r)') <= crashes'[r] /\ crashes'[r] \in Nat
    BY <1>8, <2>1, <2>2, <2>4, <2>5
  <2>7. Doomed(r)' # {} => row'[r].experiment # None
    BY <1>2, <1>10, <2>1 DEF doomed
  <2> QED BY <2>4, <2>6, <2>7 DEF Kept
<1> QED BY <1>4, <1>5, <1>6, <1>7, <1>12, InvOfRun DEF ReasoningInvOf


\* The context is built of the run's rows, which are the run's own.
LEMMA BuildResearchContextStep ==
    ASSUME ReasoningInv, NEW r \in ResearchRuns, BuildResearchContext(r)
    PROVE  ReasoningInv'
<1> DEFINE sources ==
              [observations |-> observations[r],
               hypotheses |-> {h.id : h \in Range(hypotheses[r])},
               experiments |-> Range(experiments[r]),
               inferences |-> {}, external |-> <<>>,
               focus |-> {ctl[r].opportunity}]
           context(kept) == BuildContext(r, sources, kept, ContextBudget)
<1>1. PICK kept \in Keeps(sources, ContextBudget) :
         Go(r, [ctl[r] EXCEPT !.pc = "ask", !.role = "GENERATOR", !.context = context(kept)])
  BY DEF BuildResearchContext
<1>2. /\ ctl[r].pc = "context" /\ row' = row /\ reasoningRows' = reasoningRows
      /\ crashes' = crashes
  BY DEF BuildResearchContext, unasked
<1>3. ReasoningInvOf(r) /\ ctl[r] \in Controls(r) /\ ControlFits(r, ctl[r])
  BY <1>2, RunFacts
<1>4. context(kept) \in ContextsOf(r)
  <2>1. sources.observations \subseteq OwnIds(r)
    BY <1>3 DEF ReasoningInvOf, RowsTyped
  <2>2. sources.hypotheses \subseteq OwnIds(r)
    <3>1. \A n \in DOMAIN hypotheses[r] : hypotheses[r][n] \in HypothesisRows(r)
      BY <1>3 DEF ReasoningInvOf, RowsTyped
    <3> QED BY <3>1 DEF Range, HypothesisRows
  <2>3. sources.experiments \subseteq ExperimentRows(r)
    BY <1>3 DEF ReasoningInvOf, RowsTyped, Range
  <2>4. sources.focus \subseteq OwnIds(r)
    BY <1>2, <1>3 DEF ControlFits, Controls, OwnIdsOrNone
  <2>5. kept.observations \subseteq sources.observations
        /\ kept.hypotheses \subseteq sources.hypotheses
    BY TakesPart DEF Keeps
  <2>6. sources.inferences = {} /\ sources.external = <<>>
    OBVIOUS
  <2> HIDE DEF sources
  <2> QED BY <2>1, <2>2, <2>3, <2>4, <2>5, <2>6, ContextTyped
<1> DEFINE c == [ctl[r] EXCEPT !.pc = "ask", !.role = "GENERATOR", !.context = context(kept)]
<1>5. Go(r, c)
  BY <1>1
<1> HIDE DEF context
<1>6. /\ c \in Controls(r) /\ c.pc = "ask" /\ c.role = "GENERATOR"
      /\ c.context \in ContextsOf(r)
  BY <1>3, <1>4 DEF Controls, Asking
<1> HIDE DEF c
<1>7. ControlFits(r, c)
  BY <1>6 DEF ControlFits, Asking
<1> QED BY <1>2, <1>5, <1>6, <1>7, GoStep

\* A call goes on with what the controller held, at another point of the step.
LEMMA AskingGoesOn ==
    ASSUME ReasoningInv, NEW r \in ResearchRuns, ctl[r].pc \in Asking, NEW c \in Controls(r),
           Go(r, c), c.pc \in Asking, c.role = ctl[r].role, c.context = ctl[r].context,
           c.generated = ctl[r].generated,
           c.pc \in {"in", "out", "answer"} => c.result \in Results(r, c.role),
           row' = row, reasoningRows' = reasoningRows, crashes' = crashes
    PROVE  ReasoningInv'
<1>1. ControlFits(r, ctl[r])
  BY RunFacts
<1>2. ControlFits(r, c)
  BY <1>1 DEF ControlFits, Asking
<1> QED BY <1>2, GoStep DEF Asking

LEMMA ReserveModelCallStep ==
    ASSUME ReasoningInv, NEW r \in ResearchRuns, ReserveModelCall(r)
    PROVE  ReasoningInv'
<1>1. ctl[r].pc = "ask" /\ reasoningRows' = reasoningRows /\ crashes' = crashes
  BY DEF ReserveModelCall
<1>2. ctl[r] \in Controls(r) /\ ~Secure(r)
  BY <1>1, RunFacts
<1>3. CASE Go(r, [ctl[r] EXCEPT !.pc = "call"]) /\ row' = row
  <2> DEFINE c == [ctl[r] EXCEPT !.pc = "call"]
  <2>1. /\ c \in Controls(r) /\ c.pc = "call" /\ c.role = ctl[r].role
        /\ c.context = ctl[r].context /\ c.generated = ctl[r].generated
    BY <1>2 DEF Controls, Asking
  <2>2. Go(r, c)
    BY <1>3
  <2> HIDE DEF c
  <2> QED BY <1>1, <1>3, <2>1, <2>2, AskingGoesOn DEF Asking
<1>4. CASE Stop(r, "BUDGET_EXHAUSTED")
  BY <1>1, <1>2, <1>4, StopStep DEF ReasonsToStop
<1>5. \/ Go(r, [ctl[r] EXCEPT !.pc = "call"]) /\ row' = row
      \/ Stop(r, "BUDGET_EXHAUSTED")
  BY DEF ReserveModelCall
<1> QED BY <1>3, <1>4, <1>5

LEMMA CallModelStep ==
    ASSUME ReasoningInv, NEW r \in ResearchRuns, CallModel(r)
    PROVE  ReasoningInv'
<1>1. ctl[r].pc = "call" /\ row' = row /\ reasoningRows' = reasoningRows /\ crashes' = crashes
  BY DEF CallModel
<1>2. PICK result \in Results(r, ctl[r].role), pc \in {"in", "out", "answer"} :
         Go(r, [ctl[r] EXCEPT !.pc = pc, !.result = result])
  BY DEF CallModel
<1>3. ctl[r] \in Controls(r) /\ ctl[r].role \in {"GENERATOR", "FALSIFIER"}
  BY <1>1, RunFacts DEF Asking
<1> DEFINE c == [ctl[r] EXCEPT !.pc = pc, !.result = result]
<1>4. /\ c \in Controls(r) /\ c.pc = pc /\ c.role = ctl[r].role /\ c.result = result
      /\ c.context = ctl[r].context /\ c.generated = ctl[r].generated
  BY <1>3 DEF Controls, Asking
<1>5. Go(r, c)
  BY <1>2
<1> HIDE DEF c
<1> QED BY <1>1, <1>4, <1>5, AskingGoesOn DEF Asking

LEMMA RecordTokensStep ==
    ASSUME ReasoningInv, NEW r \in ResearchRuns, RecordTokens(r)
    PROVE  ReasoningInv'
<1>1. /\ ctl[r].pc \in {"in", "out"} /\ row' = row /\ reasoningRows' = reasoningRows
      /\ crashes' = crashes
  BY DEF RecordTokens
<1>2. Go(r, Idle) \/ \E pc \in {"out", "answer"} : Go(r, [ctl[r] EXCEPT !.pc = pc])
  BY DEF RecordTokens, Leave
<1>3. CASE Go(r, Idle)
  BY <1>1, <1>3, IdleFits, GoStep DEF Idle
<1>4. ASSUME NEW pc \in {"out", "answer"}, Go(r, [ctl[r] EXCEPT !.pc = pc])
      PROVE  ReasoningInv'
  <2> DEFINE c == [ctl[r] EXCEPT !.pc = pc]
  <2>1. ctl[r] \in Controls(r) /\ ctl[r].result \in Results(r, ctl[r].role)
    BY <1>1, RunFacts DEF ControlFits
  <2>2. /\ c \in Controls(r) /\ c.pc = pc /\ c.role = ctl[r].role
        /\ c.context = ctl[r].context /\ c.generated = ctl[r].generated
        /\ c.result = ctl[r].result
    BY <2>1 DEF Controls, Asking
  <2>3. Go(r, c)
    BY <1>4
  <2> HIDE DEF c
  <2> QED BY <1>1, <2>1, <2>2, <2>3, AskingGoesOn DEF Asking
<1> QED BY <1>2, <1>3, <1>4

LEMMA AskFalsifierStep ==
    ASSUME ReasoningInv, NEW r \in ResearchRuns, AskFalsifier(r)
    PROVE  ReasoningInv'
<1>1. /\ ctl[r].pc = "answer" /\ ctl[r].role = "GENERATOR" /\ ~Ends(ctl[r].result)
      /\ row' = row /\ reasoningRows' = reasoningRows /\ crashes' = crashes
  BY DEF AskFalsifier, unasked
<1> DEFINE c == [ctl[r] EXCEPT !.pc = "ask", !.role = "FALSIFIER", !.generated = ctl[r].result]
<1>2. /\ ctl[r] \in Controls(r) /\ ControlFits(r, ctl[r])
      /\ ctl[r].result \in Results(r, "GENERATOR") /\ ctl[r].context \in ContextsOf(r)
  BY <1>1, RunFacts DEF ControlFits, Asking
<1>3. ctl[r].result \in Answered(r, "GENERATOR") /\ ctl[r].result # None
  BY <1>1, <1>2, ReasoningAssumption DEF Ends, Answered
<1>4. Go(r, c)
  BY DEF AskFalsifier
<1>5. /\ c \in Controls(r) /\ c.pc = "ask" /\ c.role = "FALSIFIER"
      /\ c.context = ctl[r].context /\ c.generated = ctl[r].result
  BY <1>2, <1>3 DEF Controls, Asking
<1> HIDE DEF c
<1>6. ControlFits(r, c)
  BY <1>2, <1>3, <1>5 DEF ControlFits, Asking
<1> QED BY <1>1, <1>4, <1>5, <1>6, GoStep

LEMMA FinishCycleStep ==
    ASSUME ReasoningInv, NEW r \in ResearchRuns, FinishCycle(r)
    PROVE  ReasoningInv'
<1>1. ctl[r].pc = "finish" /\ reasoningRows' = reasoningRows /\ crashes' = crashes
  BY DEF FinishCycle, unasked
<1>2. row[r] \in RunRows(r) /\ ~Secure(r)
  BY <1>1, RunFacts
<1>3. \A outcome : StopReasonForRuntimeOutcome(outcome) \in ReasonsToStop
  <2> TAKE outcome
  <2>1. CASE outcome = "CONTENT_POLICY_BLOCKED"
    BY <2>1 DEF StopReasonForRuntimeOutcome, ReasonsToStop
  <2>2. CASE outcome = "UNAVAILABLE"
    BY <2>2 DEF StopReasonForRuntimeOutcome, ReasonsToStop
  <2>3. CASE outcome = "AUTH_FAILED"
    BY <2>3 DEF StopReasonForRuntimeOutcome, ReasonsToStop
  <2>4. CASE outcome = "RATE_LIMITED"
    BY <2>4 DEF StopReasonForRuntimeOutcome, ReasonsToStop
  <2>5. CASE outcome = "CANCELLED"
    BY <2>5 DEF StopReasonForRuntimeOutcome, ReasonsToStop
  <2>6. CASE outcome \notin {"CONTENT_POLICY_BLOCKED", "UNAVAILABLE", "AUTH_FAILED",
                            "RATE_LIMITED", "CANCELLED"}
    BY <2>6 DEF StopReasonForRuntimeOutcome, ReasonsToStop
  <2> QED BY <2>1, <2>2, <2>3, <2>4, <2>5, <2>6
<1> DEFINE changed == [row[r] EXCEPT !.state = "READY", !.phase = "CYCLE_COMPLETE"]
<1>4. (\E reason \in ReasonsToStop : Stop(r, reason)) \/ (Set(r, changed) /\ Go(r, Idle))
  BY <1>3 DEF FinishCycle, Leave
<1>5. CASE \E reason \in ReasonsToStop : Stop(r, reason)
  BY <1>1, <1>2, <1>5, StopStep
<1>6. CASE Set(r, changed) /\ Go(r, Idle)
  <2>1. /\ changed \in RunRows(r) /\ changed.phase = "CYCLE_COMPLETE"
        /\ changed.experiment = row[r].experiment
    BY <1>2 DEF RunRows
  <2>2. Idle.pc = "idle"
    BY DEF Idle
  <2> HIDE DEF changed
  <2>3. RowFits(r, changed)
    BY <2>1 DEF RowFits
  <2> QED BY <1>1, <1>2, <1>6, <2>1, <2>2, <2>3, IdleFits, RowStep
<1> QED BY <1>4, <1>5, <1>6


-----------------------------------------------------------------------------
(* Reasoning: the steps that write rows.                                   *)

LEMMA RangeOfAppend ==
    ASSUME NEW S, NEW s \in Seq(S), NEW e \in S
    PROVE  /\ Append(s, e) \in Seq(S) /\ Range(Append(s, e)) = Range(s) \cup {e}
           /\ DOMAIN s = 1 .. Len(s) /\ Len(s) \in Nat
           /\ DOMAIN Append(s, e) = 1 .. Len(s) + 1
           /\ \A n \in DOMAIN s : Append(s, e)[n] = s[n]
           /\ Append(s, e)[Len(s) + 1] = e
<1>1. Append(s, e) \in Seq(S)
  OBVIOUS
<1>2. /\ DOMAIN s = 1 .. Len(s) /\ Len(s) \in Nat
      /\ DOMAIN Append(s, e) = 1 .. Len(s) + 1
      /\ \A n \in 1 .. Len(s) : Append(s, e)[n] = s[n]
      /\ Append(s, e)[Len(s) + 1] = e
  OBVIOUS
<1>3. \A n : n \in 1 .. Len(s) + 1 <=> n \in 1 .. Len(s) \/ n = Len(s) + 1
  BY <1>2
<1>4. Range(Append(s, e)) = Range(s) \cup {e}
  BY <1>2, <1>3 DEF Range
<1> QED BY <1>1, <1>2, <1>4

LEMMA RangeOfConcat ==
    ASSUME NEW S, NEW s \in Seq(S), NEW t \in Seq(S)
    PROVE  s \o t \in Seq(S) /\ Range(s \o t) = Range(s) \cup Range(t)
<1> DEFINE k == Len(s)
           n == Len(t)
<1>1. /\ s \o t \in Seq(S) /\ DOMAIN s = 1 .. k /\ DOMAIN t = 1 .. n /\ k \in Nat /\ n \in Nat
      /\ DOMAIN (s \o t) = 1 .. k + n
      /\ \A i \in 1 .. k : (s \o t)[i] = s[i]
      /\ \A i \in 1 .. n : (s \o t)[k + i] = t[i]
  OBVIOUS
<1> HIDE DEF k, n
<1>2. Range(s \o t) \subseteq Range(s) \cup Range(t)
  <2> SUFFICES ASSUME NEW i \in 1 .. k + n
               PROVE  (s \o t)[i] \in Range(s) \cup Range(t)
    BY <1>1 DEF Range
  <2>1. CASE i <= k
    <3>1. i \in 1 .. k
      BY <1>1, <2>1
    <3> QED BY <1>1, <3>1 DEF Range
  <2>2. CASE i > k
    <3>1. i - k \in 1 .. n /\ k + (i - k) = i
      BY <1>1, <2>2
    <3>2. (s \o t)[k + (i - k)] = t[i - k]
      BY <1>1, <3>1
    <3> QED BY <1>1, <3>1, <3>2 DEF Range
  <2> QED BY <1>1, <2>1, <2>2
<1>3. Range(s) \subseteq Range(s \o t)
  <2>1. \A i \in 1 .. k : i \in 1 .. k + n
    BY <1>1
  <2> QED BY <1>1, <2>1 DEF Range
<1>4. Range(t) \subseteq Range(s \o t)
  <2>1. \A i \in 1 .. n : k + i \in 1 .. k + n
    BY <1>1
  <2> QED BY <1>1, <2>1 DEF Range
<1> QED BY <1>1, <1>2, <1>3, <1>4

\* The experiments of a run stay of their hypotheses, and its rows of the run.
ExperimentsFit(r) ==
    /\ DOMAIN experiments' = ResearchRuns /\ DOMAIN observations' = ResearchRuns
    /\ \A s \in ResearchRuns : s # r =>
          experiments'[s] = experiments[s] /\ observations'[s] = observations[s]
    /\ experiments'[r] \in Seq(ExperimentRows(r)) /\ observations'[r] \subseteq OwnIds(r)
    /\ Tested(r) \subseteq Tested(r)'

LEMMA ExperimentsStep ==
    ASSUME ReasoningInv, NEW r \in ResearchRuns, NEW changed, ExperimentsFit(r),
           UNCHANGED <<hypotheses, reasoning, admissions, crashes>>,
           Set(r, changed), RowFits(r, changed),
           changed.experiment = row[r].experiment \/ changed.experiment # None,
           Go(r, Idle) \/ (ctl' = ctl /\ ctl[r].pc = "idle"),
           \/ ~Secure(r)
           \/ row[r].hypothesis \in Tested(r)'
           \/ row'[r].hypothesis = row[r].hypothesis /\ Secure(r)'
    PROVE  ReasoningInv'
<1>1. Domains /\ ReasoningInvOf(r)
  BY RunFacts
<1>2. /\ DOMAIN row' = ResearchRuns /\ row'[r] = changed
      /\ \A s \in ResearchRuns : s # r => row'[s] = row[s]
  BY <1>1, RowSet
<1>3. /\ DOMAIN ctl' = ResearchRuns /\ ControlFits(r, ctl'[r]) /\ ctl'[r].pc = "idle"
      /\ \A s \in ResearchRuns : s # r => ctl'[s] = ctl[s]
  <2>1. CASE Go(r, Idle)
    BY <1>1, <2>1, ControlSet, IdleFits DEF Idle
  <2>2. CASE ctl' = ctl /\ ctl[r].pc = "idle"
    BY <1>1, <2>2, RunFacts DEF Domains
  <2> QED BY <2>1, <2>2
<1>4. Elsewhere(r)
  BY <1>1, <1>2, <1>3 DEF Elsewhere, Same, Domains, ExperimentsFit
<1>5. RowsTyped(r)'
  BY <1>1 DEF ReasoningInvOf, RowsTyped, ExperimentsFit
<1>6. RowTyped(r)'
  BY <1>2 DEF RowTyped, RowFits
<1>7. ControlTyped(r)'
  BY <1>3 DEF ControlTyped, ControlFits
<1>8. Grounded(r)'
  <2>1. \A h, a : GroundedBy(r, h, a)' = GroundedBy(r, h, a)
    BY DEF GroundedBy
  <2> QED BY <1>1, <2>1 DEF ReasoningInvOf, Grounded
<1>9. Doomed(r)' \subseteq Doomed(r)
  BY DoomedShrinks DEF ExperimentsFit
<1>10. Kept(r)'
  BY <1>1, <1>2, <1>9, KeptStays DEF ReasoningInvOf
<1> QED BY <1>4, <1>5, <1>6, <1>7, <1>8, <1>10, InvOfRun DEF ReasoningInvOf

LEMMA UntouchedFit ==
    ASSUME ReasoningInv, NEW r \in ResearchRuns, UNCHANGED <<experiments, observations>>
    PROVE  ExperimentsFit(r)
<1>1. Domains /\ RowsTyped(r)
  BY RunFacts DEF ReasoningInvOf
<1> QED BY <1>1 DEF Domains, RowsTyped, ExperimentsFit, Tested

\* A prepared experiment is of the hypothesis the row is at.
LEMMA PreparedFits ==
    ASSUME ReasoningInv, NEW r \in ResearchRuns, row[r].phase = "HYPOTHESIS_ADMITTED",
           PrepareExperiment(r), UNCHANGED observations
    PROVE  /\ ExperimentsFit(r) /\ row[r].hypothesis \in Tested(r)'
           /\ \E changed : /\ Set(r, changed) /\ RowFits(r, changed)
                           /\ changed.experiment # None
<1> DEFINE n == Len(experiments[r]) + 1
           e == [id |-> Id(r, "exp", n), hypothesis |-> row[r].hypothesis, state |-> "PLANNED"]
           changed == [row[r] EXCEPT !.phase = "EXPERIMENT_PLANNED",
                                     !.experiment = Id(r, "exp", n)]
<1>1. Domains /\ RowsTyped(r) /\ row[r].hypothesis \in OwnIds(r) /\ row[r] \in RunRows(r)
  <2>1. ReasoningInvOf(r) /\ Domains /\ RowFits(r, row[r])
    BY RunFacts
  <2> QED BY <2>1 DEF ReasoningInvOf, RowFits, RunRows, OwnIdsOrNone
<1>2. experiments[r] \in Seq(ExperimentRows(r)) /\ observations[r] \subseteq OwnIds(r)
  BY <1>1 DEF RowsTyped
<1>3. n \in Nat
  BY <1>2
<1>4. /\ experiments'[r] = Append(experiments[r], e) /\ DOMAIN experiments' = ResearchRuns
      /\ \A s \in ResearchRuns : s # r => experiments'[s] = experiments[s]
      /\ Set(r, changed)
  BY <1>1 DEF PrepareExperiment, Domains
<1> HIDE DEF n
<1>5. Id(r, "exp", n) \in OwnIds(r) /\ Id(r, "exp", n) # None
  <2>1. Id(r, "exp", n) \in OwnIds(r)
    BY <1>3, IdTyped DEF Kinds
  <2> QED BY <2>1, OwnIdIsNotNone
<1>6. e \in ExperimentRows(r) /\ e.hypothesis = row[r].hypothesis
  BY <1>1, <1>5 DEF ExperimentRows
<1>7. /\ changed \in RunRows(r) /\ changed.phase = "EXPERIMENT_PLANNED"
      /\ changed.experiment = Id(r, "exp", n)
  BY <1>1, <1>5 DEF RunRows, OwnIdsOrNone
<1> HIDE DEF e, changed
<1>8. RowFits(r, changed)
  BY <1>5, <1>7 DEF RowFits
<1>9. experiments'[r] \in Seq(ExperimentRows(r))
      /\ Range(experiments'[r]) = Range(experiments[r]) \cup {e}
  BY <1>2, <1>4, <1>6, RangeOfAppend
<1>10. Tested(r) \subseteq Tested(r)' /\ row[r].hypothesis \in Tested(r)'
  BY <1>6, <1>9 DEF Tested
<1>11. ExperimentsFit(r)
  BY <1>1, <1>2, <1>4, <1>9, <1>10 DEF ExperimentsFit, Domains
<1> QED BY <1>4, <1>5, <1>7, <1>8, <1>10, <1>11

\* What becomes of an experiment is not whose it is.
LEMMA EndedFits ==
    ASSUME ReasoningInv, NEW r \in ResearchRuns, NEW n \in Nat,
           NEW state \in {"PLANNED", "OUTCOME_RECORDED", "EXECUTION_FAILED", "BLOCKED",
                          "UNKNOWN_OUTCOME"},
           experiments' = [experiments EXCEPT ![r][n].state = state],
           \/ UNCHANGED observations
           \/ observations' = [observations EXCEPT ![r] = @ \cup {Id(r, "obs", n)}]
    PROVE  ExperimentsFit(r)
<1> DEFINE before == experiments[r]
           after == [before EXCEPT ![n] = [before[n] EXCEPT !.state = state]]
<1>1. Domains /\ RowsTyped(r)
  BY RunFacts DEF ReasoningInvOf
<1>2. before \in Seq(ExperimentRows(r)) /\ observations[r] \subseteq OwnIds(r)
  BY <1>1 DEF RowsTyped
<1>3. /\ experiments'[r] = after /\ DOMAIN experiments' = ResearchRuns
      /\ \A s \in ResearchRuns : s # r => experiments'[s] = experiments[s]
  BY <1>1 DEF Domains
<1>4. Id(r, "obs", n) \in OwnIds(r)
  BY IdTyped DEF Kinds
<1>5. /\ DOMAIN observations' = ResearchRuns /\ observations'[r] \subseteq OwnIds(r)
      /\ \A s \in ResearchRuns : s # r => observations'[s] = observations[s]
  BY <1>1, <1>2, <1>4 DEF Domains
<1> HIDE DEF before
<1>6. /\ before \in [1 .. Len(before) -> ExperimentRows(r)] /\ Len(before) \in Nat
      /\ DOMAIN before = 1 .. Len(before)
  BY <1>2
<1>7. /\ DOMAIN after = DOMAIN before
      /\ \A m \in DOMAIN before :
            /\ after[m] \in ExperimentRows(r) /\ after[m].hypothesis = before[m].hypothesis
  <2> SUFFICES ASSUME NEW m \in DOMAIN before
               PROVE  /\ after[m] \in ExperimentRows(r)
                      /\ after[m].hypothesis = before[m].hypothesis
    OBVIOUS
  <2>1. before[m] \in ExperimentRows(r)
    BY <1>6
  <2>2. CASE m = n
    BY <2>1, <2>2 DEF ExperimentRows
  <2>3. CASE m # n
    BY <2>1, <2>3
  <2> QED BY <2>2, <2>3
<1> HIDE DEF after
<1>8. after \in Seq(ExperimentRows(r))
  <2>1. after = [m \in 1 .. Len(before) |-> after[m]]
    BY <1>6, <1>7 DEF after
  <2> QED BY <1>6, <1>7, <2>1
<1>9. Tested(r) \subseteq Tested(r)'
  BY <1>3, <1>7 DEF Tested, Range, before
<1> QED BY <1>3, <1>5, <1>8, <1>9 DEF ExperimentsFit

LEMMA PlanHypothesisStep ==
    ASSUME ReasoningInv, NEW r \in ResearchRuns, PlanHypothesis(r)
    PROVE  ReasoningInv'
<1>1. /\ ctl[r].pc = "plan" /\ UNCHANGED <<hypotheses, reasoning, admissions, crashes>>
      /\ UNCHANGED observations
  BY DEF PlanHypothesis, unasked
<1>2. row[r].phase = "HYPOTHESIS_ADMITTED" /\ Domains
  BY <1>1, RunFacts
<1>3. CASE PrepareExperiment(r) /\ Go(r, Idle)
  BY <1>1, <1>2, <1>3, PreparedFits, ExperimentsStep
<1>4. CASE Stop(r, "CORE_BLOCKED") /\ UNCHANGED experiments
  <2> DEFINE changed == StoppedRow(r, "CORE_BLOCKED")
  <2>1. "CORE_BLOCKED" \in ReasonsToStop
    BY DEF ReasonsToStop
  <2>2. /\ Set(r, changed) /\ Go(r, Idle) /\ RowFits(r, changed)
        /\ changed.experiment = row[r].experiment /\ changed.hypothesis = row[r].hypothesis
        /\ changed.stop = "CORE_BLOCKED" /\ changed.state = StateForStop("CORE_BLOCKED")
    BY <1>4, <2>1, StoppedRowFits
  <2>3. StateForStop("CORE_BLOCKED") = "BLOCKED"
    BY DEF StateForStop
  <2> HIDE DEF changed
  <2>4. row'[r] = changed
    BY <1>2, <2>2, RowSet
  <2>5. Secure(r)' /\ row'[r].hypothesis = row[r].hypothesis
    BY <2>2, <2>3, <2>4 DEF Secure
  <2>6. ExperimentsFit(r)
    BY <1>1, <1>4, UntouchedFit
  <2> QED BY <1>1, <2>2, <2>5, <2>6, ExperimentsStep
<1> QED BY <1>3, <1>4 DEF PlanHypothesis, Leave

LEMMA ResumeHypothesisStep ==
    ASSUME ReasoningInv, NEW r \in ResearchRuns, ResumeHypothesis(r)
    PROVE  ReasoningInv'
<1>1. /\ ctl[r].pc = "idle" /\ row[r].phase = "HYPOTHESIS_ADMITTED"
      /\ row[r].state \in {"READY", "RUNNING"} /\ ctl' = ctl
      /\ UNCHANGED <<hypotheses, reasoning, admissions, crashes>> /\ UNCHANGED observations
  BY DEF ResumeHypothesis, Active, unasked
<1>2. row[r] \in RunRows(r) /\ RowsTyped(r)
  BY RunFacts DEF ReasoningInvOf
<1>3. CASE PrepareExperiment(r)
  BY <1>1, <1>3, PreparedFits, ExperimentsStep
<1>4. ASSUME NEW x, UNCHANGED experiments,
             Set(r, [row[r] EXCEPT !.state = "RUNNING", !.phase = "EXPERIMENT_PLANNED",
                                   !.experiment = x]),
             \/ row[r].experiment # None /\ x = row[r].experiment
             \/ \E y \in Range(experiments[r]) :
                   y.hypothesis = row[r].hypothesis /\ x = y.id
      PROVE  ReasoningInv'
  <2> DEFINE changed == [row[r] EXCEPT !.state = "RUNNING", !.phase = "EXPERIMENT_PLANNED",
                                       !.experiment = x]
  <2>1. Range(experiments[r]) \subseteq ExperimentRows(r)
    BY <1>2 DEF RowsTyped, Range
  <2>2. x \in OwnIds(r)
    BY <1>2, <1>4, <2>1 DEF RunRows, OwnIdsOrNone, ExperimentRows
  <2>3. x # None
    BY <2>2, OwnIdIsNotNone
  <2>4. /\ changed \in RunRows(r) /\ changed.phase = "EXPERIMENT_PLANNED"
        /\ changed.experiment = x
    BY <1>2, <2>2 DEF RunRows, OwnIdsOrNone
  <2>5. Set(r, changed)
    BY <1>4
  <2> HIDE DEF changed
  <2>6. RowFits(r, changed) /\ changed.experiment # None
    BY <2>3, <2>4 DEF RowFits
  <2>7. ~Secure(r) \/ row[r].hypothesis \in Tested(r)'
    <3>1. row[r].experiment # None => ~Secure(r)
      BY <1>1, NoneOnItsWay
    <3> QED BY <1>4, <3>1 DEF Tested
  <2>8. ExperimentsFit(r)
    BY <1>1, <1>4, UntouchedFit
  <2> QED BY <1>1, <2>5, <2>6, <2>7, <2>8, ExperimentsStep
<1> QED BY <1>3, <1>4 DEF ResumeHypothesis

LEMMA ExecuteExperimentStep ==
    ASSUME ReasoningInv, NEW r \in ResearchRuns, ExecuteExperiment(r)
    PROVE  ReasoningInv'
<1> DEFINE n == row[r].experiment.n
<1>1. /\ row[r].phase = "EXPERIMENT_PLANNED" /\ row[r].state \in {"READY", "RUNNING"}
      /\ ctl[r].pc = "idle" /\ UNCHANGED <<hypotheses, reasoning, admissions, crashes>>
  BY DEF ExecuteExperiment, Active, unasked
<1>2. row[r] \in RunRows(r) /\ n \in Nat
  BY <1>1, RunFacts DEF RowFits, RunRows, OwnIdsOrNone, OwnIds
<1>3. ~Secure(r)
  BY <1>1, NoneOnItsWay
<1>4. ExperimentsFit(r)
  <2>1. UNCHANGED <<experiments, observations>> => ExperimentsFit(r)
    BY UntouchedFit
  <2>2. \/ UNCHANGED <<experiments, observations>>
        \/ \E state \in {"PLANNED", "OUTCOME_RECORDED", "EXECUTION_FAILED", "BLOCKED",
                         "UNKNOWN_OUTCOME"} :
              /\ experiments' = [experiments EXCEPT ![r][n].state = state]
              /\ \/ UNCHANGED observations
                 \/ observations' = [observations EXCEPT ![r] = @ \cup {Id(r, "obs", n)}]
    BY DEF ExecuteExperiment
  <2> HIDE DEF n
  <2> QED BY <1>2, <2>1, <2>2, EndedFits
<1>5. \E changed : /\ Set(r, changed) /\ RowFits(r, changed) /\ Go(r, Idle)
                   /\ changed.experiment = row[r].experiment
  <2> DEFINE ready == [row[r] EXCEPT !.phase = "CYCLE_COMPLETE", !.state = "READY"]
  <2>1. /\ ready \in RunRows(r) /\ ready.phase = "CYCLE_COMPLETE"
        /\ ready.experiment = row[r].experiment
    BY <1>2 DEF RunRows
  <2>2. \/ Set(r, ready) /\ Go(r, Idle)
        \/ \E reason \in ReasonsToStop : Stop(r, reason)
    BY DEF ExecuteExperiment, CycleOver, Leave, ReasonsToStop
  <2> HIDE DEF ready
  <2>3. RowFits(r, ready)
    BY <2>1 DEF RowFits
  <2> QED BY <2>1, <2>2, <2>3, StoppedRowFits
<1> QED BY <1>1, <1>3, <1>4, <1>5, ExperimentsStep


\* What an outcome is made of; an admission rests on both answers.
OutcomeFits(r, outcome) ==
    /\ outcome.decision \in Decisions
    /\ outcome.generator \in Answered(r, "GENERATOR") \cup {None}
    /\ outcome.falsifier \in Answered(r, "FALSIFIER") \cup {None}
    /\ outcome.decision.outcome = "ADMITTED" =>
          /\ outcome.generator # None /\ outcome.falsifier # None
          /\ AdmitHypothesis(ctl[r].context, ParseHypothesisProposal(outcome.generator.output),
                             ParseHypothesisChallenge(outcome.falsifier.output)).outcome
               = "ADMITTED"

LEMMA OutcomeFitting ==
    ASSUME ReasoningInv, NEW r \in ResearchRuns, ctl[r].pc = "answer",
           ctl[r].role = "FALSIFIER" \/ Ends(ctl[r].result)
    PROVE  OutcomeFits(r, Outcome(r))
<1> DEFINE result == ctl[r].result
           generated == ctl[r].generated
           asked == ctl[r].role = "FALSIFIER"
<1>1. /\ result \in Results(r, ctl[r].role) /\ ctl[r].role \in {"GENERATOR", "FALSIFIER"}
      /\ asked => generated \in Answered(r, "GENERATOR")
  BY RunFacts DEF ControlFits, Asking
<1>2. CASE result.error # None
  <2> DEFINE generator == IF asked THEN generated ELSE None
             reason == IF RuntimeOutcomeFromException(result.error) = "CONTENT_POLICY_BLOCKED"
                       THEN "CONTENT_POLICY_BLOCKED" ELSE "MODEL_INVOCATION_FAILED"
             outcome == Outcome(r)
  <2>1. /\ outcome.decision = [outcome |-> "MODEL_INVOCATION_FAILED", reason |-> reason]
        /\ outcome.generator = generator /\ outcome.falsifier = None
    BY <1>2 DEF Outcome, InvocationFailed, ReasoningOutcome, AdmissionDecision
  <2>2. outcome.decision \in Decisions /\ outcome.decision.outcome # "ADMITTED"
    BY <2>1 DEF Decisions
  <2> QED BY <1>1, <2>1, <2>2 DEF OutcomeFits
<1>3. CASE result.error = None /\ Ends(result)
  <2> DEFINE generator == IF asked THEN generated ELSE result
             falsifier == IF asked THEN result ELSE None
             outcome == Outcome(r)
  <2>1. /\ outcome.decision = DecisionOnError(ParseError(result.output))
        /\ outcome.generator = generator /\ outcome.falsifier = falsifier
    BY <1>3 DEF Outcome, ReasoningOutcome
  <2>2. outcome.decision \in Decisions /\ outcome.decision.outcome # "ADMITTED"
    BY <2>1 DEF DecisionOnError, PolicyConflict, Rejected, AdmissionDecision, Decisions
  <2>3. /\ generator \in Answered(r, "GENERATOR")
        /\ falsifier \in Answered(r, "FALSIFIER") \cup {None}
    BY <1>1, <1>3 DEF Answered
  <2> QED BY <2>1, <2>2, <2>3 DEF OutcomeFits
<1>4. CASE ~Ends(result)
  <2> DEFINE judged == AdmitHypothesis(ctl[r].context, ParseHypothesisProposal(generated.output),
                                       ParseHypothesisChallenge(result.output))
             outcome == Outcome(r)
  <2>1. asked /\ result.error = None
    BY <1>4 DEF Ends
  <2>2. outcome.decision = judged /\ outcome.generator = generated /\ outcome.falsifier = result
    BY <1>4, <2>1 DEF Outcome, ReasoningOutcome
  <2>3. judged \in Decisions
    BY DecisionTyped
  <2>4. generated \in Answered(r, "GENERATOR") /\ result \in Answered(r, "FALSIFIER")
    BY <1>1, <2>1 DEF Answered
  <2>5. generated # None /\ result # None
    BY <2>4, ReasoningAssumption DEF Answered
  <2> HIDE DEF result, generated
  <2> QED BY <2>2, <2>3, <2>4, <2>5 DEF OutcomeFits
<1> QED BY <1>2, <1>3, <1>4

\* The id of the nth of the answers that a cycle writes.
AnswerId(r, n) == Id(r, "reasoning", Len(reasoning[r]) + n)

\* An answer among the rows after the step, given on the context of the cycle.
WrittenAnswer(r, n, result) ==
    \E g \in Range(reasoning'[r]) :
       g.id = AnswerId(r, n) /\ g.output = result.output /\ g.fingerprint = ctl[r].context

\* The rows that a cycle writes: the answers that came, an admission that names them and
\* a hypothesis if there is one.
LEMMA WrittenAnswers ==
    ASSUME ReasoningInv, NEW r \in ResearchRuns, NEW outcome, OutcomeFits(r, outcome),
           NEW hyp \in OwnIdsOrNone(r), ctl[r].context \in ContextsOf(r),
           WriteCycle(r, outcome, hyp)
    PROVE  /\ reasoning'[r] \in Seq(ReasoningRows(r))
           /\ Range(reasoning[r]) \subseteq Range(reasoning'[r])
           /\ outcome.generator # None => WrittenAnswer(r, 1, outcome.generator)
           /\ outcome.falsifier # None => WrittenAnswer(r, 2, outcome.falsifier)
<1> DEFINE record(n, role, result) ==
              [id |-> AnswerId(r, n), role |-> role, hypothesis |-> hyp,
               fingerprint |-> ctl[r].context, output |-> result.output]
           first == IF outcome.generator = None THEN <<>>
                    ELSE <<record(1, "GENERATOR", outcome.generator)>>
           second == IF outcome.falsifier = None THEN <<>>
                     ELSE <<record(2, "FALSIFIER", outcome.falsifier)>>
<1>1. Domains /\ reasoning[r] \in Seq(ReasoningRows(r))
  BY RunFacts DEF ReasoningInvOf, RowsTyped
<1>2. AnswerId(r, 1) \in OwnIds(r) /\ AnswerId(r, 2) \in OwnIds(r)
  <2>1. Len(reasoning[r]) + 1 \in Nat /\ Len(reasoning[r]) + 2 \in Nat
    BY <1>1
  <2> QED BY <2>1, IdTyped DEF AnswerId, Kinds
<1>3. reasoning'[r] = (reasoning[r] \o first) \o second
  <2>1. (IF outcome.generator = None THEN None ELSE AnswerId(r, 1)) = None
           <=> outcome.generator = None
    BY <1>2, OwnIdIsNotNone
  <2>2. (IF outcome.falsifier = None THEN None ELSE AnswerId(r, 2)) = None
           <=> outcome.falsifier = None
    BY <1>2, OwnIdIsNotNone
  <2> QED BY <1>1, <2>1, <2>2 DEF WriteCycle, AnswerId, Domains
<1>4. first \in Seq(ReasoningRows(r))
      /\ (outcome.generator # None =>
             record(1, "GENERATOR", outcome.generator) \in Range(first))
  <2>1. CASE outcome.generator = None
    BY <2>1
  <2>2. CASE outcome.generator # None
    <3> DEFINE e == record(1, "GENERATOR", outcome.generator)
    <3>1. outcome.generator \in Answered(r, "GENERATOR")
      BY <2>2 DEF OutcomeFits
    <3>2. e \in ReasoningRows(r)
      BY <1>2, <3>1 DEF ReasoningRows
    <3>3. first = <<e>>
      BY <2>2
    <3> HIDE DEF e, first
    <3>4. first \in Seq(ReasoningRows(r)) /\ DOMAIN first = {1} /\ first[1] = e
      BY <3>2, <3>3
    <3> QED BY <3>4 DEF e, Range
  <2> QED BY <2>1, <2>2
<1>5. second \in Seq(ReasoningRows(r))
      /\ (outcome.falsifier # None =>
             record(2, "FALSIFIER", outcome.falsifier) \in Range(second))
  <2>1. CASE outcome.falsifier = None
    BY <2>1
  <2>2. CASE outcome.falsifier # None
    <3> DEFINE e == record(2, "FALSIFIER", outcome.falsifier)
    <3>1. outcome.falsifier \in Answered(r, "FALSIFIER")
      BY <2>2 DEF OutcomeFits
    <3>2. e \in ReasoningRows(r)
      BY <1>2, <3>1 DEF ReasoningRows
    <3>3. second = <<e>>
      BY <2>2
    <3> HIDE DEF e, second
    <3>4. second \in Seq(ReasoningRows(r)) /\ DOMAIN second = {1} /\ second[1] = e
      BY <3>2, <3>3
    <3> QED BY <3>4 DEF e, Range
  <2> QED BY <2>1, <2>2
<1> HIDE DEF first, second
<1> DEFINE before == reasoning[r] \o first
<1>6. before \in Seq(ReasoningRows(r)) /\ Range(before) = Range(reasoning[r]) \cup Range(first)
  BY <1>1, <1>4, RangeOfConcat
<1>7. reasoning'[r] \in Seq(ReasoningRows(r))
      /\ Range(reasoning'[r]) = Range(before) \cup Range(second)
  <2>1. reasoning'[r] = before \o second
    BY <1>3
  <2> HIDE DEF before
  <2> QED BY <1>5, <1>6, <2>1, RangeOfConcat
<1> HIDE DEF before
<1>8. outcome.generator # None => WrittenAnswer(r, 1, outcome.generator)
  BY <1>4, <1>6, <1>7 DEF WrittenAnswer
<1>9. outcome.falsifier # None => WrittenAnswer(r, 2, outcome.falsifier)
  BY <1>5, <1>7 DEF WrittenAnswer
<1> QED BY <1>6, <1>7, <1>8, <1>9

LEMMA WrittenAdmission ==
    ASSUME ReasoningInv, NEW r \in ResearchRuns, NEW outcome, OutcomeFits(r, outcome),
           NEW hyp \in OwnIdsOrNone(r), ctl[r].context \in ContextsOf(r),
           WriteCycle(r, outcome, hyp)
    PROVE  \E a \in AdmissionRows(r) :
              /\ admissions'[r] = Append(admissions[r], a)
              /\ a.outcome = outcome.decision.outcome /\ a.fingerprint = ctl[r].context
              /\ a.hypothesis = hyp
              /\ outcome.generator # None => a.generator = AnswerId(r, 1)
              /\ outcome.falsifier # None => a.falsifier = AnswerId(r, 2)
<1> DEFINE generator == IF outcome.generator = None THEN None ELSE AnswerId(r, 1)
           falsifier == IF outcome.falsifier = None THEN None ELSE AnswerId(r, 2)
           a == [outcome |-> outcome.decision.outcome, reason |-> outcome.decision.reason,
                 fingerprint |-> ctl[r].context, generator |-> generator,
                 falsifier |-> falsifier, hypothesis |-> hyp]
<1>1. Domains /\ reasoning[r] \in Seq(ReasoningRows(r))
  BY RunFacts DEF ReasoningInvOf, RowsTyped
<1>2. generator \in OwnIdsOrNone(r) /\ falsifier \in OwnIdsOrNone(r)
  <2>1. Len(reasoning[r]) + 1 \in Nat /\ Len(reasoning[r]) + 2 \in Nat
    BY <1>1
  <2>2. AnswerId(r, 1) \in OwnIds(r) /\ AnswerId(r, 2) \in OwnIds(r)
    BY <2>1, IdTyped DEF AnswerId, Kinds
  <2> QED BY <2>2 DEF OwnIdsOrNone
<1>3. outcome.decision \in Decisions
  BY DEF OutcomeFits
<1>4. admissions'[r] = Append(admissions[r], a)
  BY <1>1 DEF WriteCycle, AnswerId, Domains
<1>5. /\ outcome.generator # None => generator = AnswerId(r, 1)
      /\ outcome.falsifier # None => falsifier = AnswerId(r, 2)
  OBVIOUS
<1> HIDE DEF generator, falsifier
<1>6. a \in AdmissionRows(r)
  BY <1>2, <1>3 DEF AdmissionRows
<1> QED BY <1>4, <1>5, <1>6

LEMMA WrittenHypothesis ==
    ASSUME ReasoningInv, NEW r \in ResearchRuns, NEW outcome, OutcomeFits(r, outcome),
           NEW hyp \in OwnIdsOrNone(r), WriteCycle(r, outcome, hyp),
           hyp # None => outcome.generator # None
    PROVE  /\ hyp = None => hypotheses'[r] = hypotheses[r]
           /\ hyp # None =>
                 \E h \in HypothesisRows(r) :
                    /\ hypotheses'[r] = Append(hypotheses[r], h)
                    /\ h.id = hyp /\ h.origin = AnswerId(r, 1)
<1>1. Domains /\ reasoning[r] \in Seq(ReasoningRows(r))
  BY RunFacts DEF ReasoningInvOf, RowsTyped
<1>2. AnswerId(r, 1) \in OwnIds(r)
  <2>1. Len(reasoning[r]) + 1 \in Nat
    BY <1>1
  <2> QED BY <2>1, IdTyped DEF AnswerId, Kinds
<1>3. CASE hyp = None
  BY <1>1, <1>3 DEF WriteCycle, Domains
<1>4. CASE hyp # None
  <2> DEFINE h == [id |-> hyp, claim |-> outcome.generator.output.claim,
                   origin |-> AnswerId(r, 1)]
  <2>1. outcome.generator \in Answered(r, "GENERATOR") /\ hyp \in OwnIds(r)
    BY <1>4 DEF OutcomeFits, OwnIdsOrNone
  <2>2. h \in HypothesisRows(r)
    BY <1>2, <2>1 DEF HypothesisRows
  <2>3. hypotheses'[r] = Append(hypotheses[r], h)
    BY <1>1, <1>4 DEF WriteCycle, AnswerId, Domains
  <2> QED BY <1>4, <2>2, <2>3
<1> QED BY <1>3, <1>4

LEMMA WrittenElsewhere ==
    ASSUME ReasoningInv, NEW r \in ResearchRuns, NEW outcome, NEW hyp,
           WriteCycle(r, outcome, hyp), UNCHANGED <<experiments, observations, crashes>>,
           UNCHANGED row \/ \E changed : Set(r, changed), \E c : Go(r, c)
    PROVE  Elsewhere(r)
<1>1. Domains
  BY RunFacts
<1>2. DOMAIN row' = ResearchRuns /\ \A s \in ResearchRuns : s # r => row'[s] = row[s]
  BY <1>1, RowSet DEF Domains
<1>3. DOMAIN ctl' = ResearchRuns /\ \A s \in ResearchRuns : s # r => ctl'[s] = ctl[s]
  BY <1>1, ControlSet
<1>4. /\ DOMAIN hypotheses' = ResearchRuns /\ DOMAIN reasoning' = ResearchRuns
      /\ DOMAIN admissions' = ResearchRuns
      /\ \A s \in ResearchRuns : s # r =>
            /\ hypotheses'[s] = hypotheses[s] /\ reasoning'[s] = reasoning[s]
            /\ admissions'[s] = admissions[s]
  BY <1>1 DEF WriteCycle, Domains
<1> QED BY <1>1, <1>2, <1>3, <1>4 DEF Elsewhere, Same, Domains


\* An admission on the context of the run is grounded in it.
LEMMA GroundsOfAdmission ==
    ASSUME NEW r \in ResearchRuns, NEW context \in ContextsOf(r), NEW output, NEW challenge,
           AdmitHypothesis(context, ParseHypothesisProposal(output),
                           ParseHypothesisChallenge(challenge)).outcome = "ADMITTED",
           challenge.alternatives \in Nat
    PROVE  /\ challenge.alternatives > 0
           /\ LET cited == {i \in context.items : i.id \in output.references} IN
              /\ output.references = {i.id : i \in cited} /\ cited # {}
              /\ \A i \in cited : i.id.run = r
<1> DEFINE cited == {i \in context.items : i.id \in output.references}
<1>1. /\ ParseHypothesisProposal(output).references # {}
      /\ ParseHypothesisProposal(output).references \subseteq ResolvableSourceIds(context)
      /\ ParseHypothesisChallenge(challenge).alternatives # 0
  BY AdmittedOnGrounds
<1>2. /\ output.references # {} /\ output.references \subseteq ResolvableSourceIds(context)
      /\ challenge.alternatives # 0
  BY <1>1 DEF ParseHypothesisProposal, ParseHypothesisChallenge
<1>3. output.references = {i.id : i \in cited}
  BY <1>2 DEF ResolvableSourceIds
<1>4. cited # {}
  BY <1>2, <1>3
<1>5. \A i \in cited : i.id.run = r
  BY DEF ContextsOf, ItemsOf, OwnIds
<1> QED BY <1>2, <1>3, <1>4, <1>5

\* The number of a hypothesis tells it from the others of its run.
LEMMA NumbersDiffer ==
    ASSUME NEW r, NEW m, NEW n, m # n
    PROVE  Id(r, "hyp", m) # Id(r, "hyp", n)
BY DEF Id

LEMMA WrittenOnGrounds ==
    ASSUME ReasoningInv, NEW r \in ResearchRuns, NEW outcome, OutcomeFits(r, outcome),
           ctl[r].context \in ContextsOf(r), NEW hyp,
           \/ hyp = None
           \/ /\ hyp = Id(r, "hyp", Len(hypotheses[r]) + 1)
              /\ outcome.decision.outcome = "ADMITTED",
           WriteCycle(r, outcome, hyp), UNCHANGED <<experiments, observations>>
    PROVE  /\ RowsTyped(r)' /\ Grounded(r)'
           /\ \A h \in Range(hypotheses'[r]) :
                 h \in Range(hypotheses[r]) \/ (h.id = hyp /\ hyp # None)
<1> DEFINE n == Len(hypotheses[r]) + 1
<1>1. Domains /\ RowsTyped(r) /\ Grounded(r)
  BY RunFacts DEF ReasoningInvOf
<1>2. /\ hypotheses[r] \in Seq(HypothesisRows(r)) /\ DOMAIN hypotheses[r] = 1 .. Len(hypotheses[r])
      /\ Len(hypotheses[r]) \in Nat /\ admissions[r] \in Seq(AdmissionRows(r))
  BY <1>1 DEF RowsTyped
<1>3. Id(r, "hyp", n) \in OwnIds(r) /\ Id(r, "hyp", n) # None
  <2>1. n \in Nat
    BY <1>2
  <2> HIDE DEF n
  <2>2. Id(r, "hyp", n) \in OwnIds(r)
    BY <2>1, IdTyped DEF Kinds
  <2> QED BY <2>2, OwnIdIsNotNone
<1>4. /\ hyp \in OwnIdsOrNone(r)
      /\ hyp # None =>
            /\ hyp = Id(r, "hyp", n) /\ outcome.decision.outcome = "ADMITTED"
            /\ outcome.generator # None /\ outcome.falsifier # None
  BY <1>3 DEF OwnIdsOrNone, OutcomeFits
<1> HIDE DEF n
<1>5. PICK a \in AdmissionRows(r) :
         /\ admissions'[r] = Append(admissions[r], a)
         /\ a.outcome = outcome.decision.outcome /\ a.fingerprint = ctl[r].context
         /\ a.hypothesis = hyp
         /\ outcome.generator # None => a.generator = AnswerId(r, 1)
         /\ outcome.falsifier # None => a.falsifier = AnswerId(r, 2)
  BY <1>4, WrittenAdmission
<1>6. /\ reasoning'[r] \in Seq(ReasoningRows(r))
      /\ Range(reasoning[r]) \subseteq Range(reasoning'[r])
      /\ outcome.generator # None => WrittenAnswer(r, 1, outcome.generator)
      /\ outcome.falsifier # None => WrittenAnswer(r, 2, outcome.falsifier)
  BY <1>4, WrittenAnswers
<1>7. /\ hyp = None => hypotheses'[r] = hypotheses[r]
      /\ hyp # None =>
            \E h \in HypothesisRows(r) :
               /\ hypotheses'[r] = Append(hypotheses[r], h)
               /\ h.id = hyp /\ h.origin = AnswerId(r, 1)
  BY <1>4, WrittenHypothesis
<1>8. /\ admissions'[r] \in Seq(AdmissionRows(r))
      /\ Range(admissions'[r]) = Range(admissions[r]) \cup {a}
  BY <1>2, <1>5, RangeOfAppend
<1>9. \A m \in DOMAIN hypotheses[r] : m # n
  BY <1>2 DEF n
<1>10. \A h \in Range(hypotheses[r]) :
          /\ h.id # None /\ h.id # Id(r, "hyp", n)
  <2> SUFFICES ASSUME NEW m \in DOMAIN hypotheses[r]
               PROVE  hypotheses[r][m].id # None /\ hypotheses[r][m].id # Id(r, "hyp", n)
    BY DEF Range
  <2>1. hypotheses[r][m].id = Id(r, "hyp", m) /\ hypotheses[r][m] \in HypothesisRows(r)
    BY <1>1, <1>2 DEF RowsTyped
  <2>2. hypotheses[r][m].id \in OwnIds(r)
    BY <2>1 DEF HypothesisRows
  <2> QED BY <1>9, <2>1, <2>2, OwnIdIsNotNone, NumbersDiffer
<1>11. \A b \in Range(admissions[r]) : b.hypothesis # Id(r, "hyp", n)
  <2> SUFFICES ASSUME NEW m \in DOMAIN admissions[r]
               PROVE  admissions[r][m].hypothesis # Id(r, "hyp", n)
    BY DEF Range
  <2>1. \/ admissions[r][m].hypothesis = None
        \/ \E k \in DOMAIN hypotheses[r] : admissions[r][m].hypothesis = Id(r, "hyp", k)
    BY <1>1 DEF RowsTyped
  <2> QED BY <1>3, <1>9, <2>1, NumbersDiffer
\* What was grounded before still is.
<1>12. ASSUME NEW h \in Range(hypotheses[r])
       PROVE  \E b \in Range(admissions'[r]) :
                 /\ GroundedBy(r, h, b)'
                 /\ \A c \in Range(admissions'[r]) : c.hypothesis = h.id => c = b
  <2>1. PICK b \in Range(admissions[r]) :
           /\ GroundedBy(r, h, b)
           /\ \A c \in Range(admissions[r]) : c.hypothesis = h.id => c = b
    BY <1>1 DEF Grounded
  <2>2. GroundedBy(r, h, b)'
    BY <1>6, <2>1 DEF GroundedBy
  <2>3. a.hypothesis # h.id
    BY <1>4, <1>5, <1>10
  <2> QED BY <1>8, <2>1, <2>2, <2>3
\* The new one rests on the answers written with it.
<1>13. ASSUME hyp # None, NEW h, h.id = hyp, h.origin = AnswerId(r, 1)
       PROVE  \E b \in Range(admissions'[r]) :
                 /\ GroundedBy(r, h, b)'
                 /\ \A c \in Range(admissions'[r]) : c.hypothesis = h.id => c = b
  <2>1. PICK g \in Range(reasoning'[r]) :
           /\ g.id = AnswerId(r, 1) /\ g.output = outcome.generator.output
           /\ g.fingerprint = ctl[r].context
    BY <1>4, <1>6, <1>13 DEF WrittenAnswer
  <2>2. PICK f \in Range(reasoning'[r]) :
           /\ f.id = AnswerId(r, 2) /\ f.output = outcome.falsifier.output
           /\ f.fingerprint = ctl[r].context
    BY <1>4, <1>6, <1>13 DEF WrittenAnswer
  <2>3. outcome.falsifier.output.alternatives \in Nat
    BY <1>4, <1>13, ReasoningAssumption DEF OutcomeFits, Answered
  <2>4. AdmitHypothesis(ctl[r].context, ParseHypothesisProposal(g.output),
                        ParseHypothesisChallenge(f.output)).outcome = "ADMITTED"
    BY <1>4, <1>13, <2>1, <2>2 DEF OutcomeFits
  <2>5. /\ f.output.alternatives > 0
        /\ LET cited == {i \in ctl[r].context.items : i.id \in g.output.references} IN
           /\ g.output.references = {i.id : i \in cited} /\ cited # {}
           /\ \A i \in cited : i.id.run = r
    BY <2>2, <2>3, <2>4, GroundsOfAdmission
  <2>6. GroundedBy(r, h, a)'
    BY <1>4, <1>5, <1>13, <2>1, <2>2, <2>5 DEF GroundedBy
  <2>7. \A c \in Range(admissions'[r]) : c.hypothesis = h.id => c = a
    BY <1>4, <1>8, <1>11, <1>13
  <2> QED BY <1>8, <2>6, <2>7
<1>14. CASE hyp = None
  <2>1. RowsTyped(r)'
    <3>1. \A m \in DOMAIN admissions'[r] :
             \/ admissions'[r][m].hypothesis = None
             \/ \E k \in DOMAIN hypotheses[r] : admissions'[r][m].hypothesis = Id(r, "hyp", k)
      <4> TAKE m \in DOMAIN admissions'[r]
      <4>1. CASE m = Len(admissions[r]) + 1
        BY <1>2, <1>5, <1>14, <4>1, RangeOfAppend
      <4>2. CASE m # Len(admissions[r]) + 1
        <5>1. m \in DOMAIN admissions[r] /\ admissions'[r][m] = admissions[r][m]
          BY <1>2, <1>5, <4>2
        <5> QED BY <1>1, <5>1 DEF RowsTyped
      <4> QED BY <4>1, <4>2
    <3> QED BY <1>1, <1>6, <1>7, <1>8, <1>14, <3>1 DEF RowsTyped
  <2>2. Grounded(r)'
    BY <1>7, <1>12, <1>14 DEF Grounded
  <2> QED BY <1>7, <1>14, <2>1, <2>2
<1>15. CASE hyp # None
  <2>1. PICK h \in HypothesisRows(r) :
           /\ hypotheses'[r] = Append(hypotheses[r], h)
           /\ h.id = hyp /\ h.origin = AnswerId(r, 1)
    BY <1>7, <1>15
  <2>2. /\ hypotheses'[r] \in Seq(HypothesisRows(r))
        /\ Range(hypotheses'[r]) = Range(hypotheses[r]) \cup {h}
        /\ DOMAIN hypotheses'[r] = 1 .. n
        /\ \A m \in DOMAIN hypotheses[r] : hypotheses'[r][m] = hypotheses[r][m]
        /\ hypotheses'[r][n] = h
    BY <1>2, <2>1, RangeOfAppend DEF n
  <2>3. \A m \in 1 .. n : m = n \/ m \in DOMAIN hypotheses[r]
    BY <1>2 DEF n
  <2>4. DOMAIN hypotheses[r] \subseteq 1 .. n /\ n \in 1 .. n
    BY <1>2 DEF n
  <2>5. RowsTyped(r)'
    <3>1. \A m \in DOMAIN hypotheses'[r] : hypotheses'[r][m].id = Id(r, "hyp", m)
      BY <1>1, <1>4, <1>15, <2>1, <2>2, <2>3 DEF RowsTyped
    <3>2. \A m \in DOMAIN admissions'[r] :
             \/ admissions'[r][m].hypothesis = None
             \/ \E k \in 1 .. n : admissions'[r][m].hypothesis = Id(r, "hyp", k)
      <4> TAKE m \in DOMAIN admissions'[r]
      <4>1. CASE m = Len(admissions[r]) + 1
        <5>1. admissions'[r][m] = a
          BY <1>2, <1>5, <4>1, RangeOfAppend
        <5> QED BY <1>4, <1>5, <1>15, <2>4, <5>1
      <4>2. CASE m # Len(admissions[r]) + 1
        <5>1. m \in DOMAIN admissions[r] /\ admissions'[r][m] = admissions[r][m]
          BY <1>2, <1>5, <4>2
        <5> QED BY <1>1, <2>4, <5>1 DEF RowsTyped
      <4> QED BY <4>1, <4>2
    <3> QED BY <1>1, <1>6, <1>8, <2>2, <3>1, <3>2 DEF RowsTyped
  <2>6. Grounded(r)'
    <3>1. \E b \in Range(admissions'[r]) :
             /\ GroundedBy(r, h, b)'
             /\ \A c \in Range(admissions'[r]) : c.hypothesis = h.id => c = b
      BY <1>13, <1>15, <2>1
    <3> QED BY <1>12, <2>2, <3>1 DEF Grounded
  <2> QED BY <1>15, <2>1, <2>2, <2>5, <2>6
<1> QED BY <1>14, <1>15

LEMMA PersistReasoningStep ==
    ASSUME ReasoningInv, NEW r \in ResearchRuns, PersistReasoning(r)
    PROVE  ReasoningInv'
<1> DEFINE outcome == Outcome(r)
           id == Id(r, "hyp", Len(hypotheses[r]) + 1)
<1>1. ctl[r].pc = "answer" /\ (ctl[r].role = "FALSIFIER" \/ Ends(ctl[r].result))
  BY DEF PersistReasoning
<1>2. /\ Domains /\ ReasoningInvOf(r) /\ row[r] \in RunRows(r) /\ ctl[r] \in Controls(r)
      /\ row[r].phase = "OPPORTUNITY_SELECTED" /\ row[r].state = "RUNNING"
      /\ ctl[r].context \in ContextsOf(r) /\ ~Secure(r)
  BY <1>1, RunFacts DEF Asking
<1>3. OutcomeFits(r, outcome)
  BY <1>1, OutcomeFitting
<1>4. /\ crashes' = crashes
      /\ \/ Go(r, Idle) /\ row' = row /\ reasoningRows' = reasoningRows
         \/ /\ outcome.decision.outcome = "ADMITTED"
            /\ WriteCycle(r, outcome, id) /\ Set(r, AdoptedRow(r, id))
            /\ \E plan : Go(r, [Idle EXCEPT !.pc = "plan", !.result = plan])
            /\ UNCHANGED <<experiments, observations>>
         \/ /\ WriteCycle(r, outcome, None)
            /\ Go(r, [Idle EXCEPT !.pc = "finish", !.result = outcome])
            /\ UNCHANGED <<row, experiments, observations>>
  BY DEF PersistReasoning, Leave, unasked
<1> HIDE DEF outcome
<1>5. CASE Go(r, Idle) /\ row' = row /\ reasoningRows' = reasoningRows
  BY <1>1, <1>4, <1>5, IdleFits, GoStep DEF Idle
<1>6. CASE /\ outcome.decision.outcome = "ADMITTED"
           /\ WriteCycle(r, outcome, id) /\ Set(r, AdoptedRow(r, id))
           /\ \E plan : Go(r, [Idle EXCEPT !.pc = "plan", !.result = plan])
           /\ UNCHANGED <<experiments, observations>>
  <2>1. id \in OwnIds(r)
    <3>1. Len(hypotheses[r]) + 1 \in Nat
      BY <1>2 DEF ReasoningInvOf, RowsTyped
    <3> QED BY <3>1, IdTyped DEF Kinds
  <2>2. id # None
    BY <2>1, OwnIdIsNotNone
  <2>3. /\ RowsTyped(r)' /\ Grounded(r)'
        /\ \A h \in Range(hypotheses'[r]) : h \in Range(hypotheses[r]) \/ h.id = id
    BY <1>2, <1>3, <1>6, WrittenOnGrounds
  <2> HIDE DEF id
  <2>4. /\ AdoptedRow(r, id) \in RunRows(r) /\ AdoptedRow(r, id).phase = "HYPOTHESIS_ADMITTED"
        /\ AdoptedRow(r, id).hypothesis = id /\ AdoptedRow(r, id).state = "RUNNING"
        /\ AdoptedRow(r, id).experiment = row[r].experiment
    BY <1>2, <2>1 DEF AdoptedRow, RunRows, Controls, OwnIdsOrNone
  <2>5. row'[r] = AdoptedRow(r, id) /\ ctl'[r].pc = "plan"
    <3>1. PICK plan : Go(r, [Idle EXCEPT !.pc = "plan", !.result = plan])
      BY <1>6
    <3>2. [Idle EXCEPT !.pc = "plan", !.result = plan].pc = "plan"
      BY DEF Idle
    <3> QED BY <1>2, <1>6, <3>1, <3>2, RowSet, ControlSet
  <2>6. Elsewhere(r)
    BY <1>4, <1>6, WrittenElsewhere
  <2>7. RowTyped(r)'
    BY <2>2, <2>4, <2>5 DEF RowTyped, RowFits
  <2>8. ControlTyped(r)'
    BY <2>4, <2>5 DEF ControlTyped, ControlFits, Asking
  <2>9. Kept(r)'
    <3>1. Secure(r)' /\ row'[r].hypothesis = id
      BY <2>4, <2>5 DEF Secure
    <3>2. Tested(r)' = Tested(r)
      BY <1>6 DEF Tested
    <3>3. Doomed(r)' \subseteq Doomed(r)
      BY <1>2, <2>3, <3>1, <3>2, DoomedShrinks
    <3> QED BY <1>2, <1>4, <2>4, <2>5, <3>3, KeptStays DEF ReasoningInvOf
  <2> QED BY <2>3, <2>6, <2>7, <2>8, <2>9, InvOfRun DEF ReasoningInvOf
<1>7. CASE /\ WriteCycle(r, outcome, None)
           /\ Go(r, [Idle EXCEPT !.pc = "finish", !.result = outcome])
           /\ UNCHANGED <<row, experiments, observations>>
  <2>1. /\ RowsTyped(r)' /\ Grounded(r)'
        /\ \A h \in Range(hypotheses'[r]) : h \in Range(hypotheses[r])
    BY <1>2, <1>3, <1>7, WrittenOnGrounds
  <2>2. ctl'[r].pc = "finish"
    BY <1>2, <1>7, ControlSet DEF Idle
  <2>3. Elsewhere(r)
    BY <1>4, <1>7, WrittenElsewhere
  <2>4. RowTyped(r)'
    BY <1>2, <1>7 DEF ReasoningInvOf, RowTyped, RowFits
  <2>5. ControlTyped(r)'
    BY <1>2, <1>7, <2>2 DEF ControlTyped, ControlFits, Asking
  <2>6. Kept(r)'
    <3>1. Tested(r)' = Tested(r)
      BY <1>7 DEF Tested
    <3>2. Doomed(r)' \subseteq Doomed(r)
      BY <1>2, <2>1, <3>1, DoomedShrinks
    <3> QED BY <1>2, <1>4, <1>7, <3>2, KeptStays DEF ReasoningInvOf
  <2> QED BY <2>1, <2>3, <2>4, <2>5, <2>6, InvOfRun DEF ReasoningInvOf
<1> QED BY <1>4, <1>5, <1>6, <1>7


-----------------------------------------------------------------------------
(* Reasoning: what holds of every run.                                     *)

LEMMA ReasoningInvInit == ReasoningInit => ReasoningInv
<1> SUFFICES ASSUME ReasoningInit PROVE ReasoningInv
  OBVIOUS
<1>1. Domains
  BY DEF ReasoningInit, Domains
<1>2. ASSUME NEW r \in ResearchRuns PROVE ReasoningInvOf(r)
  <2>1. /\ hypotheses[r] = <<>> /\ reasoning[r] = <<>> /\ admissions[r] = <<>>
        /\ experiments[r] = <<>> /\ observations[r] = {Id(r, "obs", 0)} /\ ctl[r] = Idle
        /\ crashes[r] = 0
    BY DEF ReasoningInit
  <2>2. PICK state \in {"READY", "COMPLETED"} :
           row[r] = [state |-> state, phase |-> "CYCLE_READY", cycle |-> None,
                     opportunity |-> None, hypothesis |-> None, experiment |-> None,
                     stop |-> None]
    BY DEF ReasoningInit
  <2>3. RowsTyped(r)
    BY <2>1, IdTyped DEF RowsTyped, Kinds
  <2>4. RowTyped(r)
    BY <2>2 DEF RowTyped, RowFits, RunRows, OwnIdsOrNone, StatesAtRest
  <2>5. ControlTyped(r)
    BY <2>1, IdleFits DEF ControlTyped, ControlFits, Idle
  <2>6. Grounded(r) /\ Kept(r)
    <3>1. Grounded(r) /\ Doomed(r) = {}
      BY <2>1 DEF Grounded, Doomed, Range
    <3> QED BY <2>1, <3>1, FS_EmptySet DEF Kept
  <2> QED BY <2>3, <2>4, <2>5, <2>6 DEF ReasoningInvOf
<1> QED BY <1>1, <1>2 DEF ReasoningInv

LEMMA AllSameKeeps ==
    ASSUME ReasoningInv, row' = row, ctl' = ctl, reasoningRows' = reasoningRows,
           crashes' = crashes
    PROVE  ReasoningInv'
<1>1. \A r \in ResearchRuns : ReasoningInvOf(r)'
  BY SameKeeps DEF ReasoningInv, Same, reasoningRows
<1> QED BY <1>1 DEF ReasoningInv, Domains, reasoningRows

LEMMA ReasoningInvNext == ReasoningInv /\ [ReasoningNext]_reasoningVars => ReasoningInv'
<1> SUFFICES ASSUME ReasoningInv, [ReasoningNext]_reasoningVars PROVE ReasoningInv'
  OBVIOUS
<1>1. CASE AllocateProgramDailyBudget \/ NextDay \/ UNCHANGED reasoningVars
  BY <1>1, AllSameKeeps DEF AllocateProgramDailyBudget, NextDay, reasoningVars
<1>2. ASSUME NEW r \in ResearchRuns, ReasoningStep(r) PROVE ReasoningInv'
  BY <1>2, AdoptHypothesisStep, ResumeHypothesisStep, ExecuteExperimentStep, StepStopsStep,
     SelectOpportunityStep, TakeUpOpportunityStep, BuildResearchContextStep,
     ReserveModelCallStep, CallModelStep, RecordTokensStep, AskFalsifierStep,
     PersistReasoningStep, PlanHypothesisStep, FinishCycleStep
     DEF ReasoningStep
<1>3. ASSUME NEW r \in ResearchRuns, Crash(r) PROVE ReasoningInv'
  BY <1>3, CrashStep
<1> QED BY <1>1, <1>2, <1>3 DEF ReasoningNext

\* The invariant holds of the runs of a program, however many they are, whatever their
\* models answer and whenever their controllers die.
THEOREM ReasoningInvariant == ReasoningSpec => []ReasoningInv
BY ReasoningInvInit, ReasoningInvNext, PTL DEF ReasoningSpec

\* Every hypothesis was admitted once, on two answers given on one context of its run, and
\* cites what that context held.
THEOREM HypothesesGrounded == ReasoningSpec => []HypothesisGrounded
<1>1. ReasoningInv => HypothesisGrounded
  <2> SUFFICES ASSUME ReasoningInv, NEW r \in ResearchRuns, NEW h \in Range(hypotheses[r])
               PROVE  \E a \in Range(admissions[r]), g, f \in Range(reasoning[r]) :
                         /\ a.hypothesis = h.id /\ a.outcome = "ADMITTED"
                         /\ a.generator = g.id /\ g.id = h.origin /\ a.falsifier = f.id
                         /\ g.fingerprint = a.fingerprint /\ f.fingerprint = a.fingerprint
                         /\ f.output.alternatives > 0
                         /\ LET cited == {i \in a.fingerprint.items :
                                             i.id \in g.output.references} IN
                            /\ g.output.references = {i.id : i \in cited} /\ cited # {}
                            /\ \A i \in cited : i.id.run = r
                            /\ \A b \in Range(admissions[r]) : b.hypothesis = h.id => b = a
    BY DEF HypothesisGrounded
  <2>1. PICK a \in Range(admissions[r]) :
           /\ GroundedBy(r, h, a)
           /\ \A b \in Range(admissions[r]) : b.hypothesis = h.id => b = a
    BY DEF ReasoningInv, ReasoningInvOf, Grounded
  <2> QED BY <2>1 DEF GroundedBy
<1> QED BY <1>1, ReasoningInvariant, PTL

\* What is admitted and never tested is no more than the controller's deaths, and nothing
\* before the run's row names an experiment.
THEOREM HypothesesLostOnlyToDeaths == ReasoningSpec => []LostOnlyToDeaths
<1>1. ReasoningInv => LostOnlyToDeaths
  <2> SUFFICES ASSUME ReasoningInv, NEW r \in ResearchRuns
               PROVE  /\ Cardinality(Abandoned(r)) <= crashes[r]
                      /\ Abandoned(r) # {} => row[r].experiment # None
    BY DEF LostOnlyToDeaths
  <2>1. Kept(r) /\ (ctl[r].pc = "plan" => row[r].phase = "HYPOTHESIS_ADMITTED")
    BY RunFacts DEF ReasoningInvOf
  <2>2. Abandoned(r) \subseteq Doomed(r)
    <3> SUFFICES ASSUME NEW h \in Abandoned(r) PROVE h \in Doomed(r)
      OBVIOUS
    <3>1. /\ h \in {g.id : g \in Range(hypotheses[r])}
          /\ \A x \in Range(experiments[r]) : x.hypothesis # h
          /\ row[r].hypothesis = h =>
                row[r].phase # "HYPOTHESIS_ADMITTED" /\ row[r].stop # "CORE_BLOCKED"
      BY DEF Abandoned
    <3>2. row[r].hypothesis = h => ~Secure(r)
      BY <2>1, <3>1 DEF Secure
    <3> QED BY <3>1, <3>2 DEF Doomed, Tested
  <2>3. /\ IsFiniteSet(Abandoned(r))
        /\ Cardinality(Abandoned(r)) <= Cardinality(Doomed(r))
    BY <2>1, <2>2, FS_Subset DEF Kept
  <2>4. Cardinality(Abandoned(r)) \in Nat /\ Cardinality(Doomed(r)) \in Nat
    BY <2>1, <2>3, FS_CardinalityType DEF Kept
  <2> QED BY <2>1, <2>2, <2>3, <2>4 DEF Kept
<1> QED BY <1>1, ReasoningInvariant, PTL

-----------------------------------------------------------------------------
(* The daily allowance: what a day costs.                                  *)

\* Division keeps the order.
LEMMA DivisionKeepsOrder ==
    ASSUME NEW x \in Nat, NEW y \in Nat, NEW n \in Nat \ {0}, x <= y
    PROVE  x \div n \in Nat /\ x \div n <= y \div n
OBVIOUS

LEMMA CostsMore ==
    ASSUME NEW model, NEW i \in Nat, NEW o \in Nat, NEW j \in Nat, NEW p \in Nat,
           i <= j, o <= p
    PROVE  /\ EstimateCost(model, i, o) \in Nat
           /\ EstimateCost(model, i, o) <= EstimateCost(model, j, p)
<1>1. CASE model \notin DOMAIN Prices
  BY <1>1 DEF EstimateCost, Unpriced
<1>2. CASE model \in DOMAIN Prices
  <2>1. PICK a \in Nat, b \in Nat : a = Prices[model].in /\ b = Prices[model].out
    BY <1>2, ReasoningAssumption
  <2>2. i * a \in Nat /\ o * b \in Nat /\ j * a \in Nat /\ p * b \in Nat
        /\ i * a <= j * a /\ o * b <= p * b
    OBVIOUS
  <2>3. PICK x \in Nat, y \in Nat : x = i * a + o * b /\ y = j * a + p * b /\ x <= y
    <3>1. i * a + o * b \in Nat /\ j * a + p * b \in Nat /\ i * a + o * b <= j * a + p * b
      BY <2>2
    <3> QED
      BY <3>1
  <2>4. EstimateCost(model, i, o) = x \div PerTokens /\ EstimateCost(model, j, p) = y \div PerTokens
    BY <1>2, <2>1, <2>3 DEF EstimateCost
  <2>5. PerTokens \in Nat \ {0}
    BY ReasoningAssumption
  <2> QED
    BY <2>3, <2>4, <2>5, DivisionKeepsOrder
<1> QED
  BY <1>1, <1>2

\* At most one row makes an amount.
LEMMA AmountOfOne ==
    ASSUME NEW rows, IsFiniteSet(rows), \A t \in rows : t.amount \in Nat,
           \A t, u \in rows : t = u
    PROVE  LET amount == SumFunction([t \in rows |-> t.amount])
           IN amount \in Nat /\ (amount # 0 => \E t \in rows : amount = t.amount)
<1> DEFINE f == [t \in rows |-> t.amount]
<1>1. SumFunction(f) = SumFunctionOnSet(f, rows)
  BY DEF SumFunction
<1>2. \A t \in rows : f[t] = t.amount /\ f[t] \in Nat
  OBVIOUS
<1> HIDE DEF f
<1>3. /\ SumFunctionOnSet(f, rows) \in Nat
      /\ \A t \in rows : SumFunctionOnSet(f, rows) = f[t] + SumFunctionOnSet(f, rows \ {t})
  BY <1>2, SumAdds
<1>4. SumFunctionOnSet(f, {}) = 0
  BY SumStep, FS_EmptySet
<1>5. CASE rows = {}
  BY <1>1, <1>4, <1>5 DEF f
<1>6. CASE rows # {}
  <2>1. PICK t \in rows : rows \ {t} = {}
    BY <1>6
  <2>2. SumFunctionOnSet(f, rows) = t.amount
    BY <1>2, <1>3, <1>4, <2>1
  <2> QED
    BY <1>1, <1>3, <2>1, <2>2 DEF f
<1> QED
  BY <1>5, <1>6

\* An invocation costs what its rows say, by the price of one of them.
LEMMA InvocationCosts ==
    ASSUME NEW rows, IsFiniteSet(rows), rows # {},
           \A t \in rows : t.amount \in Nat,
           \A t, u \in rows : t.side = u.side => t = u
    PROVE  \E m \in rows, i, o \in Nat :
              /\ InvocationCost(rows) = EstimateCost(m.model, i, o)
              /\ i # 0 => \E t \in rows : t.side = "in" /\ t.amount = i
              /\ o # 0 => \E t \in rows : t.side = "out" /\ t.amount = o
<1> DEFINE of(s) == {u \in rows : u.side = s}
           amount(s) == SumFunction([t \in of(s) |-> t.amount])
           m == CHOOSE t \in rows : TRUE
<1>1. m \in rows
  OBVIOUS
<1>2. \A s \in {"in", "out"} :
         amount(s) \in Nat /\ (amount(s) # 0 => \E t \in of(s) : amount(s) = t.amount)
  <2> TAKE s \in {"in", "out"}
  <2>1. of(s) \in SUBSET rows /\ IsFiniteSet(of(s)) /\ \A t, u \in of(s) : t = u
    BY FS_Subset
  <2>2. \A t \in of(s) : t.amount \in Nat
    BY <2>1
  <2> HIDE DEF of
  <2> QED
    BY <2>1, <2>2, AmountOfOne
<1>3. InvocationCost(rows) = EstimateCost(m.model, amount("in"), amount("out"))
  BY DEF InvocationCost
<1> HIDE DEF amount, m
<1>4. /\ amount("in") # 0 => \E t \in rows : t.side = "in" /\ t.amount = amount("in")
      /\ amount("out") # 0 => \E t \in rows : t.side = "out" /\ t.amount = amount("out")
  BY <1>2
<1> QED
  BY <1>1, <1>2, <1>3, <1>4

-----------------------------------------------------------------------------
(* The daily allowance: its invariant.                                     *)

InFlight(r) == ctl[r].pc \in {"call", "in", "out"}

InvocationsOf(d) == {t.invocation : t \in {u \in tokens : u.day = d}}

TokensOf(d, i) == {t \in tokens : t.day = d /\ t.invocation = i}

CostsOn(d) == [i \in InvocationsOf(d) |-> InvocationCost(TokensOf(d, i))]

\* A token row is of one side of a call that was paid for; an invocation has one such row
\* of each side and day.
TokensPaid ==
    /\ IsFiniteSet(tokens)
    /\ \A t \in tokens :
          /\ t.invocation[1] \in ResearchRuns /\ t.side \in {"in", "out"}
          /\ t.day \in 1 .. day /\ t.amount \in Nat
          /\ \E n \in DOMAIN paid :
                /\ paid[n].model = t.model /\ t.model # None
                /\ t.amount = IF t.side = "in" THEN paid[n].counted.in ELSE paid[n].counted.out
    /\ \A t, u \in tokens :
          t.invocation = u.invocation /\ t.side = u.side /\ t.day = u.day => t = u

PaidTyped ==
    /\ paid \in Seq({paid[n] : n \in DOMAIN paid})
    /\ \A n \in DOMAIN paid : paid[n].counted.in \in Nat /\ paid[n].counted.out \in Nat

\* What a run is about to record was paid for.
ResultsPaid ==
    \A r \in ResearchRuns :
        ctl[r].pc \in {"in", "out"} =>
            /\ Records(ctl[r].result, ctl[r].pc)
            /\ ctl[r].result \in Results(r, "GENERATOR") \cup Results(r, "FALSIFIER")
            /\ \E n \in DOMAIN paid : /\ paid[n].model = ctl[r].result.model
                                      /\ paid[n].counted = Counted(ctl[r].result)

\* Without a policy nothing is recorded, and without a limit nothing is called.
GateClosed ==
    /\ policy \in Policies
    /\ policy = None => tokens = {}
    /\ policy # None /\ policy.limit \in {None, 0} =>
          tokens = {} /\ \A r \in ResearchRuns : ~InFlight(r)

\* The invocations of a day are those of a spend below the limit, and at most one more of
\* each run: the one it has in flight, when it has any.
Within(d, settled) ==
    /\ SumFunctionOnSet(CostsOn(d), settled) < policy.limit
    /\ \A i, j \in InvocationsOf(d) \ settled : i[1] = j[1] => i = j
    /\ d = day => \A i \in InvocationsOf(d) \ settled : InFlight(i[1]) => i = Invocation(i[1])

Settled(d) == \E settled \in SUBSET InvocationsOf(d) : Within(d, settled)

SpendInv ==
    /\ day \in Nat \ {0} /\ TokensPaid /\ PaidTyped /\ ResultsPaid /\ GateClosed
    /\ policy # None /\ policy.limit \notin {None, 0} => \A d \in Nat : Settled(d)

-----------------------------------------------------------------------------
(* The daily allowance: lemmas.                                            *)

\* The rows of the invocations of a day.
LEMMA RowsOfDay ==
    ASSUME TokensPaid, NEW d
    PROVE  /\ IsFiniteSet(InvocationsOf(d))
           /\ \A i \in InvocationsOf(d) : i[1] \in ResearchRuns
           /\ \A i \in InvocationsOf(d) :
                 /\ TokensOf(d, i) \subseteq tokens /\ IsFiniteSet(TokensOf(d, i))
                 /\ TokensOf(d, i) # {} /\ CostsOn(d)[i] = InvocationCost(TokensOf(d, i))
                 /\ \A t, u \in TokensOf(d, i) : t.side = u.side => t = u
<1> DEFINE rows == {u \in tokens : u.day = d}
           f == [t \in rows |-> t.invocation]
<1>1. IsFiniteSet(rows)
  BY FS_Subset DEF TokensPaid
<1>2. f \in Surjection(rows, InvocationsOf(d))
  BY DEF Surjection, InvocationsOf
<1>3. IsFiniteSet(InvocationsOf(d))
  <2> HIDE DEF f, rows
  <2> QED
    BY <1>1, <1>2, FS_Surjection
<1>4. ASSUME NEW i \in InvocationsOf(d)
      PROVE  /\ TokensOf(d, i) \subseteq tokens /\ IsFiniteSet(TokensOf(d, i))
             /\ TokensOf(d, i) # {} /\ CostsOn(d)[i] = InvocationCost(TokensOf(d, i))
             /\ \A t, u \in TokensOf(d, i) : t.side = u.side => t = u
  <2>1. TokensOf(d, i) \in SUBSET tokens
    BY DEF TokensOf
  <2>2. IsFiniteSet(TokensOf(d, i))
    BY <2>1, FS_Subset DEF TokensPaid
  <2>3. TokensOf(d, i) # {}
    BY DEF TokensOf, InvocationsOf
  <2>4. \A t, u \in TokensOf(d, i) : t.side = u.side => t = u
    BY DEF TokensOf, TokensPaid
  <2> QED
    BY <2>1, <2>2, <2>3, <2>4 DEF CostsOn
<1>5. \A i \in InvocationsOf(d) : i[1] \in ResearchRuns
  BY DEF InvocationsOf, TokensPaid
<1> QED
  BY <1>3, <1>4, <1>5

LEMMA CostsTyped ==
    ASSUME TokensPaid, NEW d
    PROVE  \A i \in InvocationsOf(d) : CostsOn(d)[i] \in Nat
<1> SUFFICES ASSUME NEW i \in InvocationsOf(d) PROVE CostsOn(d)[i] \in Nat
  OBVIOUS
<1>1. PICK rows : rows = TokensOf(d, i)
  OBVIOUS
<1>2. /\ rows \subseteq tokens /\ IsFiniteSet(rows) /\ rows # {}
      /\ CostsOn(d)[i] = InvocationCost(rows)
      /\ \A t, u \in rows : t.side = u.side => t = u
  BY <1>1, RowsOfDay
<1>3. \A t \in rows : t.amount \in Nat
  BY <1>2 DEF TokensPaid
<1>4. PICK m \in rows, a \in Nat, b \in Nat : InvocationCost(rows) = EstimateCost(m.model, a, b)
  BY <1>2, <1>3, InvocationCosts
<1> QED
  BY <1>2, <1>4, CostsMore

\* What a day costs is the sum of what its invocations do.
LEMMA SpentIs ==
    ASSUME TokensPaid, NEW d
    PROVE  /\ Spent(d) = SumFunctionOnSet(CostsOn(d), InvocationsOf(d))
           /\ \A A \in SUBSET InvocationsOf(d) : SumFunctionOnSet(CostsOn(d), A) \in Nat
<1> DEFINE records == {t \in tokens : t.day = d}
           of(i) == {t \in records : t.invocation = i}
<1>1. \A i \in InvocationsOf(d) : of(i) = TokensOf(d, i)
  BY DEF TokensOf
<1>2. {t.invocation : t \in records} = InvocationsOf(d)
  BY DEF InvocationsOf
<1>3. [i \in {t.invocation : t \in records} |-> InvocationCost(of(i))] = CostsOn(d)
  <2> HIDE DEF of, records
  <2> QED
    BY <1>1, <1>2 DEF CostsOn
<1>4. Spent(d) = SumFunction(CostsOn(d))
  BY <1>3 DEF Spent, SumEstimatedCost
<1>5. DOMAIN CostsOn(d) = InvocationsOf(d)
  BY DEF CostsOn
<1>6. Spent(d) = SumFunctionOnSet(CostsOn(d), InvocationsOf(d))
  BY <1>4, <1>5 DEF SumFunction
<1>7. ASSUME NEW A \in SUBSET InvocationsOf(d) PROVE SumFunctionOnSet(CostsOn(d), A) \in Nat
  <2>1. IsFiniteSet(A) /\ \A i \in A : CostsOn(d)[i] \in Nat
    BY RowsOfDay, CostsTyped, FS_Subset
  <2> QED
    BY <2>1, SumAdds
<1> QED
  BY <1>6, <1>7

\* While the rows stay and no run gets into flight, what a day settled stays settled.
LEMMA SettledKept ==
    ASSUME TokensPaid, policy' = policy, day' = day, tokens' = tokens,
           \A r \in ResearchRuns : InFlight(r)' => InFlight(r) /\ Invocation(r)' = Invocation(r),
           NEW d \in Nat, Settled(d)
    PROVE  Settled(d)'
<1>1. PICK A \in SUBSET InvocationsOf(d) : Within(d, A)
  BY DEF Settled
<1>2. InvocationsOf(d)' = InvocationsOf(d) /\ CostsOn(d)' = CostsOn(d)
  BY DEF CostsOn, TokensOf, InvocationsOf
<1>3. \A i \in InvocationsOf(d) : i[1] \in ResearchRuns
  BY RowsOfDay
<1>4. Within(d, A)'
  BY <1>1, <1>2, <1>3 DEF Within
<1> QED
  BY <1>2, <1>4 DEF Settled

\* A step that records and pays for nothing, and takes no run into a call.
LEMMA SpendKept ==
    ASSUME SpendInv, policy' = policy, day' = day, tokens' = tokens, paid' = paid,
           \A r \in ResearchRuns : ctl'[r] = ctl[r] \/ ctl'[r].pc \notin {"call", "in", "out"}
    PROVE  SpendInv'
<1>1. TokensPaid' /\ PaidTyped'
  BY DEF SpendInv, TokensPaid, PaidTyped
<1>2. \A r \in ResearchRuns : InFlight(r)' => InFlight(r) /\ ctl'[r] = ctl[r]
  BY DEF InFlight
<1>3. ResultsPaid'
  <2> SUFFICES ASSUME NEW r \in ResearchRuns, ctl'[r].pc \in {"in", "out"}
               PROVE  /\ Records(ctl[r].result, ctl[r].pc)'
                      /\ ctl'[r].result \in Results(r, "GENERATOR") \cup Results(r, "FALSIFIER")
                      /\ \E n \in DOMAIN paid' : /\ paid'[n].model = ctl'[r].result.model
                                                 /\ paid'[n].counted = Counted(ctl[r].result)'
    BY DEF ResultsPaid
  <2>1. ctl'[r] = ctl[r]
    OBVIOUS
  <2> QED
    BY <2>1 DEF SpendInv, ResultsPaid, Records, Counted
<1>4. GateClosed'
  BY <1>2 DEF SpendInv, GateClosed
<1>5. ASSUME NEW d \in Nat, Settled(d) PROVE Settled(d)'
  <2>1. \A r \in ResearchRuns : InFlight(r)' => InFlight(r) /\ Invocation(r)' = Invocation(r)
    BY <1>2 DEF Invocation
  <2> QED
    BY <1>5, <2>1, SettledKept DEF SpendInv
<1> QED
  BY <1>1, <1>3, <1>4, <1>5 DEF SpendInv

LEMMA SpendKeptByGo ==
    ASSUME SpendInv, Domains, NEW r \in ResearchRuns, NEW c, Go(r, c),
           c.pc \notin {"call", "in", "out"},
           policy' = policy, day' = day, tokens' = tokens, paid' = paid
    PROVE  SpendInv'
BY ControlSet, SpendKept

LEMMA NextDaySpend ==
    ASSUME SpendInv, NextDay
    PROVE  SpendInv'
<1>1. /\ day' = day + 1 /\ policy' = policy /\ tokens' = tokens /\ paid' = paid /\ ctl' = ctl
      /\ day \in Nat \ {0} /\ TokensPaid
  BY DEF NextDay, SpendInv
<1>2. TokensPaid'
  <2>1. 1 .. day \subseteq 1 .. day'
    BY <1>1
  <2> QED
    BY <1>1, <2>1 DEF TokensPaid
<1>3. PaidTyped' /\ ResultsPaid' /\ GateClosed'
  BY <1>1 DEF SpendInv, PaidTyped, ResultsPaid, Records, Counted, GateClosed, InFlight
<1>4. ASSUME NEW d \in Nat, policy # None, policy.limit \notin {None, 0}, Settled(d)
      PROVE  Settled(d)'
  <2>1. PICK A \in SUBSET InvocationsOf(d) : Within(d, A)
    BY <1>4 DEF Settled
  <2>2. InvocationsOf(d)' = InvocationsOf(d) /\ CostsOn(d)' = CostsOn(d)
    BY <1>1 DEF CostsOn, TokensOf, InvocationsOf
  <2>3. d = day' => InvocationsOf(d) = {}
    BY <1>1 DEF InvocationsOf, TokensPaid
  <2>4. Within(d, A)'
    BY <1>1, <2>1, <2>2, <2>3 DEF Within
  <2> QED
    BY <2>2, <2>4 DEF Settled
<1> QED
  BY <1>1, <1>2, <1>3, <1>4 DEF SpendInv

\* A call is let through while the day's spend is below the limit.
LEMMA ReserveSpend ==
    ASSUME SpendInv, Domains, NEW r \in ResearchRuns, ReserveModelCall(r)
    PROVE  SpendInv'
<1>1. /\ ctl[r].pc = "ask"
      /\ policy' = policy /\ day' = day /\ tokens' = tokens /\ paid' = paid
  BY DEF ReserveModelCall
<1>2. \/ Stop(r, "BUDGET_EXHAUSTED")
      \/ CheckProgramDailyBudget /\ Go(r, [ctl[r] EXCEPT !.pc = "call"])
  BY DEF ReserveModelCall
<1>3. CASE Stop(r, "BUDGET_EXHAUSTED")
  BY <1>1, <1>3, SpendKeptByGo DEF Stop, Leave, Idle
<1>4. CASE CheckProgramDailyBudget /\ Go(r, [ctl[r] EXCEPT !.pc = "call"])
  <2>1. /\ DOMAIN ctl' = ResearchRuns /\ ctl'[r] = [ctl[r] EXCEPT !.pc = "call"]
        /\ \A s \in ResearchRuns : s # r => ctl'[s] = ctl[s]
    BY <1>4, ControlSet
  <2>2. ctl'[r].pc \notin {"in", "out"}
    <3>1. \/ ctl'[r].pc = "call" \/ ctl'[r].pc = ctl[r].pc
      BY <2>1
    <3> QED
      BY <1>1, <3>1
  <2>3. TokensPaid' /\ PaidTyped'
    BY <1>1 DEF SpendInv, TokensPaid, PaidTyped
  <2>4. ResultsPaid'
    <3> SUFFICES ASSUME NEW s \in ResearchRuns, ctl'[s].pc \in {"in", "out"}
                 PROVE  /\ Records(ctl[s].result, ctl[s].pc)'
                        /\ ctl'[s].result \in Results(s, "GENERATOR") \cup Results(s, "FALSIFIER")
                        /\ \E n \in DOMAIN paid' : /\ paid'[n].model = ctl'[s].result.model
                                                   /\ paid'[n].counted = Counted(ctl[s].result)'
      BY DEF ResultsPaid
    <3>1. ctl'[s] = ctl[s]
      BY <2>1, <2>2
    <3> QED
      BY <1>1, <3>1 DEF SpendInv, ResultsPaid, Records, Counted
  <2>5. /\ TokensPaid /\ Spent(day) \in Nat
        /\ Spent(day) = SumFunctionOnSet(CostsOn(day), InvocationsOf(day))
    BY SpentIs DEF SpendInv
  <2>6. policy # None => policy.limit \notin {None, 0} /\ Spent(day) < policy.limit
    BY <1>4, <2>5 DEF CheckProgramDailyBudget
  <2>7. GateClosed'
    BY <1>1, <2>6 DEF SpendInv, GateClosed
  <2>8. ASSUME NEW d \in Nat, policy # None, Settled(d) PROVE Settled(d)'
    <3>1. InvocationsOf(d)' = InvocationsOf(d) /\ CostsOn(d)' = CostsOn(d)
      BY <1>1 DEF CostsOn, TokensOf, InvocationsOf
    <3>2. CASE d = day
      <4>1. Within(d, InvocationsOf(d))'
        BY <1>1, <2>5, <2>6, <2>8, <3>1, <3>2 DEF Within
      <4> QED
        BY <3>1, <4>1 DEF Settled
    <3>3. CASE d # day
      <4>1. PICK A \in SUBSET InvocationsOf(d) : Within(d, A)
        BY <2>8 DEF Settled
      <4>2. Within(d, A)'
        BY <1>1, <3>1, <3>3, <4>1 DEF Within
      <4> QED
        BY <3>1, <4>2 DEF Settled
    <3> QED
      BY <3>2, <3>3
  <2> QED
    BY <1>1, <2>3, <2>4, <2>6, <2>7, <2>8 DEF SpendInv
<1> QED
  BY <1>2, <1>3, <1>4

\* What a call gives was paid for, and is recorded for the same invocation.
LEMMA CallSpend ==
    ASSUME SpendInv, ReasoningInv, NEW r \in ResearchRuns, CallModel(r)
    PROVE  SpendInv'
<1>1. /\ ctl[r].pc = "call"
      /\ policy' = policy /\ day' = day /\ tokens' = tokens
  BY DEF CallModel
<1>2. PICK result \in Results(r, ctl[r].role) :
         /\ paid' = Append(paid, [run |-> r, role |-> ctl[r].role, day |-> day,
                                  model |-> result.model, counted |-> Counted(result)])
         /\ Go(r, [ctl[r] EXCEPT !.pc = IF Records(result, "in") THEN "in" ELSE
                                        IF Records(result, "out") THEN "out" ELSE "answer",
                                 !.result = result])
  BY DEF CallModel
<1> DEFINE call == [run |-> r, role |-> ctl[r].role, day |-> day,
                    model |-> result.model, counted |-> Counted(result)]
           c == [ctl[r] EXCEPT !.pc = IF Records(result, "in") THEN "in" ELSE
                                      IF Records(result, "out") THEN "out" ELSE "answer",
                               !.result = result]
<1>3. /\ DOMAIN ctl' = ResearchRuns /\ ctl'[r] = c
      /\ \A s \in ResearchRuns : s # r => ctl'[s] = ctl[s]
  BY <1>2, ControlSet DEF ReasoningInv
<1>4. result \in Results(r, "GENERATOR") \cup Results(r, "FALSIFIER")
  BY DEF Results
<1>5. call.model = result.model /\ call.counted = Counted(result)
      /\ call.counted.in \in Nat /\ call.counted.out \in Nat
  BY <1>4, ReasoningAssumption
<1> HIDE DEF call
<1>6. /\ DOMAIN paid \subseteq DOMAIN paid' /\ \A n \in DOMAIN paid : paid'[n] = paid[n]
      /\ Len(paid) + 1 \in DOMAIN paid' /\ paid'[Len(paid) + 1] = call
      /\ \A n \in DOMAIN paid' : n \in DOMAIN paid \/ paid'[n] = call
      /\ paid' \in Seq({paid'[n] : n \in DOMAIN paid'})
  <2>1. PICK S : paid \in Seq(S)
    BY DEF SpendInv, PaidTyped
  <2>2. paid' = Append(paid, call) /\ paid \in Seq(S \cup {call}) /\ Len(paid) \in Nat
        /\ DOMAIN paid = 1 .. Len(paid)
    BY <1>2, <2>1 DEF call
  <2>3. /\ Len(paid') = Len(paid) + 1 /\ DOMAIN paid' = 1 .. Len(paid')
        /\ \A n \in 1 .. Len(paid) : paid'[n] = paid[n]
        /\ paid'[Len(paid) + 1] = call /\ paid' \in Seq(S \cup {call})
    BY <2>2
  <2>4. paid' \in Seq({paid'[n] : n \in DOMAIN paid'})
    BY <2>3
  <2> QED
    BY <2>2, <2>3, <2>4
<1>7. TokensPaid'
  BY SMTT(30), <1>1, <1>6 DEF SpendInv, TokensPaid
<1>8. PaidTyped'
  BY <1>5, <1>6 DEF SpendInv, PaidTyped
<1>9. /\ ctl'[r].pc = "in" => Records(result, "in")
      /\ ctl'[r].pc = "out" => Records(result, "out")
      /\ ctl'[r].result = result
      /\ Invocation(r)' = Invocation(r)
  <2>1. ctl[r] \in Controls(r)
    BY <1>1, RunFacts
  <2>2. /\ c.result = result /\ c.cycle = ctl[r].cycle /\ c.role = ctl[r].role
        /\ c.pc = IF Records(result, "in") THEN "in" ELSE
                  IF Records(result, "out") THEN "out" ELSE "answer"
    BY <2>1 DEF Controls
  <2> QED
    BY <1>3, <2>2 DEF Invocation
<1>10. \A s \in ResearchRuns :
          InFlight(s)' => InFlight(s) /\ Invocation(s)' = Invocation(s)
  BY <1>1, <1>3, <1>9 DEF InFlight, Invocation
<1>11. ResultsPaid'
  <2> SUFFICES ASSUME NEW s \in ResearchRuns, ctl'[s].pc \in {"in", "out"}
               PROVE  /\ Records(ctl[s].result, ctl[s].pc)'
                      /\ ctl'[s].result \in Results(s, "GENERATOR") \cup Results(s, "FALSIFIER")
                      /\ \E n \in DOMAIN paid' : /\ paid'[n].model = ctl'[s].result.model
                                                 /\ paid'[n].counted = Counted(ctl[s].result)'
    BY DEF ResultsPaid
  <2>1. CASE s = r
    <3>1. Records(ctl[s].result, ctl[s].pc)'
      BY <1>1, <1>9, <2>1 DEF Records
    <3>2. Counted(ctl[s].result)' = Counted(result)
      BY <1>9, <2>1 DEF Counted
    <3> QED
      BY <1>4, <1>5, <1>6, <1>9, <2>1, <3>1, <3>2
  <2>2. CASE s # r
    <3>1. ctl'[s] = ctl[s]
      BY <1>3, <2>2
    <3>2. Records(ctl[s].result, ctl[s].pc)' /\ Counted(ctl[s].result)' = Counted(ctl[s].result)
      BY <1>1, <3>1 DEF SpendInv, ResultsPaid, Records, Counted
    <3>3. PICK n \in DOMAIN paid : /\ paid[n].model = ctl[s].result.model
                                   /\ paid[n].counted = Counted(ctl[s].result)
      BY <3>1 DEF SpendInv, ResultsPaid
    <3>4. ctl[s].result \in Results(s, "GENERATOR") \cup Results(s, "FALSIFIER")
      BY <3>1 DEF SpendInv, ResultsPaid
    <3> QED
      BY <1>6, <3>1, <3>2, <3>3, <3>4
  <2> QED
    BY <2>1, <2>2
<1>12. GateClosed'
  BY <1>1, <1>10 DEF SpendInv, GateClosed
<1>13. ASSUME NEW d \in Nat, Settled(d) PROVE Settled(d)'
  BY <1>1, <1>10, <1>13, SettledKept DEF SpendInv
<1> QED
  BY <1>1, <1>7, <1>8, <1>11, <1>12, <1>13 DEF SpendInv

\* A row added costs its own invocation something, and no other.
LEMMA OtherCosts ==
    ASSUME NEW t, tokens' = tokens \cup {t}, NEW d, NEW i, d # t.day \/ i # t.invocation
    PROVE  TokensOf(d, i)' = TokensOf(d, i)
BY DEF TokensOf

LEMMA RecordSpend ==
    ASSUME SpendInv, ReasoningInv, NEW r \in ResearchRuns, RecordTokens(r)
    PROVE  SpendInv'
<1> DEFINE side == ctl[r].pc
           result == ctl[r].result
           twice == \E t \in tokens : /\ t.invocation = Invocation(r)
                                      /\ t.side = side /\ t.day = day
           row0 == [invocation |-> Invocation(r), side |-> side, day |-> day,
                    model |-> result.model,
                    amount |-> IF side = "in" THEN result.prompt ELSE result.completion]
           c == [ctl[r] EXCEPT !.pc = IF side = "in" /\ Records(result, "out") THEN "out"
                                      ELSE "answer"]
<1>1. /\ side \in {"in", "out"}
      /\ policy' = policy /\ day' = day /\ paid' = paid
  BY DEF RecordTokens
<1>2. \/ Leave(r) /\ tokens' = tokens
      \/ twice /\ Go(r, c) /\ tokens' = tokens
      \/ ~twice /\ Go(r, c) /\ tokens' = tokens \cup {row0}
  BY DEF RecordTokens
<1>3. Domains /\ ctl[r] \in Controls(r)
  BY <1>1, RunFacts
<1>4. CASE Leave(r) /\ tokens' = tokens
  BY <1>1, <1>3, <1>4, SpendKeptByGo DEF Leave, Idle
<1>5. CASE Go(r, c)
  <2>1. /\ DOMAIN ctl' = ResearchRuns /\ ctl'[r] = c
        /\ \A s \in ResearchRuns : s # r => ctl'[s] = ctl[s]
    BY <1>3, <1>5, ControlSet
  <2>2. /\ c.result = result /\ c.cycle = ctl[r].cycle /\ c.role = ctl[r].role
        /\ c.pc = IF side = "in" /\ Records(result, "out") THEN "out" ELSE "answer"
    BY <1>3 DEF Controls
  <2> HIDE DEF c
  <2>3. \A s \in ResearchRuns : InFlight(s)' => InFlight(s) /\ Invocation(s)' = Invocation(s)
    BY <1>1, <2>1, <2>2 DEF InFlight, Invocation
  <2>4. PaidTyped'
    BY <1>1 DEF SpendInv, PaidTyped
  <2>5. ResultsPaid'
    <3> SUFFICES ASSUME NEW s \in ResearchRuns, ctl'[s].pc \in {"in", "out"}
                 PROVE  /\ Records(ctl[s].result, ctl[s].pc)'
                        /\ ctl'[s].result \in Results(s, "GENERATOR") \cup Results(s, "FALSIFIER")
                        /\ \E n \in DOMAIN paid' : /\ paid'[n].model = ctl'[s].result.model
                                                   /\ paid'[n].counted = Counted(ctl[s].result)'
      BY DEF ResultsPaid
    <3>1. ctl'[s].result = ctl[s].result /\ ctl[s].pc \in {"in", "out"}
      BY <1>1, <2>1, <2>2
    <3>2. Records(ctl[s].result, ctl[s].pc)'
      <4>1. CASE s = r
        BY <1>1, <2>1, <2>2, <4>1 DEF Records
      <4>2. CASE s # r
        BY <1>1, <2>1, <3>1, <4>2 DEF SpendInv, ResultsPaid, Records
      <4> QED
        BY <4>1, <4>2
    <3>3. Counted(ctl[s].result)' = Counted(ctl[s].result)
      BY <3>1 DEF Counted
    <3>4. /\ ctl[s].result \in Results(s, "GENERATOR") \cup Results(s, "FALSIFIER")
          /\ \E n \in DOMAIN paid : /\ paid[n].model = ctl[s].result.model
                                    /\ paid[n].counted = Counted(ctl[s].result)
      BY <3>1 DEF SpendInv, ResultsPaid
    <3> QED
      BY <1>1, <3>1, <3>2, <3>3, <3>4
  <2>6. CASE tokens' = tokens
    <3>1. TokensPaid'
      BY <1>1, <2>6 DEF SpendInv, TokensPaid
    <3>2. GateClosed'
      BY <1>1, <2>3, <2>6 DEF SpendInv, GateClosed
    <3>3. ASSUME NEW d \in Nat, Settled(d) PROVE Settled(d)'
      BY <1>1, <2>3, <2>6, <3>3, SettledKept DEF SpendInv
    <3> QED
      BY <1>1, <2>4, <2>5, <3>1, <3>2, <3>3 DEF SpendInv
  <2>7. CASE ~twice /\ tokens' = tokens \cup {row0}
    <3>1. PICK n \in DOMAIN paid : /\ paid[n].model = result.model
                                   /\ paid[n].counted = Counted(result)
      BY <1>1 DEF SpendInv, ResultsPaid
    <3>2. Records(result, side) /\ result \in Results(r, "GENERATOR") \cup Results(r, "FALSIFIER")
      BY <1>1 DEF SpendInv, ResultsPaid
    <3>3. /\ row0.invocation = Invocation(r) /\ row0.side = side /\ row0.day = day
          /\ row0.model = result.model /\ result.model # None /\ policy # None
          /\ row0.amount = IF side = "in" THEN Counted(result).in ELSE Counted(result).out
          /\ row0.amount \in Nat
      BY <1>1, <3>2, ReasoningAssumption DEF Records
    <3>4. Invocation(r)[1] = r
      BY DEF Invocation
    <3> HIDE DEF row0, result, side
    <3>5. TokensPaid'
      <4>1. IsFiniteSet(tokens')
        BY <2>7, FS_AddElement DEF SpendInv, TokensPaid
      <4>2. \A t \in tokens' :
               /\ t.invocation[1] \in ResearchRuns /\ t.side \in {"in", "out"}
               /\ t.day \in 1 .. day' /\ t.amount \in Nat
               /\ \E m \in DOMAIN paid' :
                     /\ paid'[m].model = t.model /\ t.model # None
                     /\ t.amount = IF t.side = "in" THEN paid'[m].counted.in
                                   ELSE paid'[m].counted.out
        <5>1. day \in 1 .. day
          BY DEF SpendInv
        <5> QED
          BY <1>1, <2>7, <3>1, <3>3, <3>4, <5>1 DEF SpendInv, TokensPaid
      <4>3. \A t, u \in tokens' :
               t.invocation = u.invocation /\ t.side = u.side /\ t.day = u.day => t = u
        <5>1. \A t \in tokens :
                 ~(t.invocation = row0.invocation /\ t.side = row0.side /\ t.day = row0.day)
          BY <2>7, <3>3
        <5> QED
          BY <2>7, <5>1 DEF SpendInv, TokensPaid
      <4> QED
        BY <4>1, <4>2, <4>3 DEF TokensPaid
    <3>6. GateClosed'
      <4>1. InFlight(r)
        BY <1>1 DEF InFlight, side
      <4> QED
        BY <1>1, <2>3, <3>3, <4>1 DEF SpendInv, GateClosed
    <3>7. ASSUME NEW d \in Nat, Settled(d), policy.limit \in Nat PROVE Settled(d)'
      <4>1. PICK A \in SUBSET InvocationsOf(d) : Within(d, A)
        BY <3>7 DEF Settled
      <4>2. CASE d # day
        <5>1. \A i : TokensOf(d, i)' = TokensOf(d, i)
          BY <2>7, <3>3, <4>2, OtherCosts
        <5>2. InvocationsOf(d)' = InvocationsOf(d)
          BY <2>7, <3>3, <4>2 DEF InvocationsOf
        <5>3. CostsOn(d)' = CostsOn(d)
          BY <5>1, <5>2 DEF CostsOn
        <5>4. Within(d, A)'
          BY <1>1, <4>1, <4>2, <5>2, <5>3 DEF Within
        <5> QED
          BY <5>2, <5>4 DEF Settled
      <4>3. CASE d = day
        <5>0. PICK i0 : i0 = Invocation(r)
          OBVIOUS
        <5> DEFINE B == A \ {i0}
        <5>1. \A i : i # i0 => TokensOf(d, i)' = TokensOf(d, i)
          BY <2>7, <3>3, <5>0, OtherCosts
        <5>2. InvocationsOf(d)' = InvocationsOf(d) \cup {i0}
          BY <2>7, <3>3, <4>3, <5>0 DEF InvocationsOf
        <5>3. \A i \in B : CostsOn(d)'[i] = CostsOn(d)[i]
          BY <5>1, <5>2 DEF CostsOn
        <5>4. /\ IsFiniteSet(A) /\ IsFiniteSet(B)
              /\ \A i \in A : CostsOn(d)[i] \in Nat
          BY RowsOfDay, CostsTyped, FS_Subset DEF SpendInv
        <5> DEFINE before == CostsOn(d)
                   after == CostsOn(d)'
        <5>5. SumFunctionOnSet(after, B) = SumFunctionOnSet(before, B)
          <6> HIDE DEF before, after, B
          <6> QED
            BY <5>3, <5>4, SumSame DEF before, after
        <5>6. /\ SumFunctionOnSet(before, A) \in Nat /\ SumFunctionOnSet(before, B) \in Nat
              /\ SumFunctionOnSet(before, B) <= SumFunctionOnSet(before, A)
          <6> HIDE DEF before, after
          <6>1. SumFunctionOnSet(before, A) \in Nat
                /\ \A i \in A : SumFunctionOnSet(before, A) = before[i] + SumFunctionOnSet(before, A \ {i})
            BY <5>4, SumAdds DEF before
          <6>2. SumFunctionOnSet(before, B) \in Nat
            BY <5>4, SumAdds DEF before
          <6>3. CASE i0 \in A
            BY <5>4, <6>1, <6>2, <6>3 DEF before
          <6>4. CASE i0 \notin A
            <7>1. B = A
              BY <6>4
            <7> QED
              BY <6>1, <7>1
          <6> QED
            BY <6>1, <6>2, <6>3, <6>4
        <5>7. SumFunctionOnSet(after, B) < policy.limit
          <6>1. SumFunctionOnSet(before, A) < policy.limit
            BY <4>1 DEF Within
          <6> HIDE DEF before, after, B
          <6> QED
            BY <3>7, <5>5, <5>6, <6>1
        <5>8. /\ InFlight(r) /\ i0[1] = r
              /\ \A i \in InvocationsOf(d) : i[1] \in ResearchRuns
          BY <1>1, <3>4, <5>0, RowsOfDay DEF InFlight, side, SpendInv
        <5>9. \A i \in InvocationsOf(d) \ A : i[1] = r => i = i0
          BY <4>1, <4>3, <5>0, <5>8 DEF Within
        <5>10. \A i, j \in (InvocationsOf(d) \cup {i0}) \ B : i[1] = j[1] => i = j
          BY <4>1, <5>8, <5>9 DEF Within
        <5>11. \A i \in (InvocationsOf(d) \cup {i0}) \ B :
                  InFlight(i[1])' => i = Invocation(i[1])'
          <6> SUFFICES ASSUME NEW i \in (InvocationsOf(d) \cup {i0}) \ B, InFlight(i[1])'
                       PROVE  i = Invocation(i[1])'
            OBVIOUS
          <6>1. i[1] \in ResearchRuns
            BY <5>8
          <6>2. InFlight(i[1]) /\ Invocation(i[1])' = Invocation(i[1])
            BY <2>3, <6>1
          <6>3. CASE i = i0
            BY <5>0, <5>8, <6>2, <6>3
          <6>4. CASE i # i0
            BY <4>1, <4>3, <6>2, <6>4 DEF Within
          <6> QED
            BY <6>3, <6>4
        <5>12. Within(d, B)'
          BY <1>1, <4>3, <5>2, <5>7, <5>10, <5>11 DEF Within
        <5> QED
          BY <5>2, <5>12 DEF Settled
      <4> QED
        BY <4>2, <4>3
    <3>8. policy.limit \notin {None, 0} => policy.limit \in Nat
      BY <3>3, ReasoningAssumption DEF SpendInv, GateClosed
    <3> QED
      BY <1>1, <2>4, <2>5, <3>5, <3>6, <3>7, <3>8 DEF SpendInv
  <2> QED
    BY <1>2, <1>4, <2>6, <2>7
<1> QED
  BY <1>2, <1>4, <1>5

LEMMA SpendInvInit == ReasoningInit => SpendInv
<1> SUFFICES ASSUME ReasoningInit PROVE SpendInv
  OBVIOUS
<1>1. /\ policy \in Policies /\ day = 1 /\ tokens = {} /\ paid = <<>>
      /\ \A r \in ResearchRuns : ctl[r] = Idle
  BY DEF ReasoningInit
<1>2. TokensPaid
  BY <1>1, FS_EmptySet DEF TokensPaid
<1>3. PaidTyped
  <2>1. DOMAIN paid = {} /\ <<>> \in Seq({paid[n] : n \in DOMAIN paid})
    BY <1>1
  <2> QED
    BY <1>1, <2>1 DEF PaidTyped
<1>4. ResultsPaid /\ \A r \in ResearchRuns : ~InFlight(r)
  BY <1>1 DEF ResultsPaid, InFlight, Idle
<1>5. GateClosed
  BY <1>1, <1>4 DEF GateClosed
<1>6. ASSUME NEW d \in Nat, policy # None, policy.limit \notin {None, 0} PROVE Settled(d)
  <2>1. InvocationsOf(d) = {}
    BY <1>1 DEF InvocationsOf
  <2>2. SumFunctionOnSet(CostsOn(d), {}) = 0
    BY SumStep, FS_EmptySet
  <2>3. policy.limit \in Nat
    BY <1>1, <1>6, ReasoningAssumption
  <2>4. Within(d, {})
    BY <1>6, <2>1, <2>2, <2>3 DEF Within
  <2> QED
    BY <2>4 DEF Settled
<1> QED
  BY <1>1, <1>2, <1>3, <1>4, <1>5, <1>6 DEF SpendInv

\* The steps that neither call nor record.
LEMMA OtherSpend ==
    ASSUME SpendInv, ReasoningInv, NEW r \in ResearchRuns,
           \/ AdoptHypothesis(r) \/ ResumeHypothesis(r) \/ PlanHypothesis(r)
           \/ ExecuteExperiment(r) \/ StepStops(r)
           \/ SelectOpportunity(r) \/ TakeUpOpportunity(r) \/ BuildResearchContext(r)
           \/ AskFalsifier(r) \/ PersistReasoning(r) \/ FinishCycle(r) \/ Crash(r)
    PROVE  SpendInv'
<1>1. policy' = policy /\ day' = day /\ tokens' = tokens /\ paid' = paid
  BY DEF AdoptHypothesis, ResumeHypothesis, PlanHypothesis, ExecuteExperiment, StepStops,
         SelectOpportunity, TakeUpOpportunity, BuildResearchContext, AskFalsifier,
         PersistReasoning, FinishCycle, Crash, unasked
<1>2. Domains
  BY DEF ReasoningInv
<1>3. CASE AdoptHypothesis(r) \/ ResumeHypothesis(r)
  <2>1. ctl' = ctl
    BY <1>3 DEF AdoptHypothesis, ResumeHypothesis
  <2> QED
    BY <1>1, <2>1, SpendKept
<1>4. CASE \/ PlanHypothesis(r) \/ ExecuteExperiment(r) \/ StepStops(r)
           \/ FinishCycle(r) \/ Crash(r)
  <2>1. Go(r, Idle)
    BY <1>4 DEF PlanHypothesis, ExecuteExperiment, CycleOver, StepStops, FinishCycle, Crash,
                Stop, Leave
  <2> QED
    BY <1>1, <1>2, <2>1, SpendKeptByGo DEF Idle
<1>5. CASE SelectOpportunity(r) \/ TakeUpOpportunity(r)
  <2> DEFINE c(opportunity) == [Idle EXCEPT !.pc = "context", !.cycle = CycleId(r),
                                            !.opportunity = opportunity]
  <2>1. Go(r, c(Id(r, "opportunity", 1))) \/ Go(r, c(row[r].opportunity))
    BY <1>5 DEF SelectOpportunity, TakeUpOpportunity
  <2>2. \A opportunity : c(opportunity).pc = "context"
    BY DEF Idle
  <2> HIDE DEF c
  <2> QED
    BY <1>1, <1>2, <2>1, <2>2, SpendKeptByGo
<1>6. CASE BuildResearchContext(r)
  <2>1. ctl[r] \in Controls(r)
    BY <1>6, RunFacts DEF BuildResearchContext
  <2>2. PICK context : Go(r, [ctl[r] EXCEPT !.pc = "ask", !.role = "GENERATOR",
                                           !.context = context])
    BY <1>6 DEF BuildResearchContext
  <2> DEFINE c == [ctl[r] EXCEPT !.pc = "ask", !.role = "GENERATOR", !.context = context]
  <2>3. Go(r, c) /\ c.pc = "ask"
    BY <2>1, <2>2 DEF Controls
  <2> HIDE DEF c
  <2> QED
    BY <1>1, <1>2, <2>3, SpendKeptByGo
<1>7. CASE AskFalsifier(r)
  <2>1. ctl[r] \in Controls(r)
    BY <1>7, RunFacts DEF AskFalsifier
  <2> DEFINE c == [ctl[r] EXCEPT !.pc = "ask", !.role = "FALSIFIER",
                                 !.generated = ctl[r].result]
  <2>2. Go(r, c) /\ c.pc = "ask"
    BY <1>7, <2>1 DEF AskFalsifier, Controls
  <2> HIDE DEF c
  <2> QED
    BY <1>1, <1>2, <2>2, SpendKeptByGo
<1>8. CASE PersistReasoning(r)
  <2> DEFINE c(pc, result) == [Idle EXCEPT !.pc = pc, !.result = result]
  <2>1. Go(r, Idle) \/ \E pc \in {"plan", "finish"} : \E result : Go(r, c(pc, result))
    BY <1>8 DEF PersistReasoning, Leave
  <2>2. Idle.pc = "idle" /\ \A pc, result : c(pc, result).pc = pc
    BY DEF Idle
  <2> HIDE DEF c
  <2> QED
    BY <1>1, <1>2, <2>1, <2>2, SpendKeptByGo
<1> QED
  BY <1>3, <1>4, <1>5, <1>6, <1>7, <1>8

LEMMA SpendInvNext ==
    SpendInv /\ ReasoningInv /\ [ReasoningNext]_reasoningVars => SpendInv'
<1> SUFFICES ASSUME SpendInv, ReasoningInv, [ReasoningNext]_reasoningVars PROVE SpendInv'
  OBVIOUS
<1>1. CASE AllocateProgramDailyBudget
  BY <1>1, SpendKept DEF AllocateProgramDailyBudget
<1>2. CASE NextDay
  BY <1>2, NextDaySpend
<1>3. ASSUME NEW r \in ResearchRuns, ReasoningStep(r) \/ Crash(r) PROVE SpendInv'
  <2>1. CASE ReserveModelCall(r)
    BY <2>1, ReserveSpend DEF ReasoningInv
  <2>2. CASE CallModel(r)
    BY <2>2, CallSpend
  <2>3. CASE RecordTokens(r)
    BY <2>3, RecordSpend
  <2> QED
    BY <1>3, <2>1, <2>2, <2>3, OtherSpend DEF ReasoningStep
<1>4. CASE UNCHANGED reasoningVars
  BY <1>4, SpendKept DEF reasoningVars
<1> QED
  BY <1>1, <1>2, <1>3, <1>4 DEF ReasoningNext

\* What is recorded was paid for before, call by call, and a day's spend is one below the
\* limit and one invocation more of each run (BudgetEnforcedModelPort).
THEOREM SpendInvariant == ReasoningSpec => []SpendInv
<1>1. SpendInv /\ ReasoningInv /\ [ReasoningNext]_reasoningVars => SpendInv'
  BY SpendInvNext
<1> QED
  BY <1>1, SpendInvInit, ReasoningInvariant, PTL DEF ReasoningSpec

\* What answered calls may cost together, if any were paid for.
LEMMA CostsHaveMax ==
    ASSUME PaidTyped
    PROVE  LET answered == {p \in Range(paid) : p.model # None}
               costs == {EstimateCost(m.model, i.counted.in, o.counted.out) :
                            m, i, o \in answered}
           IN /\ costs \subseteq Nat
              /\ answered # {} => Max(costs) \in Nat /\ \A c \in costs : c <= Max(costs)
<1> DEFINE answered == {p \in Range(paid) : p.model # None}
           costs == {EstimateCost(m.model, i.counted.in, o.counted.out) : m, i, o \in answered}
           triples == (answered \X answered) \X answered
           f == [x \in triples |->
                    EstimateCost(x[1][1].model, x[1][2].counted.in, x[2].counted.out)]
           g == [n \in DOMAIN paid |-> paid[n]]
<1>1. /\ DOMAIN paid = 1 .. Len(paid) /\ Len(paid) \in Nat
      /\ \A p \in Range(paid) : p.counted.in \in Nat /\ p.counted.out \in Nat
  BY DEF PaidTyped, Range
<1>2. IsFiniteSet(Range(paid))
  <2>1. IsFiniteSet(DOMAIN paid)
    BY <1>1, FS_Interval
  <2>2. g \in Surjection(DOMAIN paid, Range(paid))
    BY DEF Surjection, Range
  <2> HIDE DEF g
  <2> QED
    BY <2>1, <2>2, FS_Surjection
<1>3. IsFiniteSet(answered)
  BY <1>2, FS_Subset
<1>4. IsFiniteSet(triples)
  <2> HIDE DEF answered
  <2> QED
    BY <1>3, FS_Product
<1>5. \A m, i, o \in answered : EstimateCost(m.model, i.counted.in, o.counted.out) \in Nat
  BY <1>1, CostsMore
<1>6. costs \subseteq Nat
  BY <1>5
<1>7. f \in Surjection(triples, costs)
  <2> HIDE DEF answered
  <2>1. f \in [triples -> costs]
    OBVIOUS
  <2>2. \A c \in costs : \E x \in triples : f[x] = c
    <3> SUFFICES ASSUME NEW m \in answered, NEW i \in answered, NEW o \in answered
                 PROVE  \E x \in triples :
                           f[x] = EstimateCost(m.model, i.counted.in, o.counted.out)
      OBVIOUS
    <3>1. <<<<m, i>>, o>> \in triples
          /\ f[<<<<m, i>>, o>>] = EstimateCost(m.model, i.counted.in, o.counted.out)
      OBVIOUS
    <3> QED
      BY <3>1
  <2> QED
    BY <2>1, <2>2 DEF Surjection
<1>8. IsFiniteSet(costs)
  <2> HIDE DEF f, triples, costs
  <2> QED
    BY <1>4, <1>7, FS_Surjection
<1>9. ASSUME answered # {} PROVE Max(costs) \in Nat /\ \A c \in costs : c <= Max(costs)
  <2>1. costs # {}
    BY <1>9
  <2> HIDE DEF costs
  <2>2. PICK b \in Nat : costs \subseteq 0 .. b
    BY <1>6, <1>8, FiniteIsBounded
  <2>3. \E m \in costs : \A c \in costs : m >= c
    BY <2>1, <2>2, GreatestNumber
  <2> QED
    BY <1>6, <2>3 DEF Max
<1> QED
  BY <1>6, <1>9

\* No invocation costs more than calls that were paid for come to.
LEMMA InvocationWithinCosts ==
    ASSUME TokensPaid, PaidTyped, NEW d, NEW i \in InvocationsOf(d)
    PROVE  LET answered == {p \in Range(paid) : p.model # None}
           IN \E p, q, s \in answered :
                 CostsOn(d)[i] <= EstimateCost(p.model, q.counted.in, s.counted.out)
<1> DEFINE answered == {p \in Range(paid) : p.model # None}
<1>1. PICK rows : rows = TokensOf(d, i)
  OBVIOUS
<1>2. /\ rows \subseteq tokens /\ IsFiniteSet(rows) /\ rows # {}
      /\ CostsOn(d)[i] = InvocationCost(rows)
      /\ \A t, u \in rows : t.side = u.side => t = u
  BY <1>1, RowsOfDay
<1>3. \A t \in rows : t.amount \in Nat
  BY <1>2 DEF TokensPaid
<1>4. PICK m \in rows, a \in Nat, b \in Nat :
         /\ InvocationCost(rows) = EstimateCost(m.model, a, b)
         /\ a # 0 => \E t \in rows : t.side = "in" /\ t.amount = a
         /\ b # 0 => \E t \in rows : t.side = "out" /\ t.amount = b
  BY <1>2, <1>3, InvocationCosts
<1>5. \A t \in rows : \E p \in answered :
         /\ p.model = t.model
         /\ t.amount = IF t.side = "in" THEN p.counted.in ELSE p.counted.out
  BY <1>2 DEF TokensPaid, Range
<1>6. \A p \in answered : p.counted.in \in Nat /\ p.counted.out \in Nat
  BY DEF PaidTyped, Range
<1> HIDE DEF answered
<1>7. PICK p \in answered : p.model = m.model
  BY <1>5
<1>8. PICK q \in answered : a <= q.counted.in
  <2>1. CASE a = 0
    BY <1>6, <1>7, <2>1
  <2>2. CASE a # 0
    BY <1>4, <1>5, <2>2
  <2> QED
    BY <2>1, <2>2
<1>9. PICK s \in answered : b <= s.counted.out
  <2>1. CASE b = 0
    BY <1>6, <1>7, <2>1
  <2>2. CASE b # 0
    BY <1>4, <1>5, <2>2
  <2> QED
    BY <2>1, <2>2
<1>10. EstimateCost(m.model, a, b) <= EstimateCost(m.model, q.counted.in, s.counted.out)
  BY <1>6, <1>8, <1>9, CostsMore
<1> QED
  BY <1>2, <1>4, <1>7, <1>10 DEF answered

LEMMA SpendFromInvariant == SpendInv => DailySpendBounded
<1> SUFFICES ASSUME SpendInv, NEW d \in 1 .. MaxDays, policy # None, Spent(d) > 0
             PROVE  LET answered == {p \in Range(paid) : p.model # None}
                        costs == {EstimateCost(m.model, i.counted.in, o.counted.out) :
                                     m, i, o \in answered}
                    IN Spent(d) <= policy.limit - 1 + Cardinality(ResearchRuns) * Max(costs)
  BY DEF DailySpendBounded
<1> DEFINE answered == {p \in Range(paid) : p.model # None}
           costs == {EstimateCost(m.model, i.counted.in, o.counted.out) : m, i, o \in answered}
<1>1. TokensPaid /\ PaidTyped /\ GateClosed
  BY DEF SpendInv
<1>2. /\ Spent(d) = SumFunctionOnSet(CostsOn(d), InvocationsOf(d)) /\ Spent(d) \in Nat
      /\ \A A \in SUBSET InvocationsOf(d) : SumFunctionOnSet(CostsOn(d), A) \in Nat
  BY <1>1, SpentIs
<1>3. InvocationsOf(d) # {}
  <2>1. SumFunctionOnSet(CostsOn(d), {}) = 0
    BY SumStep, FS_EmptySet
  <2> QED
    BY <1>2, <2>1
<1>4. policy.limit \notin {None, 0} /\ policy.limit \in Nat
  <2>1. tokens # {}
    BY <1>3 DEF InvocationsOf
  <2> QED
    BY <1>1, <2>1, ReasoningAssumption DEF GateClosed
<1>5. PICK A \in SUBSET InvocationsOf(d) : Within(d, A)
  <2>1. d \in Nat
    OBVIOUS
  <2> QED
    BY <1>4, <2>1 DEF SpendInv, Settled
<1>6. \A i \in InvocationsOf(d) : \E p, q, s \in answered :
         CostsOn(d)[i] <= EstimateCost(p.model, q.counted.in, s.counted.out)
  BY <1>1, InvocationWithinCosts
<1>7. answered # {}
  BY <1>3, <1>6
<1>8. Max(costs) \in Nat /\ \A c \in costs : c <= Max(costs)
  BY <1>1, <1>7, CostsHaveMax
<1>9. costs \subseteq Nat
  BY <1>1, CostsHaveMax
<1>11. \A p, q, s \in answered : EstimateCost(p.model, q.counted.in, s.counted.out) \in costs
  OBVIOUS
<1> HIDE DEF costs, answered
<1>10. PICK B \in Nat : B = Max(costs)
  BY <1>8
<1>12. \A i \in InvocationsOf(d) : CostsOn(d)[i] \in Nat /\ CostsOn(d)[i] <= B
  <2> SUFFICES ASSUME NEW i \in InvocationsOf(d)
               PROVE  CostsOn(d)[i] \in Nat /\ CostsOn(d)[i] <= B
    OBVIOUS
  <2>1. PICK p \in answered, q \in answered, s \in answered :
           CostsOn(d)[i] <= EstimateCost(p.model, q.counted.in, s.counted.out)
    BY <1>6
  <2>2. PICK x \in Nat : x = EstimateCost(p.model, q.counted.in, s.counted.out) /\ x <= B
    BY <1>8, <1>9, <1>10, <1>11
  <2>3. CostsOn(d)[i] \in Nat
    BY <1>1, CostsTyped
  <2> QED
    BY <2>1, <2>2, <2>3
<1> DEFINE R == InvocationsOf(d) \ A
<1>13. IsFiniteSet(InvocationsOf(d)) /\ \A i \in InvocationsOf(d) : i[1] \in ResearchRuns
  BY <1>1, RowsOfDay
<1>14. Cardinality(R) \in Nat /\ Cardinality(ResearchRuns) \in Nat
       /\ Cardinality(R) <= Cardinality(ResearchRuns)
  <2> DEFINE f == [i \in R |-> i[1]]
  <2>1. f \in Injection(R, ResearchRuns)
    BY <1>5, <1>13 DEF Injection, IsInjective, Within
  <2>2. IsFiniteSet(ResearchRuns) /\ IsFiniteSet(R)
    BY <1>13, ReasoningAssumption, FS_Subset
  <2> HIDE DEF f, R
  <2> QED
    BY <2>1, <2>2, FS_Injection, FS_CardinalityType
<1>15. Spent(d) <= SumFunctionOnSet(CostsOn(d), A) + Cardinality(R) * B
  <2>1. R \in SUBSET InvocationsOf(d) /\ InvocationsOf(d) \ R = A
    OBVIOUS
  <2> HIDE DEF R
  <2>2. \A i \in R : CostsOn(d)[i] <= B
    BY <1>12, <2>1
  <2>3. SumFunctionOnSet(CostsOn(d), InvocationsOf(d))
          <= SumFunctionOnSet(CostsOn(d), InvocationsOf(d) \ R) + Cardinality(R) * B
    BY <1>12, <1>13, <2>1, <2>2, SumBound
  <2> QED
    BY <1>2, <2>1, <2>3
<1>16. SumFunctionOnSet(CostsOn(d), A) \in Nat /\ SumFunctionOnSet(CostsOn(d), A) < policy.limit
  BY <1>2, <1>5 DEF Within
<1> HIDE DEF R
<1>17. /\ Cardinality(R) * B <= Cardinality(ResearchRuns) * B
       /\ Cardinality(R) * B \in Nat /\ Cardinality(ResearchRuns) * B \in Nat
  BY <1>14
<1>18. PICK x \in Nat, y \in Nat : x = Cardinality(R) * B /\ y = Cardinality(ResearchRuns) * B /\ x <= y
  BY <1>17
<1>19. Spent(d) <= policy.limit - 1 + Cardinality(ResearchRuns) * B
  BY <1>2, <1>4, <1>15, <1>16, <1>18
<1> QED
  BY <1>10, <1>19 DEF costs, answered

\* What is recorded against a day stays below its limit but for one invocation of each
\* run, for any prices, counts, crashes and number of runs (CheckProgramDailyBudget).
THEOREM DailySpendIsBounded == ReasoningSpec => []DailySpendBounded
BY SpendInvariant, SpendFromInvariant, PTL

-----------------------------------------------------------------------------
(* Routing: what its operators give.                                       *)

LEMMA HalveKeeps ==
    ASSUME NEW S, NEW sorted \in Seq(S), NEW x \in S
    PROVE  Halve(sorted, x) \in Seq(S) \ {<<>>}
<1>1. PICK len \in Nat : len = Len(sorted)
  OBVIOUS
<1> DEFINE Pairs == (0 .. len) \X (0 .. len)
           Next(b) == LET l == b[1]
                          r == b[2]
                          middle == (l + r) \div 2
                      IN IF l >= r THEN <<l, r>>
                         ELSE IF QualityBetter(x, sorted[middle + 1]) THEN <<l, middle>>
                         ELSE <<middle + 1, r>>
           body(f) == [n \in 0 .. len |-> IF n = 0 THEN <<0, len>>
                       ELSE LET l == f[n - 1][1]
                                r == f[n - 1][2]
                                middle == (l + r) \div 2
                            IN IF l >= r THEN <<l, r>>
                               ELSE IF QualityBetter(x, sorted[middle + 1]) THEN <<l, middle>>
                               ELSE <<middle + 1, r>>]
           bounds == CHOOSE f : f = body(f)
<1>2. Halve(sorted, x) = InsertAt(sorted, bounds[len][1] + 1, x)
  BY <1>1 DEF Halve
<1>3. \A b \in Pairs : Next(b) \in Pairs
  <2> SUFFICES ASSUME NEW l \in 0 .. len, NEW r \in 0 .. len
               PROVE  Next(<<l, r>>) \in Pairs
    OBVIOUS
  <2>1. CASE l >= r
    BY <2>1
  <2>2. CASE l < r
    <3> DEFINE middle == (l + r) \div 2
    <3>1. middle \in 0 .. len /\ middle + 1 \in 0 .. len
      BY <1>1, <2>2
    <3> HIDE DEF middle
    <3>2. Next(<<l, r>>) = IF QualityBetter(x, sorted[middle + 1]) THEN <<l, middle>>
                           ELSE <<middle + 1, r>>
      BY <2>2 DEF middle
    <3> QED
      BY <3>1, <3>2
  <2> QED
    BY <2>1, <2>2
<1> DEFINE step == [p \in (0 .. len) \X Pairs |-> Next(p[2])]
<1>4. step \in Steps(0, len, Pairs) /\ <<0, len>> \in Pairs
  BY <1>3 DEF Steps
<1>5. PICK f \in [0 .. len -> Pairs] :
         f[0] = <<0, len>> /\ \A n \in (0 .. len) \ {0} : f[n] = step[<<n, f[n - 1]>>]
  <2> DEFINE start == <<0, len>>
  <2>1. start \in Pairs /\ 0 \in Nat /\ 0 <= len
    BY <1>4
  <2> HIDE DEF step, Pairs, start
  <2>2. \E f \in [0 .. len -> Pairs] :
           Follows(0, len, start, step, f)
    BY <1>4, <2>1, StepsDefined
  <2> QED
    BY <2>2 DEF start, Follows
<1>6. \A n \in (0 .. len) \ {0} : f[n] = Next(f[n - 1])
  <2> TAKE n \in (0 .. len) \ {0}
  <2>1. n \in 0 .. len /\ n - 1 \in 0 .. len /\ n \in (0 .. len) \ {0}
    BY <1>1
  <2> HIDE DEF Next, Pairs
  <2>2. f[n - 1] \in Pairs
    BY <2>1
  <2>3. step[<<n, f[n - 1]>>] = Next(f[n - 1])
    BY <2>1, <2>2
  <2> QED
    BY <1>5, <2>1, <2>3
<1>7. f = body(f)
  <2>1. \A n \in 0 .. len : f[n] = IF n = 0 THEN <<0, len>> ELSE Next(f[n - 1])
    <3> HIDE DEF Next
    <3> QED
      BY <1>1, <1>5, <1>6
  <2> QED
    BY <2>1
<1>8. bounds = body(bounds)
  BY <1>7
<1> HIDE DEF bounds
<1>9. /\ bounds[0] = <<0, len>>
      /\ \A n \in (0 .. len) \ {0} : bounds[n] = Next(bounds[n - 1])
  <2>1. bounds = [n \in 0 .. len |-> IF n = 0 THEN <<0, len>> ELSE Next(bounds[n - 1])]
    BY <1>8
  <2> HIDE DEF Next, bounds
  <2>2. 0 \in 0 .. len
    BY <1>1
  <2>3. bounds[0] = <<0, len>>
    BY <2>1, <2>2
  <2>4. \A n \in (0 .. len) \ {0} : bounds[n] = Next(bounds[n - 1])
    <3> TAKE n \in (0 .. len) \ {0}
    <3>1. n \in 0 .. len /\ n # 0
      OBVIOUS
    <3> QED
      BY <2>1, <3>1
  <2> QED
    BY <2>3, <2>4
<1>10. \A n \in 0 .. len : bounds[n] \in Pairs
  <2> HIDE DEF Next, Pairs
  <2>2. bounds[0] \in Pairs /\ 0 \in Nat
    BY <1>4, <1>9
  <2>3. \A n \in (0 .. len) \ {0} : bounds[n - 1] \in Pairs => bounds[n] \in Pairs
    BY <1>3, <1>9
  <2> QED
    BY <2>2, <2>3, StepsStay
<1>11. bounds[len][1] \in 0 .. len
  BY <1>1, <1>10
<1> DEFINE at == bounds[len][1] + 1
<1>12. at \in 1 .. (len + 1)
  BY <1>1, <1>11
<1> HIDE DEF at
<1>13. InsertAt(sorted, at, x) = SubSeq(sorted, 1, at - 1) \o <<x>> \o SubSeq(sorted, at, len)
  BY <1>1 DEF InsertAt
<1>14. SubSeq(sorted, 1, at - 1) \in Seq(S) /\ SubSeq(sorted, at, len) \in Seq(S)
  BY <1>1, <1>12
<1>15. InsertAt(sorted, at, x) \in Seq(S) \ {<<>>}
  <2> DEFINE before == SubSeq(sorted, 1, at - 1)
             after == SubSeq(sorted, at, len)
  <2> HIDE DEF before, after
  <2>1. <<x>> \in Seq(S) /\ Len(<<x>>) = 1
    OBVIOUS
  <2>2. before \o <<x>> \in Seq(S) /\ Len(before \o <<x>>) = Len(before) + 1
    BY <1>14, <2>1 DEF before
  <2>3. after \in Seq(S) /\ Len(before) \in Nat /\ Len(after) \in Nat
    <3>1. after \in Seq(S) /\ before \in Seq(S)
      BY <1>14 DEF before, after
    <3>2. \A z \in Seq(S) : Len(z) \in Nat
      OBVIOUS
    <3> QED
      BY <3>1, <3>2
  <2> DEFINE more == before \o <<x>>
  <2> HIDE DEF more
  <2>4. more \o after \in Seq(S) /\ Len(more \o after) = Len(more) + Len(after)
    BY <2>2, <2>3 DEF more
  <2>5. Len(more \o after) # 0
    BY <2>2, <2>3, <2>4 DEF more
  <2>6. InsertAt(sorted, at, x) = more \o after
    BY <1>13 DEF before, after, more
  <2> QED
    BY <2>4, <2>5, <2>6
<1> QED
  BY <1>2, <1>15 DEF at

\* A list that is ranked has the same elements.
LEMMA RankedKeeps ==
    ASSUME NEW S, NEW candidates \in Seq(S), candidates # <<>>
    PROVE  Ranked(candidates) \in Seq(S) \ {<<>>}
<1>1. PICK len \in Nat \ {0} : len = Len(candidates)
  OBVIOUS
<1> DEFINE falls(i) == QualityBetter(candidates[i + 1], candidates[i])
           down == len > 1 /\ falls(1)
           runs == {n \in 1 .. len : \A i \in 1 .. (n - 1) : falls(i) = down}
           prefix == Max(runs)
           start == SubSeq(candidates, 1, prefix)
           first == IF down THEN Reverse(start) ELSE start
           body(f) == [n \in prefix .. len |->
                         IF n = prefix THEN (IF down THEN Reverse(start) ELSE start)
                         ELSE Halve(f[n - 1], candidates[n])]
           sorted == CHOOSE f : f = body(f)
           Lists == Seq(S) \ {<<>>}
<1>2. Ranked(candidates) = sorted[len]
  BY <1>1 DEF Ranked
<1>3. prefix \in 1 .. len
  <2>1. 1 \in runs /\ runs \in SUBSET (0 .. len) /\ runs \subseteq 1 .. len
    OBVIOUS
  <2> HIDE DEF runs
  <2> QED
    BY <2>1, MaxMinMember
<1> HIDE DEF prefix, down
<1>4. start \in Seq(S) /\ Len(start) = prefix
  BY <1>1, <1>3
<1> HIDE DEF start
<1>5. first \in Lists
  <2>1. Len(start) \in Nat \ {0}
    BY <1>3, <1>4
  <2>2. Reverse(start) = [i \in 1 .. Len(start) |-> start[(Len(start) - i) + 1]]
    BY DEF Reverse
  <2>3. \A i \in 1 .. Len(start) : start[(Len(start) - i) + 1] \in S
    BY <1>4, <2>1
  <2>4. Reverse(start) \in Seq(S) /\ Len(Reverse(start)) = Len(start)
    BY <2>1, <2>2, <2>3
  <2> QED
    BY <1>4, <2>1, <2>4
<1> HIDE DEF first
<1>6. \A n \in prefix .. len : candidates[n] \in S
  BY <1>1, <1>3
<1> DEFINE step == [p \in (prefix .. len) \X Lists |-> Halve(p[2], candidates[p[1]])]
<1>7. step \in Steps(prefix, len, Lists)
  <2>1. \A n \in prefix .. len, list \in Lists : Halve(list, candidates[n]) \in Lists
    BY <1>6, HalveKeeps
  <2> HIDE DEF Lists
  <2> QED
    BY <2>1 DEF Steps
<1>8. PICK f \in [prefix .. len -> Lists] : Follows(prefix, len, first, step, f)
  <2>1. prefix \in Nat /\ len \in Nat /\ prefix <= len
    BY <1>1, <1>3
  <2> HIDE DEF step, Lists
  <2> QED
    BY <1>5, <1>7, <2>1, StepsDefined
<1>9. f = body(f)
  <2>1. \A n \in (prefix .. len) \ {prefix} : f[n] = Halve(f[n - 1], candidates[n])
    <3> TAKE n \in (prefix .. len) \ {prefix}
    <3>1. n \in prefix .. len /\ n - 1 \in prefix .. len
      BY <1>1, <1>3
    <3> HIDE DEF Lists
    <3>2. f[n - 1] \in Lists
      BY <3>1
    <3>3. step[<<n, f[n - 1]>>] = Halve(f[n - 1], candidates[n])
      BY <3>1, <3>2
    <3> QED
      BY <1>8, <3>1, <3>3 DEF Follows
  <2>2. f[prefix] = first
    BY <1>8 DEF Follows
  <2>3. f = [n \in prefix .. len |-> f[n]]
    OBVIOUS
  <2> QED
    BY <2>1, <2>2, <2>3 DEF first
<1>10. sorted = body(sorted)
  BY <1>9
<1> HIDE DEF sorted
<1>11. sorted[prefix] = first
  <2>1. prefix \in prefix .. len
    BY <1>1, <1>3
  <2> QED
    BY <1>10, <2>1 DEF first
<1>12. \A n \in (prefix .. len) \ {prefix} : sorted[n] = Halve(sorted[n - 1], candidates[n])
  BY <1>10
<1>13. \A n \in prefix .. len : sorted[n] \in Lists
  <2>1. \A n \in (prefix .. len) \ {prefix} : sorted[n - 1] \in Lists => sorted[n] \in Lists
    <3> TAKE n \in (prefix .. len) \ {prefix}
    <3>1. candidates[n] \in S /\ sorted[n] = Halve(sorted[n - 1], candidates[n])
      BY <1>6, <1>12
    <3>2. \A list \in Seq(S) : Halve(list, candidates[n]) \in Lists
      BY <3>1, HalveKeeps
    <3> QED
      BY <3>1, <3>2
  <2>2. prefix \in Nat /\ len \in Nat
    BY <1>1, <1>3
  <2> HIDE DEF Lists
  <2> QED
    BY <1>5, <1>11, <2>1, <2>2, StepsStay
<1>14. len \in prefix .. len
  BY <1>1, <1>3
<1> QED
  BY <1>2, <1>13, <1>14

\* Only the candidates at the positions are among them.
LEMMA AmongKeeps ==
    ASSUME NEW S, NEW candidates \in Seq(S), NEW positions \in SUBSET DOMAIN candidates
    PROVE  Among(candidates, positions) \in Seq({candidates[k] : k \in positions})
<1> DEFINE size == Cardinality(positions)
           nth(i) == CHOOSE k \in positions : Cardinality({j \in positions : j <= k}) = i
<1>1. positions \in SUBSET (1 .. Len(candidates)) /\ Len(candidates) \in Nat
  OBVIOUS
<1>2. size \in Nat
  <2>1. IsFiniteSet(1 .. Len(candidates))
    BY <1>1, FS_Interval
  <2>2. IsFiniteSet(positions)
    BY <1>1, <2>1, FS_Subset
  <2> QED
    BY <2>2, FS_CardinalityType
<1>3. \A i \in 1 .. size : nth(i) \in positions
  BY <1>1, NthPosition
<1>4. Among(candidates, positions) = [i \in 1 .. size |-> candidates[nth(i)]]
  BY DEF Among
<1> HIDE DEF size, nth
<1> QED
  BY <1>2, <1>3, <1>4

\* Whatever the preference, what is selected is a survivor.
LEMMA PreferSelects ==
    ASSUME NEW S, NEW survivors \in Seq(S), survivors # <<>>,
           NEW request, request.preference \in Seq(ToSet(request.preference)),
           Prefer(survivors, request).outcome = "SELECT"
    PROVE  \E c \in S : \E how : Prefer(survivors, request) = Choose(c, request, how)
<1> DEFINE places(k) == {i \in DOMAIN request.preference :
                            request.preference[i] = survivors[k].identity.adapter}
           preferred == {k \in DOMAIN survivors : places(k) # {}}
           first == Min({Max(places(k)) : k \in preferred})
           foremost == {k \in preferred : Max(places(k)) = first}
           ranked == Ranked(survivors)
           tied == {c \in ToSet(ranked) : /\ c.identity.adapter # ranked[1].identity.adapter
                                          /\ QualityEqual(c, ranked[1])}
<1>1. Prefer(survivors, request) =
        CASE preferred # {} ->
               Choose(survivors[Min(foremost)], request, "SELECTED_BY_OPERATOR_ORDER")
          [] preferred = {} /\ tied # {} /\ request.ask_on_tie ->
               Refuse("REQUIRE_OPERATOR_SELECTION", request, {"TIE_REQUIRES_OPERATOR"})
          [] OTHER -> Choose(ranked[1], request, "SELECTED_BY_QUALITY_ORDER")
  BY DEF Prefer
<1>2. /\ Len(survivors) \in Nat /\ DOMAIN survivors = 1 .. Len(survivors)
      /\ Len(request.preference) \in Nat
      /\ DOMAIN request.preference = 1 .. Len(request.preference)
  OBVIOUS
<1>3. ASSUME preferred # {} PROVE survivors[Min(foremost)] \in S
  <2>1. \A k \in preferred : Max(places(k)) \in Nat
    <3> TAKE k \in preferred
    <3>1. places(k) # {} /\ places(k) \in SUBSET (0 .. Len(request.preference))
      BY <1>2
    <3> HIDE DEF places
    <3>2. Max(places(k)) \in places(k)
      BY <1>2, <3>1, MaxMinMember
    <3> QED
      BY <3>1, <3>2
  <2> DEFINE numbers == {Max(places(k)) : k \in preferred}
  <2>2. numbers \in SUBSET Nat /\ numbers # {}
    <3> HIDE DEF places, preferred
    <3> QED
      BY <1>3, <2>1
  <2>3. Min(numbers) \in numbers
    <3> HIDE DEF numbers
    <3>1. PICK m \in numbers : \A n \in numbers : m <= n
      BY <2>2, LeastNumber
    <3> QED
      BY <3>1 DEF Min
  <2>4. foremost # {}
    <3> HIDE DEF places, preferred
    <3> QED
      BY <2>3
  <2>5. foremost \in SUBSET (0 .. Len(survivors)) /\ foremost \subseteq DOMAIN survivors
    <3>1. preferred \subseteq 1 .. Len(survivors)
      BY <1>2
    <3>2. foremost \subseteq preferred
      OBVIOUS
    <3> HIDE DEF preferred, foremost
    <3> QED
      BY <1>2, <3>1, <3>2
  <2> HIDE DEF foremost
  <2>6. Min(foremost) \in foremost
    BY <1>2, <2>4, <2>5, MaxMinMember
  <2> QED
    BY <2>5, <2>6
<1>4. ranked[1] \in S
  <2>1. ranked \in Seq(S) \ {<<>>}
    BY RankedKeeps
  <2> HIDE DEF ranked
  <2> QED
    BY <2>1
<1> HIDE DEF preferred, foremost, ranked, tied
<1>5. CASE preferred # {}
  BY <1>1, <1>3, <1>5
<1>6. CASE preferred = {} /\ tied # {} /\ request.ask_on_tie
  BY <1>1, <1>6 DEF Refuse, Decision
<1>7. CASE preferred = {} /\ ~(tied # {} /\ request.ask_on_tie)
  BY <1>1, <1>4, <1>7
<1> QED
  BY <1>5, <1>6, <1>7

\* Whatever is selected is a candidate that passes every filter, in the class wanted.
LEMMA SelectRuntimeSelects ==
    ASSUME NEW request, request.candidates \in Seq(ToSet(request.candidates)),
           request.preference \in Seq(ToSet(request.preference)),
           {request.attempts, request.max_attempts} \subseteq Nat,
           SelectRuntime(request).outcome = "SELECT"
    PROVE  /\ request.attempts < request.max_attempts
           /\ \E c \in ToSet(request.candidates) : \E how :
                 /\ HardFilter(c, request) = None
                 /\ c.identity.price = DesiredPriceClass(request)
                 /\ SelectRuntime(request) = Choose(c, request, how)
<1> DEFINE reasons == {HardFilter(c, request) : c \in ToSet(request.candidates)}
           passing == {k \in DOMAIN request.candidates :
                          HardFilter(request.candidates[k], request) = None}
           survivors == Among(request.candidates, passing)
           inClass == {k \in DOMAIN survivors :
                          survivors[k].identity.price = DesiredPriceClass(request)}
           priced == Among(survivors, inClass)
           Passed == {c \in ToSet(request.candidates) : HardFilter(c, request) = None}
           Wanted == {c \in Passed : c.identity.price = DesiredPriceClass(request)}
<1>1. survivors \in Seq({request.candidates[k] : k \in passing})
  BY AmongKeeps
<1>2. survivors \in Seq(Passed)
  <2>1. {request.candidates[k] : k \in passing} \subseteq Passed
    BY DEF ToSet
  <2> HIDE DEF survivors, passing, Passed
  <2> QED
    BY <1>1, <2>1
<1>3. priced \in Seq({survivors[k] : k \in inClass})
  <2> HIDE DEF survivors, Passed
  <2> QED
    BY <1>2, AmongKeeps
<1>4. priced \in Seq(Wanted)
  <2> HIDE DEF survivors, Passed
  <2>1. {survivors[k] : k \in inClass} \subseteq Wanted
    BY <1>2
  <2> HIDE DEF priced, inClass, Wanted
  <2> QED
    BY <1>3, <2>1
<1> HIDE DEF reasons, survivors, priced, Wanted
<1>5. SelectRuntime(request) =
        CASE request.max_attempts = 0 ->
               Refuse("UNAVAILABLE", request, {"ZERO_RUNTIME_ALLOWANCE"})
         [] request.max_attempts # 0 /\ request.attempts >= request.max_attempts ->
               Refuse("UNAVAILABLE", request, {"ATTEMPT_BUDGET_EXHAUSTED"})
         [] OTHER ->
               IF request.candidates = <<>>
               THEN Refuse("NO_COMPATIBLE_RUNTIME", request, {"NO_CANDIDATES"})
               ELSE IF request.task = "monitoring"
               THEN Refuse("BLOCKED_POLICY", request, {"MONITORING_CLASS_DISABLED"})
               ELSE IF survivors = <<>>
               THEN Refuse(IF reasons = {"UNAVAILABLE"} THEN "UNAVAILABLE"
                           ELSE "NO_COMPATIBLE_RUNTIME", request, reasons)
               ELSE IF priced = <<>>
               THEN Refuse(IF DesiredPriceClass(request) = Expensive THEN "BLOCKED_POLICY"
                           ELSE "NO_COMPATIBLE_RUNTIME", request, {"WRONG_RUNTIME_CLASS"})
               ELSE Prefer(priced, request)
  BY DEF SelectRuntime, reasons, survivors, priced
<1>6. \A why, outcome : outcome # "SELECT" => Refuse(outcome, request, why).outcome # "SELECT"
  BY DEF Refuse, Decision
<1>7. /\ request.max_attempts # 0 /\ ~(request.attempts >= request.max_attempts)
      /\ priced # <<>> /\ SelectRuntime(request) = Prefer(priced, request)
  BY <1>5, <1>6
<1>8. \E c \in Wanted : \E how : Prefer(priced, request) = Choose(c, request, how)
  BY <1>4, <1>7, PreferSelects
<1> QED
  BY <1>7, <1>8 DEF Wanted

-----------------------------------------------------------------------------
(* Routing: its invariant.                                                 *)

RuntimesOf(request) == {c.identity : c \in ToSet(request.candidates)}

CallsOf(request) == [identity: RuntimesOf(request), outcome: RuntimeOutcomes]

\* Why the i-th selection may be of an expensive runtime.
MayBeExpensive(i) ==
    \/ routing.escalation \/ routing.task = "finding_proposal_qa"
    \/ i > 1 /\ called[i - 1].outcome = "ESCALATION_NEEDED"

FallbacksUpto(n) == {i \in 1 .. n : called[i].outcome # "ESCALATION_NEEDED"}

\* The calls of a request so far.
CallsBounded ==
    /\ routing \in RoutingRequests /\ called \in Seq(CallsOf(routing))
    /\ Len(called) <= routing.max_attempts
    /\ \A i, j \in DOMAIN called : i # j => called[i].identity.adapter # called[j].identity.adapter
    /\ \A i \in 1 .. (Len(called) - 1) : called[i].outcome # "CONTENT_POLICY_BLOCKED"
    /\ \A i \in DOMAIN called : called[i].identity.price = Expensive => MayBeExpensive(i)
    /\ Cardinality(FallbacksUpto(Len(called) - 1)) <= routing.max_fallbacks

\* The runtime selected to be called next, what the decision counts, and what it may
\* follow.
SelectionBounded ==
    /\ decision.selected \in RuntimesOf(routing)
    /\ decision.selected.adapter \notin decision.attempted
    /\ \A i \in DOMAIN called : called[i].identity.adapter \in decision.attempted
    /\ decision.attempts \in Nat /\ decision.fallbacks \in Nat
    /\ Len(called) < decision.attempts /\ decision.attempts <= routing.max_attempts
    /\ \A i \in DOMAIN called : called[i].outcome # "CONTENT_POLICY_BLOCKED"
    /\ decision.selected.price = Expensive => MayBeExpensive(Len(called) + 1)
    /\ Cardinality(FallbacksUpto(Len(called))) <= decision.fallbacks
    /\ Cardinality(FallbacksUpto(Len(called))) <= routing.max_fallbacks

RoutingInv ==
    IF routing = None THEN decision = None /\ called = <<>>
    ELSE CallsBounded /\ (decision.outcome = "SELECT" => SelectionBounded)

-----------------------------------------------------------------------------
(* Routing: the invariant is inductive.                                    *)

\* A candidate that passes the filters was not attempted.
LEMMA PassesUnattempted ==
    ASSUME NEW c, NEW request, HardFilter(c, request) = None
    PROVE  c.identity.adapter \notin request.attempted
BY RoutingAssumption DEF HardFilter

LEMMA ChosenIs ==
    ASSUME NEW c, NEW request, NEW how
    PROVE  LET d == Choose(c, request, how)
           IN /\ d.selected = c.identity /\ d.attempts = request.attempts + 1
              /\ d.attempted = request.attempted /\ d.fallbacks = request.fallbacks
BY DEF Choose, Decision

LEMMA ExpensiveWanted ==
    ASSUME NEW request, DesiredPriceClass(request) = Expensive
    PROVE  request.escalation \/ request.task = "finding_proposal_qa"
BY DEF DesiredPriceClass, Expensive, Cheap

\* A runtime selected after another: what it may follow, and what is counted.
LEMMA ReconsiderSelects ==
    ASSUME NEW request \in RoutingRequests, NEW previous, previous.selected # None,
           previous.attempts \in Nat, previous.fallbacks \in Nat, NEW outcome,
           ReconsiderRuntime(request, previous, outcome).outcome = "SELECT"
    PROVE  LET d == ReconsiderRuntime(request, previous, outcome)
           IN /\ outcome # "CONTENT_POLICY_BLOCKED"
              /\ d.selected \in RuntimesOf(request) /\ d.selected.adapter \notin d.attempted
              /\ d.attempted = previous.attempted \cup {previous.selected.adapter}
              /\ d.attempts = previous.attempts + 1 /\ d.attempts <= request.max_attempts
              /\ d.selected.price = Expensive =>
                    request.escalation \/ request.task = "finding_proposal_qa"
                    \/ outcome = "ESCALATION_NEEDED"
              /\ IF outcome = "ESCALATION_NEEDED" THEN d.fallbacks = previous.fallbacks
                 ELSE d.fallbacks = previous.fallbacks + 1 /\ d.fallbacks <= request.max_fallbacks
<1> DEFINE d == ReconsiderRuntime(request, previous, outcome)
           stopped == Retry(request, previous, previous.fallbacks, request.escalation)
           escalated == [stopped EXCEPT !.escalation = TRUE]
           again == [stopped EXCEPT !.fallbacks = @ + 1]
           refused(reason) == Refuse("UNAVAILABLE",
                                     [stopped EXCEPT !.attempted = request.attempted], {reason})
<1>1. /\ request.candidates \in Seq(ToSet(request.candidates))
      /\ request.preference \in Seq(ToSet(request.preference))
      /\ request.max_attempts \in Nat /\ request.max_fallbacks \in Nat
  BY RoutingAssumption
<1>2. \A next \in {escalated, again} :
         /\ next.candidates = request.candidates /\ next.preference = request.preference
         /\ next.attempted = previous.attempted \cup {previous.selected.adapter}
         /\ next.attempts = previous.attempts /\ next.max_attempts = request.max_attempts
         /\ next.task = request.task
  BY RoutingAssumption DEF Retry
<1>3. /\ escalated.fallbacks = previous.fallbacks /\ again.fallbacks = previous.fallbacks + 1
      /\ again.escalation = request.escalation
  BY RoutingAssumption DEF Retry
<1>4. d = CASE outcome = "CONTENT_POLICY_BLOCKED" ->
                 Refuse("BLOCKED_POLICY", stopped, {"CONTENT_POLICY_BLOCK_NO_BYPASS"})
            [] outcome = "ESCALATION_NEEDED" -> SelectRuntime(escalated)
            [] OTHER ->
                 IF request.max_fallbacks = 0 THEN refused("ZERO_FALLBACK_ALLOWANCE")
                 ELSE IF previous.fallbacks >= request.max_fallbacks
                 THEN refused("FALLBACK_EXHAUSTED")
                 ELSE SelectRuntime(again)
  BY DEF ReconsiderRuntime
<1> HIDE DEF d, stopped, escalated, again
<1>5. \A why, by : Refuse("BLOCKED_POLICY", by, why).outcome # "SELECT"
                   /\ Refuse("UNAVAILABLE", by, why).outcome # "SELECT"
  BY DEF Refuse, Decision
<1>6. d.outcome = "SELECT"
  BY DEF d
<1>7. \/ outcome = "ESCALATION_NEEDED" /\ d = SelectRuntime(escalated)
      \/ /\ outcome \notin {"CONTENT_POLICY_BLOCKED", "ESCALATION_NEEDED"}
         /\ ~(previous.fallbacks >= request.max_fallbacks) /\ d = SelectRuntime(again)
  BY <1>4, <1>5, <1>6
<1>8. ASSUME NEW next \in {escalated, again}, d = SelectRuntime(next)
      PROVE  /\ d.selected \in RuntimesOf(request) /\ d.selected.adapter \notin d.attempted
             /\ d.attempted = previous.attempted \cup {previous.selected.adapter}
             /\ d.attempts = previous.attempts + 1 /\ d.attempts <= request.max_attempts
             /\ d.fallbacks = next.fallbacks
             /\ d.selected.price = Expensive =>
                   next.escalation \/ request.task = "finding_proposal_qa"
  <2>1. /\ next.attempts < next.max_attempts
        /\ \E c \in ToSet(next.candidates) : \E how :
              /\ HardFilter(c, next) = None
              /\ c.identity.price = DesiredPriceClass(next)
              /\ d = Choose(c, next, how)
    <3>1. {next.attempts, next.max_attempts} \subseteq Nat
      BY <1>1, <1>2
    <3> QED
      BY <1>1, <1>2, <1>6, <1>8, <3>1, SelectRuntimeSelects
  <2>2. PICK c \in ToSet(request.candidates) : \E how :
           /\ HardFilter(c, next) = None
           /\ c.identity.price = DesiredPriceClass(next)
           /\ d = Choose(c, next, how)
    BY <1>2, <2>1
  <2>3. /\ d.selected = c.identity /\ d.attempts = next.attempts + 1
        /\ d.attempted = next.attempted /\ d.fallbacks = next.fallbacks
    BY <2>2, ChosenIs
  <2>4. c.identity.adapter \notin next.attempted
    BY <2>2, PassesUnattempted
  <2>5. d.selected.price = Expensive => next.escalation \/ next.task = "finding_proposal_qa"
    BY <2>2, <2>3, ExpensiveWanted
  <2> QED
    BY <1>1, <1>2, <2>1, <2>2, <2>3, <2>4, <2>5 DEF RuntimesOf
<1>9. CASE outcome = "ESCALATION_NEEDED"
  <2>1. d = SelectRuntime(escalated)
    BY <1>7, <1>9
  <2> QED
    BY <1>3, <1>8, <1>9, <2>1 DEF d
<1>10. CASE outcome # "ESCALATION_NEEDED"
  <2>1. /\ outcome # "CONTENT_POLICY_BLOCKED" /\ ~(previous.fallbacks >= request.max_fallbacks)
        /\ d = SelectRuntime(again)
    BY <1>7, <1>10
  <2> QED
    BY <1>1, <1>3, <1>8, <1>10, <2>1 DEF d
<1> QED
  BY <1>9, <1>10

\* The first decision on a request.
LEMMA FirstDecision ==
    ASSUME NEW request \in RoutingRequests, SelectResearchRuntime(request), RoutingInv
    PROVE  RoutingInv'
<1>1. /\ routing' = request /\ called' = <<>> /\ decision' = SelectRuntime(request)
  BY DEF SelectResearchRuntime, RoutingInv
<1>2. /\ request.candidates \in Seq(ToSet(request.candidates))
      /\ request.preference \in Seq(ToSet(request.preference))
      /\ {request.attempts, request.max_attempts} \subseteq Nat
      /\ request.max_attempts \in Nat /\ request.max_fallbacks \in Nat
      /\ request.attempts \in Nat /\ request.fallbacks \in Nat
      /\ routing' # None
  BY <1>1, RoutingAssumption
<1>3. Len(called') = 0 /\ DOMAIN called' = {} /\ Len(called') - 1 = -1 /\ 1 .. (-1) = {}
      /\ 1 .. 0 = {}
  BY <1>1
<1>4. FallbacksUpto(Len(called))' = {} /\ FallbacksUpto(Len(called) - 1)' = {}
  BY <1>3 DEF FallbacksUpto
<1>5. Cardinality(FallbacksUpto(Len(called)))' = 0 /\ Cardinality(FallbacksUpto(Len(called) - 1))' = 0
  <2>1. Cardinality({}) = 0
    BY FS_EmptySet
  <2> QED
    BY <1>4, <2>1
<1>6. CallsBounded'
  <2>1. called' \in Seq(CallsOf(request))
    BY <1>1
  <2> QED
    BY <1>1, <1>2, <1>3, <1>4, <1>5, <2>1 DEF CallsBounded
<1>7. ASSUME decision'.outcome = "SELECT" PROVE SelectionBounded'
  <2>1. /\ request.attempts < request.max_attempts
        /\ \E c \in ToSet(request.candidates) : \E how :
              /\ HardFilter(c, request) = None
              /\ c.identity.price = DesiredPriceClass(request)
              /\ decision' = Choose(c, request, how)
    BY <1>1, <1>2, <1>7, SelectRuntimeSelects
  <2>2. PICK c \in ToSet(request.candidates) : \E how :
           /\ HardFilter(c, request) = None
           /\ c.identity.price = DesiredPriceClass(request)
           /\ decision' = Choose(c, request, how)
    BY <2>1
  <2>3. /\ decision'.selected = c.identity /\ decision'.attempts = request.attempts + 1
        /\ decision'.attempted = request.attempted /\ decision'.fallbacks = request.fallbacks
    BY <2>2, ChosenIs
  <2>4. c.identity.adapter \notin request.attempted
    BY <2>2, PassesUnattempted
  <2>5. decision'.selected.price = Expensive =>
           request.escalation \/ request.task = "finding_proposal_qa"
    BY <2>2, <2>3, ExpensiveWanted
  <2>6. decision'.selected \in RuntimesOf(request)
    BY <2>3 DEF RuntimesOf
  <2> QED
    BY <1>1, <1>2, <1>3, <1>4, <1>5, <2>1, <2>3, <2>4, <2>5, <2>6
       DEF SelectionBounded, MayBeExpensive
<1> QED
  BY <1>2, <1>6, <1>7 DEF RoutingInv

\* A call added to the calls of a request.
LEMMA CallAdded ==
    ASSUME NEW S, called \in Seq(S), NEW call \in S, called' = Append(called, call)
    PROVE  /\ called' \in Seq(S) /\ Len(called') = Len(called) + 1 /\ Len(called) \in Nat
           /\ DOMAIN called = 1 .. Len(called) /\ DOMAIN called' = 1 .. Len(called) + 1
           /\ \A i \in 1 .. Len(called) : called'[i] = called[i]
           /\ called'[Len(called) + 1] = call
OBVIOUS

\* The fallbacks among the calls, when one is added.
LEMMA FallbackAdded ==
    ASSUME NEW S, called \in Seq(S), NEW call \in S, called' = Append(called, call)
    PROVE  /\ FallbacksUpto(Len(called) - 1)' = FallbacksUpto(Len(called))
           /\ Cardinality(FallbacksUpto(Len(called))) \in Nat
           /\ Cardinality(FallbacksUpto(Len(called))') =
                 Cardinality(FallbacksUpto(Len(called)))
                 + IF call.outcome = "ESCALATION_NEEDED" THEN 0 ELSE 1
<1> DEFINE n == Len(called)
<1>1. /\ Len(called') = n + 1 /\ n \in Nat
      /\ \A i \in 1 .. n : called'[i] = called[i]
      /\ called'[n + 1] = call
  BY CallAdded
<1> HIDE DEF n
<1>2. {i \in 1 .. n : called'[i].outcome # "ESCALATION_NEEDED"}
        = {i \in 1 .. n : called[i].outcome # "ESCALATION_NEEDED"}
  BY <1>1
<1>3. {i \in 1 .. (n + 1) : called'[i].outcome # "ESCALATION_NEEDED"}
        = {i \in 1 .. n : called[i].outcome # "ESCALATION_NEEDED"}
          \cup IF call.outcome = "ESCALATION_NEEDED" THEN {} ELSE {n + 1}
  BY <1>1
<1> DEFINE F == {i \in 1 .. n : called[i].outcome # "ESCALATION_NEEDED"}
<1>4. IsFiniteSet(F) /\ Cardinality(F) \in Nat
  <2>1. IsFiniteSet(1 .. n)
    BY <1>1, FS_Interval
  <2>2. IsFiniteSet(F)
    BY <2>1, FS_Subset
  <2> QED
    BY <2>2, FS_CardinalityType
<1>5. n + 1 \notin F
  BY <1>1
<1> HIDE DEF F
<1>6. Cardinality(F \cup {n + 1}) = Cardinality(F) + 1
  BY <1>4, <1>5, FS_AddElement
<1>7. FallbacksUpto(n) = F
  BY DEF FallbacksUpto, F
<1>8. FallbacksUpto(Len(called) - 1)' = F
  <2>1. Len(called') - 1 = n
    BY <1>1
  <2> QED
    BY <1>2, <2>1 DEF FallbacksUpto, F
<1>9. FallbacksUpto(Len(called))' = F \cup IF call.outcome = "ESCALATION_NEEDED" THEN {} ELSE {n + 1}
  BY <1>1, <1>3 DEF FallbacksUpto, F
<1>10. CASE call.outcome = "ESCALATION_NEEDED"
  <2>1. FallbacksUpto(Len(called))' = F
    BY <1>9, <1>10
  <2> QED
    BY <1>4, <1>7, <1>8, <1>10, <2>1 DEF n
<1>11. CASE call.outcome # "ESCALATION_NEEDED"
  <2>1. FallbacksUpto(Len(called))' = F \cup {n + 1}
    BY <1>9, <1>11
  <2> QED
    BY <1>4, <1>6, <1>7, <1>8, <1>11, <2>1 DEF n
<1> QED
  BY <1>10, <1>11

\* The call of the runtime selected, and the decision after it.
LEMMA NextDecision ==
    ASSUME NEW outcome \in RuntimeOutcomes, Reconsider(outcome), RoutingInv
    PROVE  RoutingInv'
<1> DEFINE call == [identity |-> decision.selected, outcome |-> outcome]
           n == Len(called)
           fallbacks == Cardinality(FallbacksUpto(Len(called)))
<1>1. routing # None
  BY DEF Reconsider, RoutingInv
<1>2. CallsBounded /\ SelectionBounded
  BY <1>1 DEF Reconsider, RoutingInv
<1>3. /\ routing' = routing /\ called' = Append(called, call)
      /\ decision' = ReconsiderRuntime(routing, decision, outcome)
  BY DEF Reconsider
<1>4. /\ routing \in RoutingRequests /\ called \in Seq(CallsOf(routing))
      /\ routing.max_attempts \in Nat /\ routing.max_fallbacks \in Nat
      /\ call \in CallsOf(routing) /\ call.outcome = outcome
      /\ call.identity = decision.selected
      /\ decision.selected # None
  <2>1. \A c \in ToSet(routing.candidates) : c.identity # None
    BY <1>2, RoutingAssumption DEF CallsBounded
  <2> QED
    BY <1>2, <2>1, RoutingAssumption DEF CallsBounded, SelectionBounded, CallsOf, RuntimesOf
<1> HIDE DEF call
<1>5. /\ called' \in Seq(CallsOf(routing)) /\ Len(called') = n + 1 /\ n \in Nat
      /\ DOMAIN called = 1 .. n /\ DOMAIN called' = 1 .. n + 1
      /\ \A i \in 1 .. n : called'[i] = called[i]
      /\ called'[n + 1] = call
  BY <1>3, <1>4, CallAdded
<1>6. /\ FallbacksUpto(Len(called) - 1)' = FallbacksUpto(Len(called))
      /\ fallbacks \in Nat
      /\ fallbacks' = fallbacks + IF outcome = "ESCALATION_NEEDED" THEN 0 ELSE 1
  BY <1>3, <1>4, FallbackAdded
<1>7. /\ n < decision.attempts /\ decision.attempts <= routing.max_attempts
      /\ decision.attempts \in Nat /\ decision.fallbacks \in Nat
      /\ fallbacks <= decision.fallbacks /\ fallbacks <= routing.max_fallbacks
      /\ \A i \in 1 .. n : called[i].identity.adapter \in decision.attempted
      /\ \A i \in 1 .. n : called[i].outcome # "CONTENT_POLICY_BLOCKED"
      /\ decision.selected.adapter \notin decision.attempted
  BY <1>2, <1>5 DEF SelectionBounded
<1>8. n \in Nat /\ \A i \in 1 .. n + 1 : i \in 1 .. n \/ i = n + 1
  BY <1>5
<1>9. \A i, j \in DOMAIN called' :
         i # j => called'[i].identity.adapter # called'[j].identity.adapter
  <2>1. \A i, j \in 1 .. n : i # j => called[i].identity.adapter # called[j].identity.adapter
    BY <1>2, <1>5 DEF CallsBounded
  <2> HIDE DEF n
  <2> QED
    BY <1>4, <1>5, <1>7, <1>8, <2>1
<1>10. \A i \in 1 .. (Len(called') - 1) : called'[i].outcome # "CONTENT_POLICY_BLOCKED"
  <2>1. Len(called') - 1 = n
    BY <1>5
  <2> HIDE DEF n
  <2> QED
    BY <1>5, <1>7, <2>1
<1>11. \A i \in 1 .. n + 1 : MayBeExpensive(i) => MayBeExpensive(i)'
  <2> SUFFICES ASSUME NEW i \in 1 .. n + 1, MayBeExpensive(i) PROVE MayBeExpensive(i)'
    OBVIOUS
  <2>1. CASE i > 1
    <3>1. i - 1 \in 1 .. n
      BY <1>8, <2>1
    <3> HIDE DEF n
    <3>2. called'[i - 1] = called[i - 1]
      BY <1>5, <3>1
    <3> QED
      BY <1>3, <3>2 DEF MayBeExpensive
  <2>2. CASE ~(i > 1)
    BY <1>3, <2>2 DEF MayBeExpensive
  <2> QED
    BY <2>1, <2>2
<1>12. \A i \in DOMAIN called' : called'[i].identity.price = Expensive => MayBeExpensive(i)'
  <2>1. \A i \in 1 .. n : called[i].identity.price = Expensive => MayBeExpensive(i)
    BY <1>2, <1>5 DEF CallsBounded
  <2>2. decision.selected.price = Expensive => MayBeExpensive(n + 1)
    BY <1>2 DEF SelectionBounded
  <2>3. n + 1 \in 1 .. n + 1 /\ 1 .. n \subseteq 1 .. n + 1
    BY <1>8
  <2> HIDE DEF n
  <2>4. ASSUME NEW i \in 1 .. n + 1, called'[i].identity.price = Expensive
        PROVE  MayBeExpensive(i)
    <3>1. CASE i \in 1 .. n
      BY <1>5, <2>1, <2>4, <3>1
    <3>2. CASE i = n + 1
      BY <1>4, <1>5, <2>2, <2>4, <3>2
    <3> QED
      BY <1>8, <3>1, <3>2
  <2> QED
    BY <1>5, <1>11, <2>4
<1>13. Cardinality(FallbacksUpto(Len(called) - 1))' <= routing'.max_fallbacks
  BY <1>3, <1>6, <1>7
<1>14. CallsBounded'
  <2>1. routing' \in RoutingRequests /\ called' \in Seq(CallsOf(routing))
    BY <1>3, <1>4, <1>5
  <2>2. Len(called') <= routing'.max_attempts
    BY <1>3, <1>4, <1>5, <1>7
  <2> HIDE DEF n, fallbacks
  <2> QED
    BY <1>3, <1>9, <1>10, <1>12, <1>13, <2>1, <2>2 DEF CallsBounded
<1>15. ASSUME decision'.outcome = "SELECT" PROVE SelectionBounded'
  <2>1. /\ outcome # "CONTENT_POLICY_BLOCKED"
        /\ decision'.selected \in RuntimesOf(routing)
        /\ decision'.selected.adapter \notin decision'.attempted
        /\ decision'.attempted = decision.attempted \cup {decision.selected.adapter}
        /\ decision'.attempts = decision.attempts + 1
        /\ decision'.attempts <= routing.max_attempts
        /\ decision'.selected.price = Expensive =>
              routing.escalation \/ routing.task = "finding_proposal_qa"
              \/ outcome = "ESCALATION_NEEDED"
        /\ IF outcome = "ESCALATION_NEEDED" THEN decision'.fallbacks = decision.fallbacks
           ELSE /\ decision'.fallbacks = decision.fallbacks + 1
                /\ decision'.fallbacks <= routing.max_fallbacks
    BY <1>3, <1>4, <1>7, <1>15, ReconsiderSelects
  <2>2. \A i \in DOMAIN called' : called'[i].identity.adapter \in decision'.attempted
    <3> HIDE DEF n
    <3> QED
      BY <1>4, <1>5, <1>7, <1>8, <2>1
  <2>3. \A i \in DOMAIN called' : called'[i].outcome # "CONTENT_POLICY_BLOCKED"
    <3> HIDE DEF n
    <3> QED
      BY <1>4, <1>5, <1>7, <1>8, <2>1
  <2>4. decision'.selected.price = Expensive => MayBeExpensive(Len(called) + 1)'
    <3>1. Len(called') + 1 > 1 /\ (Len(called') + 1) - 1 = n + 1
      BY <1>5
    <3>2. called'[(Len(called') + 1) - 1].outcome = outcome
      BY <1>4, <1>5, <3>1
    <3> QED
      BY <1>3, <2>1, <3>1, <3>2 DEF MayBeExpensive
  <2>5. /\ decision'.attempts \in Nat /\ decision'.fallbacks \in Nat
        /\ Len(called') < decision'.attempts
    BY <1>5, <1>7, <2>1
  <2>6. fallbacks' <= decision'.fallbacks /\ fallbacks' <= routing'.max_fallbacks
    <3> HIDE DEF fallbacks
    <3>1. CASE outcome = "ESCALATION_NEEDED"
      BY <1>3, <1>6, <1>7, <2>1, <3>1
    <3>2. CASE outcome # "ESCALATION_NEEDED"
      BY <1>3, <1>4, <1>6, <1>7, <2>1, <3>2
    <3> QED
      BY <3>1, <3>2
  <2> QED
    BY <1>3, <2>1, <2>2, <2>3, <2>4, <2>5, <2>6 DEF SelectionBounded
<1> QED
  BY <1>1, <1>3, <1>14, <1>15 DEF RoutingInv

\* A request's chain of calls stays as RoutingInv says, whatever fails in it.
THEOREM RoutingInvariant == RoutingSpec => []RoutingInv
<1>1. RoutingInit => RoutingInv
  BY DEF RoutingInit, RoutingInv
<1>2. ASSUME RoutingInv, [RoutingNext]_routingVars PROVE RoutingInv'
  <2>1. CASE \E request \in RoutingRequests : SelectResearchRuntime(request)
    BY <1>2, <2>1, FirstDecision
  <2>2. CASE \E outcome \in RuntimeOutcomes : Reconsider(outcome)
    BY <1>2, <2>2, NextDecision
  <2>3. CASE UNCHANGED routingVars
    BY <1>2, <2>3 DEF routingVars, RoutingInv, CallsBounded, SelectionBounded, FallbacksUpto,
                      MayBeExpensive
  <2> QED
    BY <1>2, <2>1, <2>2, <2>3 DEF RoutingNext
<1> QED
  BY <1>1, <1>2, PTL DEF RoutingSpec

\* The runtimes selected are those called, and the one selected last.
LEMMA RoutingSafe == RoutingInv => FallbackBounded
<1> SUFFICES ASSUME RoutingInv, decision # None PROVE FallbackBounded
  BY DEF FallbackBounded
<1> DEFINE n == Len(called)
           before == [i \in DOMAIN called |-> called[i].identity]
           chosen == before \o IF decision.outcome = "SELECT" THEN <<decision.selected>> ELSE <<>>
           fallback == {i \in 1 .. (Len(chosen) - 1) : called[i].outcome # "ESCALATION_NEEDED"}
<1>1. CallsBounded /\ (decision.outcome = "SELECT" => SelectionBounded)
  BY DEF RoutingInv
<1>2. /\ routing \in RoutingRequests /\ called \in Seq(CallsOf(routing))
      /\ routing.max_attempts \in Nat /\ routing.max_fallbacks \in Nat
      /\ n \in Nat /\ DOMAIN called = 1 .. n
  BY <1>1, RoutingAssumption DEF CallsBounded
<1>3. \A i \in 1 .. n : called[i].identity \in RuntimesOf(routing)
  <2>1. \A i \in 1 .. n : called[i] \in CallsOf(routing)
    BY <1>2
  <2>2. \A call \in CallsOf(routing) : call.identity \in RuntimesOf(routing)
    BY DEF CallsOf
  <2> QED
    BY <2>1, <2>2
<1>4. before \in Seq(RuntimesOf(routing)) /\ Len(before) = n
      /\ \A i \in 1 .. n : before[i] = called[i].identity
  <2> HIDE DEF n
  <2> QED
    BY <1>2, <1>3
<1>5. /\ n <= routing.max_attempts
      /\ \A i, j \in 1 .. n : i # j => called[i].identity.adapter # called[j].identity.adapter
      /\ \A i \in 1 .. (n - 1) : called[i].outcome # "CONTENT_POLICY_BLOCKED"
      /\ \A i \in 1 .. n : called[i].identity.price = Expensive => MayBeExpensive(i)
      /\ Cardinality(FallbacksUpto(n - 1)) <= routing.max_fallbacks
  BY <1>1, <1>2 DEF CallsBounded
<1> HIDE DEF before
<1>6. CASE decision.outcome = "SELECT"
  <2>1. /\ decision.selected \in RuntimesOf(routing)
        /\ decision.selected.adapter \notin decision.attempted
        /\ \A i \in 1 .. n : called[i].identity.adapter \in decision.attempted
        /\ n + 1 <= routing.max_attempts
        /\ \A i \in 1 .. n : called[i].outcome # "CONTENT_POLICY_BLOCKED"
        /\ decision.selected.price = Expensive => MayBeExpensive(n + 1)
        /\ Cardinality(FallbacksUpto(n)) <= routing.max_fallbacks
    BY <1>1, <1>2, <1>6 DEF SelectionBounded
  <2>2. chosen = before \o <<decision.selected>>
    BY <1>6
  <2> HIDE DEF n, chosen
  <2>3. /\ Len(chosen) = n + 1 /\ DOMAIN chosen = 1 .. n + 1
        /\ \A i \in 1 .. n : chosen[i] = called[i].identity
        /\ chosen[n + 1] = decision.selected
    BY <1>2, <1>4, <2>1, <2>2
  <2>4. \A i, j \in DOMAIN chosen : i # j => chosen[i].adapter # chosen[j].adapter
    BY <1>2, <1>5, <2>1, <2>3
  <2>5. fallback = FallbacksUpto(n) /\ Len(chosen) - 1 = n
    BY <1>2, <2>3 DEF FallbacksUpto
  <2>6. \A i \in DOMAIN chosen : chosen[i].price = Expensive => MayBeExpensive(i)
    <3> SUFFICES ASSUME NEW i \in 1 .. n + 1, chosen[i].price = Expensive
                 PROVE  MayBeExpensive(i)
      BY <2>3
    <3>1. CASE i \in 1 .. n
      BY <1>5, <2>3, <3>1
    <3>2. CASE i = n + 1
      BY <2>1, <2>3, <3>2
    <3> QED
      BY <1>2, <3>1, <3>2
  <2> HIDE DEF fallback
  <2>7. /\ Len(chosen) <= routing.max_attempts
        /\ Cardinality(fallback) <= routing.max_fallbacks
        /\ \A i \in 1 .. (Len(chosen) - 1) : called[i].outcome # "CONTENT_POLICY_BLOCKED"
    BY <2>1, <2>3, <2>5
  <2> QED
    BY <2>4, <2>6, <2>7 DEF FallbackBounded, MayBeExpensive, fallback, chosen, before
<1>7. CASE decision.outcome # "SELECT"
  <2>1. chosen = before \o <<>>
    BY <1>7
  <2> HIDE DEF n, chosen
  <2>2. /\ Len(chosen) = n /\ DOMAIN chosen = 1 .. n
        /\ \A i \in 1 .. n : chosen[i] = called[i].identity
    BY <1>2, <1>4, <2>1
  <2>3. \A i, j \in DOMAIN chosen : i # j => chosen[i].adapter # chosen[j].adapter
    BY <1>5, <2>2
  <2>4. fallback = FallbacksUpto(n - 1)
    BY <2>2 DEF FallbacksUpto
  <2>5. \A i \in DOMAIN chosen : chosen[i].price = Expensive => MayBeExpensive(i)
    BY <1>5, <2>2
  <2> HIDE DEF fallback
  <2>6. /\ Len(chosen) <= routing.max_attempts
        /\ Cardinality(fallback) <= routing.max_fallbacks
        /\ \A i \in 1 .. (Len(chosen) - 1) : called[i].outcome # "CONTENT_POLICY_BLOCKED"
    BY <1>5, <2>2, <2>4
  <2> QED
    BY <2>3, <2>5, <2>6 DEF FallbackBounded, MayBeExpensive, fallback, chosen, before
<1> QED
  BY <1>6, <1>7

\* However a chain of failed calls goes, no runtime is selected twice, and selections
\* and fallbacks stay in the request's allowance (SelectResearchRuntime.reconsider).
THEOREM FallbacksBounded == RoutingSpec => []FallbackBounded
BY RoutingInvariant, RoutingSafe, PTL

=============================================================================
