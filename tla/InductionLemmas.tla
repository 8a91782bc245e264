-------------------------- MODULE InductionLemmas --------------------------
(***************************************************************************)
(* Induction as the existence of least elements, which is a statement      *)
(* about sets: a property that fails somewhere fails somewhere first.  It  *)
(* is what the facts about folds, sequences and circular waits rest on.    *)
(***************************************************************************)
EXTENDS Integers, Sequences, Filtering, SequenceTheorems, FiniteSetTheorems, WellFoundedInduction, TLAPS

(* A set of natural numbers has a least element. *)
LEMMA LeastNatural ==
  ASSUME NEW S \in SUBSET Nat, S # {}
  PROVE  \E n \in S : \A m \in S : n <= m
<1> DEFINE R == {p \in Nat \X Nat : p[1] < p[2]}
<1>1. IsWellFoundedOn(R, Nat)
  BY NatLessThanWellFounded DEF OpToRel
<1>2. \E n \in S : \A m \in S : ~(<<m, n>> \in R)
  <2> HIDE DEF R
  <2> QED
    BY <1>1, WFMin
<1>3. \A n, m \in Nat : ~(<<m, n>> \in R) => n <= m
  OBVIOUS
<1> HIDE DEF R
<1> QED
  BY <1>2, <1>3

(* A family of subsets of a finite set has a smallest one. *)
LEMMA LeastSubset ==
  ASSUME NEW S, IsFiniteSet(S), NEW C \in SUBSET SUBSET S, C # {}
  PROVE  \E X \in C : \A Y \in C : Y \subseteq X => Y = X
<1> DEFINE R == StrictSubsetOrdering(S)
<1>1. IsWellFoundedOn(R, SUBSET S)
  BY FS_FiniteSubsetsOfFinite, FS_StrictSubsetOrderingWellFounded
<1>2. \E X \in C : \A Y \in C : ~(<<Y, X>> \in R)
  <2> HIDE DEF R
  <2> QED
    BY <1>1, WFMin
<1> QED
  BY <1>2 DEF StrictSubsetOrdering

(* A set that contains 0, and i if it contains i - 1, contains 0..n. *)
LEMMA UpTo ==
  ASSUME NEW n \in Nat, NEW S, 0 \in S, \A i \in 1..n : i - 1 \in S => i \in S
  PROVE  0..n \subseteq S
<1> SUFFICES ASSUME (0..n) \ S # {} PROVE FALSE
  OBVIOUS
<1>1. PICK m \in (0..n) \ S : \A k \in (0..n) \ S : m <= k
  <2> DEFINE T == (0..n) \ S
  <2>1. T \in SUBSET Nat /\ T # {}
    OBVIOUS
  <2> HIDE DEF T
  <2>2. \E m \in T : \A k \in T : m <= k
    BY <2>1, LeastNatural
  <2> QED
    BY <2>2 DEF T
<1>2. m \in 1..n /\ m - 1 \in 0..n
  OBVIOUS
<1>3. m - 1 \in S
  BY <1>1, <1>2
<1> QED
  BY <1>2, <1>3, <1>1

(* A function may be defined by its first value and its steps. *)
Stepwise(f, n, V, first, step) ==
  f \in [0..n -> V] /\ f[0] = first /\ \A i \in 1..n : f[i] = step[i][f[i - 1]]

LEMMA StepwiseFunction ==
  ASSUME NEW n \in Nat, NEW V, NEW first \in V, NEW step,
         \A i \in 1..n, v \in V : step[i][v] \in V
  PROVE  \E f : Stepwise(f, n, V, first, step)
<1> DEFINE Up(k) == {f \in [0..k -> V] : f[0] = first /\ \A i \in 1..k : f[i] = step[i][f[i - 1]]}
           S == {k \in 0..n : Up(k) # {}}
<1>1. 0 \in S
  <2>1. [i \in 0..0 |-> first] \in Up(0)
    OBVIOUS
  <2> QED
    BY <2>1
<1>2. ASSUME NEW k \in 1..n, k - 1 \in S PROVE k \in S
  <2>1. PICK f \in [0..(k - 1) -> V] :
          f[0] = first /\ \A i \in 1..(k - 1) : f[i] = step[i][f[i - 1]]
    BY <1>2
  <2> DEFINE g == [i \in 0..k |-> IF i = k THEN step[k][f[k - 1]] ELSE f[i]]
  <2>2. step[k][f[k - 1]] \in V
    BY <2>1
  <2>3. g \in [0..k -> V]
    BY <2>2
  <2>4. g[0] = first
    BY <2>1
  <2>5. ASSUME NEW i \in 1..k PROVE g[i] = step[i][g[i - 1]]
    <3>1. i - 1 \in 0..k /\ i - 1 # k /\ g[i - 1] = f[i - 1]
      OBVIOUS
    <3>2. CASE i = k
      BY <3>1, <3>2
    <3>3. CASE i # k
      <4>1. i \in 1..(k - 1)
        BY <3>3
      <4> QED
        BY <4>1, <3>1, <2>1
    <3> QED
      BY <3>2, <3>3
  <2> HIDE DEF g
  <2>6. g \in Up(k)
    BY <2>3, <2>4, <2>5
  <2>7. k \in 0..n
    OBVIOUS
  <2> HIDE DEF Up
  <2> QED
    BY <2>6, <2>7
<1> HIDE DEF S
<1>3. 0..n \subseteq S
  BY <1>1, <1>2, UpTo
<1>4. Up(n) # {}
  BY <1>3 DEF S
<1> QED
  BY <1>4 DEF Stepwise

-----------------------------------------------------------------------------
(* Sequences by their elements. *)

Elems(q) == {q[i] : i \in 1..Len(q)}

Distinct(q) == \A i, j \in 1..Len(q) : q[i] = q[j] => i = j

LEMMA EmptyElems == Elems(<<>>) = {} /\ Distinct(<<>>)
BY DEF Elems, Distinct

LEMMA AppendElems ==
  ASSUME NEW E, NEW q \in Seq(E), NEW e \in E
  PROVE  /\ Append(q, e) \in Seq(E) /\ Elems(Append(q, e)) = Elems(q) \cup {e}
         /\ Distinct(q) /\ e \notin Elems(q) => Distinct(Append(q, e))
<1>1. /\ Append(q, e) \in Seq(E) /\ Len(q) \in Nat /\ Len(Append(q, e)) = Len(q) + 1
      /\ \A i \in 1..Len(q) : Append(q, e)[i] = q[i]
      /\ Append(q, e)[Len(q) + 1] = e
  BY AppendProperties, LenProperties
<1>2. 1..(Len(q) + 1) = (1..Len(q)) \cup {Len(q) + 1}
  BY <1>1
<1>3. Elems(Append(q, e)) = Elems(q) \cup {e}
  BY <1>1, <1>2 DEF Elems
<1>4. Distinct(q) /\ e \notin Elems(q) => Distinct(Append(q, e))
  BY <1>1, <1>2 DEF Elems, Distinct
<1> QED
  BY <1>1, <1>3, <1>4

LEMMA TailElems ==
  ASSUME NEW E, NEW q \in Seq(E), q # <<>>
  PROVE  /\ Head(q) \in E /\ Tail(q) \in Seq(E)
         /\ Elems(q) = {Head(q)} \cup Elems(Tail(q))
         /\ Distinct(q) => Distinct(Tail(q)) /\ Head(q) \notin Elems(Tail(q))
<1>1. /\ Head(q) \in E /\ Tail(q) \in Seq(E) /\ Len(q) \in Nat \ {0} /\ Head(q) = q[1]
      /\ Len(Tail(q)) = Len(q) - 1 /\ \A i \in 1..(Len(q) - 1) : Tail(q)[i] = q[i + 1]
  BY HeadTailProperties, EmptySeq
<1>2. \A i \in 1..Len(q) : i = 1 \/ i - 1 \in 1..(Len(q) - 1)
  BY <1>1
<1>3. \A i \in 1..(Len(q) - 1) : i + 1 \in 1..Len(q) /\ i + 1 # 1
  BY <1>1
<1>4. \A i \in 1..Len(q) : i # 1 => q[i] = Tail(q)[i - 1]
  BY <1>1, <1>2
<1>5. Elems(q) = {Head(q)} \cup Elems(Tail(q))
  <2>1. ASSUME NEW i \in 1..Len(q) PROVE q[i] \in {Head(q)} \cup Elems(Tail(q))
    BY <1>1, <1>2, <1>4 DEF Elems
  <2>2. ASSUME NEW i \in 1..Len(Tail(q)) PROVE Tail(q)[i] \in Elems(q)
    BY <1>1, <1>3 DEF Elems
  <2>3. Head(q) \in Elems(q)
    BY <1>1 DEF Elems
  <2>4. Elems(q) \subseteq {Head(q)} \cup Elems(Tail(q))
    BY <2>1 DEF Elems
  <2>5. Elems(Tail(q)) \subseteq Elems(q)
    BY <2>2 DEF Elems
  <2> QED
    BY <2>3, <2>4, <2>5
<1>6. Distinct(q) => Distinct(Tail(q)) /\ Head(q) \notin Elems(Tail(q))
  BY <1>1, <1>3 DEF Elems, Distinct
<1> QED
  BY <1>1, <1>5, <1>6

-----------------------------------------------------------------------------
(* Kept: the rows that a query returns. *)

(* What the function in Kept is, prefix by prefix; it exists. *)
KeptFrom(f, E, q, S) ==
  /\ f \in [0..Len(q) -> Seq(E)] /\ Kept(q, S) = f[Len(q)] /\ f[0] = <<>>
  /\ \A i \in 1..Len(q) : f[i] = IF q[i] \in S THEN Append(f[i - 1], q[i]) ELSE f[i - 1]

LEMMA KeptPrefixes ==
  ASSUME NEW E, NEW q \in Seq(E), NEW S
  PROVE  \E f : KeptFrom(f, E, q, S)
<1> DEFINE n == Len(q)
           V == Seq(E)
           none == <<>>
           next(i, v) == IF q[i] \in S THEN Append(v, q[i]) ELSE v
           step == [i \in 1..n |-> [v \in V |-> next(i, v)]]
           Is(f) == f = [i \in 0..n |-> IF i = 0 THEN none ELSE next(i, f[i - 1])]
           g == CHOOSE f : Is(f)
<1>1. n \in Nat /\ none \in V /\ \A i \in 1..n : q[i] \in E
  OBVIOUS
<1>2. \A i \in 1..n, v \in V : next(i, v) \in V
  BY <1>1, AppendProperties
<1>3. Kept(q, S) = g[n]
  BY DEF Kept
<1> HIDE DEF n, V, none, next
<1>4. \A i \in 1..n, v \in V : step[i][v] \in V
  BY <1>2
<1>5. PICK f \in [0..n -> V] : f[0] = none /\ \A i \in 1..n : f[i] = step[i][f[i - 1]]
  <2> HIDE DEF step
  <2>1. \E f : Stepwise(f, n, V, none, step)
    BY <1>1, <1>4, StepwiseFunction
  <2> QED
    BY <2>1 DEF Stepwise
<1>6. \A i \in 1..n : f[i] = next(i, f[i - 1])
  <2> SUFFICES ASSUME NEW i \in 1..n PROVE f[i] = next(i, f[i - 1])
    OBVIOUS
  <2>1. i - 1 \in 0..n
    BY <1>1
  <2>2. f[i - 1] \in V
    BY <1>5, <2>1
  <2> QED
    BY <1>5, <2>2
<1>7. f = [i \in 0..n |-> IF i = 0 THEN none ELSE next(i, f[i - 1])]
  BY <1>1, <1>5, <1>6
<1>8. Is(g)
  <2>1. Is(f)
    BY <1>7
  <2> HIDE DEF Is
  <2> QED
    BY <2>1
<1>9. /\ g = [i \in 0..n |-> g[i]] /\ g[0] = none
      /\ \A i \in 1..n : g[i] = next(i, g[i - 1])
  <2> HIDE DEF g
  <2>1. g = [i \in 0..n |-> IF i = 0 THEN none ELSE next(i, g[i - 1])]
    BY <1>8
  <2>2. 0 \in 0..n /\ \A i \in 1..n : i \in 0..n /\ i # 0
    BY <1>1
  <2> QED
    BY <2>1, <2>2
<1> HIDE DEF g
<1>10. \A i \in 0..n : g[i] \in V
  <2> DEFINE T == {i \in 0..n : g[i] \in V}
  <2>1. 0 \in T
    BY <1>1, <1>9
  <2>2. ASSUME NEW i \in 1..n, i - 1 \in T PROVE i \in T
    <3>1. g[i - 1] \in V
      BY <2>2
    <3>2. g[i] \in V
      BY <1>2, <1>9, <3>1
    <3> QED
      BY <3>2, <1>1
  <2> HIDE DEF T
  <2>3. 0..n \subseteq T
    BY <1>1, <2>1, <2>2, UpTo
  <2> QED
    BY <2>3 DEF T
<1>11. g \in [0..n -> V]
  BY <1>9, <1>10
<1> QED
  BY <1>3, <1>9, <1>11 DEF n, V, none, next, KeptFrom

(* Filtering a sequence keeps the elements asked for, each as often.        *)
LEMMA KeptElems ==
  ASSUME NEW E, NEW q \in Seq(E), NEW S
  PROVE  /\ Kept(q, S) \in Seq(E) /\ Elems(Kept(q, S)) = Elems(q) \cap S
         /\ Distinct(q) => Distinct(Kept(q, S))
<1>0. PICK f : KeptFrom(f, E, q, S)
  BY KeptPrefixes
<1>1. /\ f \in [0..Len(q) -> Seq(E)] /\ Kept(q, S) = f[Len(q)] /\ f[0] = <<>>
      /\ \A i \in 1..Len(q) : f[i] = IF q[i] \in S THEN Append(f[i - 1], q[i]) ELSE f[i - 1]
  BY <1>0 DEF KeptFrom
<1> DEFINE n == Len(q)
           First(i) == {q[j] : j \in 1..i}
           Good(i) == /\ Elems(f[i]) = First(i) \cap S
                      /\ Distinct(q) => Distinct(f[i])
           T == {i \in 0..n : Good(i)}
<1>2. n \in Nat /\ \A i \in 1..n : q[i] \in E /\ i - 1 \in 0..n /\ i \in 0..n
  BY LenProperties, ElementOfSeq
<1> HIDE DEF n
<1>3. 0 \in T
  <2>1. f[0] = <<>> /\ Len(<<>>) = 0 /\ 1..0 = {} /\ 0 \in 0..n
    BY <1>1, <1>2
  <2>2. Elems(f[0]) = {} /\ First(0) = {} /\ Distinct(f[0])
    BY <2>1 DEF Elems, Distinct
  <2> HIDE DEF First
  <2> QED
    BY <2>1, <2>2
<1>4. ASSUME NEW i \in 1..n, i - 1 \in T PROVE i \in T
  <2>1. /\ f[i - 1] \in Seq(E) /\ Good(i - 1) /\ q[i] \in E /\ i \in 0..n
        /\ f[i] = IF q[i] \in S THEN Append(f[i - 1], q[i]) ELSE f[i - 1]
    BY <1>1, <1>2, <1>4 DEF n
  <2>2. First(i) = First(i - 1) \cup {q[i]}
    <3>1. 1..i = (1..(i - 1)) \cup {i}
      BY <1>2
    <3> QED
      BY <3>1
  <2>3. Distinct(q) => q[i] \notin First(i - 1)
    BY <1>2 DEF Distinct, n
  <2> HIDE DEF First
  <2>4. CASE q[i] \in S
    <3>1. /\ Elems(f[i]) = Elems(f[i - 1]) \cup {q[i]}
          /\ Distinct(f[i - 1]) /\ q[i] \notin Elems(f[i - 1]) => Distinct(f[i])
      BY <2>1, <2>4, AppendElems
    <3>2. Good(i)
      BY <2>1, <2>2, <2>3, <2>4, <3>1
    <3> QED
      BY <2>1, <3>2
  <2>5. CASE q[i] \notin S
    <3>1. Good(i)
      BY <2>1, <2>2, <2>5
    <3> QED
      BY <2>1, <3>1
  <2> QED
    BY <2>4, <2>5
<1> HIDE DEF T
<1>5. 0..n \subseteq T
  BY <1>2, <1>3, <1>4, UpTo
<1>6. Good(n)
  <2> HIDE DEF Good
  <2>1. n \in T
    BY <1>2, <1>5
  <2> QED
    BY <2>1 DEF T
<1>7. First(n) = Elems(q)
  BY DEF Elems, n
<1> QED
  <2>1. f[Len(q)] \in Seq(E)
    BY <1>1, <1>2 DEF n
  <2> HIDE DEF First
  <2> QED
    BY <1>1, <1>6, <1>7, <2>1 DEF n
=============================================================================
