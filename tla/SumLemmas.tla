----------------------------- MODULE SumLemmas -----------------------------
(***************************************************************************)
(* Sums over finite sets: the sum of a function does not depend on the     *)
(* order in which its values are added, so that it can be taken apart and  *)
(* compared element by element.                                            *)
(***************************************************************************)
EXTENDS Functions, InductionLemmas

First(T) == CHOOSE x \in T : TRUE

(* What SumFunctionOnSet computes: g adds the values of f, First first.     *)
Adds(g, f, S) ==
  g = [T \in SUBSET S |-> IF T = {} THEN 0 ELSE f[First(T)] + g[T \ {First(T)}]]

LEMMA FirstIn == ASSUME NEW T, T # {} PROVE First(T) \in T
BY DEF First

LEMMA SumUnfold ==
  ASSUME NEW f, NEW S
  PROVE  \E g : SumFunctionOnSet(f, S) = g[S] /\ g = CHOOSE h : Adds(h, f, S)
BY DEF SumFunctionOnSet, FoldFunctionOnSet, MapThenFoldSet, First, Adds

(* The subsets of S of up to k elements can be summed. *)
Small(k, S) == {T \in SUBSET S : Cardinality(T) <= k}

AddsUpTo(g, k, f, S) ==
  g = [T \in Small(k, S) |-> IF T = {} THEN 0 ELSE f[First(T)] + g[T \ {First(T)}]]

LEMMA SmallerSet ==
  ASSUME NEW S, IsFiniteSet(S), NEW T \in SUBSET S
  PROVE  /\ IsFiniteSet(T) /\ Cardinality(T) \in Nat /\ Cardinality(T) <= Cardinality(S)
         /\ Cardinality(T) = 0 <=> T = {}
         /\ T # {} => /\ T \ {First(T)} \in SUBSET S
                      /\ Cardinality(T \ {First(T)}) = Cardinality(T) - 1
<1>1. IsFiniteSet(T) /\ Cardinality(T) \in Nat /\ Cardinality(T) <= Cardinality(S)
  BY FS_Subset, FS_CardinalityType
<1>2. Cardinality(T) = 0 <=> T = {}
  BY <1>1, FS_EmptySet
<1>3. T # {} => First(T) \in T
  BY FirstIn
<1>4. T # {} => Cardinality(T \ {First(T)}) = Cardinality(T) - 1
  BY <1>1, <1>3, FS_RemoveElement
<1> QED
  BY <1>1, <1>2, <1>4

LEMMA AddsExists ==
  ASSUME NEW f, NEW S, IsFiniteSet(S)
  PROVE  \E g : Adds(g, f, S)
<1> DEFINE n == Cardinality(S)
           K == {k \in 0..n : \E g : AddsUpTo(g, k, f, S)}
<1>0. n \in Nat
  BY FS_CardinalityType
<1> HIDE DEF n
<1>1. 0 \in K
  <2> DEFINE g == [T \in Small(0, S) |-> 0]
  <2>1. ASSUME NEW T \in Small(0, S) PROVE T = {}
    <3>1. T \in SUBSET S /\ Cardinality(T) <= 0
      BY DEF Small
    <3>2. Cardinality(T) \in Nat /\ (Cardinality(T) = 0 <=> T = {})
      BY <3>1, SmallerSet
    <3> QED
      BY <3>1, <3>2
  <2>2. AddsUpTo(g, 0, f, S)
    <3>1. g = [T \in Small(0, S) |-> IF T = {} THEN 0 ELSE f[First(T)] + g[T \ {First(T)}]]
      BY <2>1
    <3> HIDE DEF g
    <3> QED
      BY <3>1 DEF AddsUpTo
  <2> HIDE DEF g
  <2> QED
    BY <1>0, <2>2
<1>2. ASSUME NEW k \in 1..n, k - 1 \in K PROVE k \in K
  <2>1. PICK g : AddsUpTo(g, k - 1, f, S)
    BY <1>2
  <2> DEFINE h == [T \in Small(k, S) |-> IF T = {} THEN 0 ELSE f[First(T)] + g[T \ {First(T)}]]
  <2>2. \A T \in Small(k - 1, S) :
          /\ T \in Small(k, S)
          /\ g[T] = IF T = {} THEN 0 ELSE f[First(T)] + g[T \ {First(T)}]
    <3>1. ASSUME NEW T \in Small(k - 1, S) PROVE T \in Small(k, S)
      <4>1. T \in SUBSET S /\ Cardinality(T) <= k - 1
        BY DEF Small
      <4>2. Cardinality(T) \in Nat
        BY <4>1, SmallerSet
      <4> QED
        BY <1>0, <4>1, <4>2 DEF Small
    <3> QED
      BY <2>1, <3>1 DEF AddsUpTo
  <2>3. \A T \in Small(k - 1, S) : h[T] = g[T]
    BY <2>2
  <2>4. \A T \in Small(k, S) : T # {} => T \ {First(T)} \in Small(k - 1, S)
    BY SmallerSet DEF Small
  <2>5. h = [T \in Small(k, S) |-> IF T = {} THEN 0 ELSE f[First(T)] + h[T \ {First(T)}]]
    <3>1. \A T \in Small(k, S) : T # {} => g[T \ {First(T)}] = h[T \ {First(T)}]
      BY <2>3, <2>4
    <3> QED
      BY <3>1
  <2> HIDE DEF h
  <2>6. AddsUpTo(h, k, f, S)
    BY <2>5 DEF AddsUpTo
  <2> QED
    BY <1>0, <2>6
<1> HIDE DEF K
<1>3. 0..n \subseteq K
  BY <1>0, <1>1, <1>2, UpTo
<1>4. PICK g : AddsUpTo(g, n, f, S)
  <2>1. n \in K
    BY <1>0, <1>3
  <2> QED
    BY <2>1 DEF K
<1>5. Small(n, S) = SUBSET S
  BY SmallerSet DEF Small, n
<1> QED
  BY <1>4, <1>5 DEF AddsUpTo, Adds

LEMMA SumAdds ==
  ASSUME NEW f, NEW S, IsFiniteSet(S)
  PROVE  \E g : Adds(g, f, S) /\ SumFunctionOnSet(f, S) = g[S]
<1>1. PICK g : SumFunctionOnSet(f, S) = g[S] /\ g = CHOOSE h : Adds(h, f, S)
  BY SumUnfold
<1>2. \E h : Adds(h, f, S)
  BY AddsExists
<1>3. Adds(g, f, S)
  BY <1>1, <1>2
<1> QED
  BY <1>1, <1>3

(* The sums of a set and of its subsets are computed alike. *)
LEMMA AddsAgree ==
  ASSUME NEW f, NEW S, IsFiniteSet(S), NEW R \in SUBSET S, NEW g, NEW h,
         Adds(g, f, S), Adds(h, f, R)
  PROVE  \A T \in SUBSET R : g[T] = h[T]
<1> DEFINE C == {T \in SUBSET R : g[T] # h[T]}
<1> SUFFICES ASSUME C # {} PROVE FALSE
  OBVIOUS
<1>1. PICK T \in C : \A U \in C : U \subseteq T => U = T
  <2>1. IsFiniteSet(R) /\ C \in SUBSET SUBSET R
    BY FS_Subset
  <2> HIDE DEF C
  <2> QED
    BY <2>1, LeastSubset
<1>2. T \in SUBSET S /\ T \in SUBSET R
  OBVIOUS
<1>3. /\ g[T] = IF T = {} THEN 0 ELSE f[First(T)] + g[T \ {First(T)}]
      /\ h[T] = IF T = {} THEN 0 ELSE f[First(T)] + h[T \ {First(T)}]
  BY <1>2 DEF Adds
<1>4. T # {} => T \ {First(T)} \notin C
  BY <1>1, FirstIn
<1> QED
  BY <1>1, <1>2, <1>3, <1>4

LEMMA SumRecursion ==
  ASSUME NEW f, NEW S, IsFiniteSet(S)
  PROVE  SumFunctionOnSet(f, S) =
           IF S = {} THEN 0 ELSE f[First(S)] + SumFunctionOnSet(f, S \ {First(S)})
<1> DEFINE R == S \ {First(S)}
<1>1. PICK g : Adds(g, f, S) /\ SumFunctionOnSet(f, S) = g[S]
  BY SumAdds
<1>2. R \in SUBSET S /\ IsFiniteSet(R)
  BY FS_Subset
<1>3. PICK h : Adds(h, f, R) /\ SumFunctionOnSet(f, R) = h[R]
  BY <1>2, SumAdds
<1>4. g[R] = h[R]
  BY <1>1, <1>2, <1>3, AddsAgree
<1>5. S \in SUBSET S
  OBVIOUS
<1>6. g[S] = IF S = {} THEN 0 ELSE f[First(S)] + g[R]
  BY <1>1, <1>5 DEF Adds
<1> QED
  BY <1>1, <1>3, <1>4, <1>6

(* f has integer values on S. *)
IntOn(f, S) == \A x \in S : f[x] \in Int

LEMMA SumEmpty == ASSUME NEW f PROVE SumFunctionOnSet(f, {}) = 0
BY SumRecursion, FS_EmptySet

LEMMA SumInt ==
  ASSUME NEW f, NEW S, IsFiniteSet(S), IntOn(f, S)
  PROVE  SumFunctionOnSet(f, S) \in Int
<1> DEFINE C == {T \in SUBSET S : SumFunctionOnSet(f, T) \notin Int}
<1> SUFFICES ASSUME C # {} PROVE FALSE
  OBVIOUS
<1>1. PICK T \in C : \A U \in C : U \subseteq T => U = T
  <2>1. C \in SUBSET SUBSET S
    OBVIOUS
  <2> HIDE DEF C
  <2> QED
    BY <2>1, LeastSubset
<1>2. T \in SUBSET S /\ IsFiniteSet(T) /\ SumFunctionOnSet(f, T) \notin Int
  BY <1>1, FS_Subset
<1>3. T # {} /\ First(T) \in T
  BY <1>2, SumEmpty, FirstIn
<1>4. SumFunctionOnSet(f, T \ {First(T)}) \in Int
  <2>1. T \ {First(T)} \notin C /\ T \ {First(T)} \in SUBSET S
    BY <1>1, <1>3
  <2> QED
    BY <2>1
<1>5. f[First(T)] \in Int
  BY <1>2, <1>3 DEF IntOn
<1> QED
  BY <1>2, <1>3, <1>4, <1>5, SumRecursion

(* Any element can be added last. *)
LEMMA SumTake ==
  ASSUME NEW f, NEW S, IsFiniteSet(S), IntOn(f, S), NEW x \in S
  PROVE  SumFunctionOnSet(f, S) = f[x] + SumFunctionOnSet(f, S \ {x})
<1> DEFINE Bad(T) == \E y \in T : SumFunctionOnSet(f, T) # f[y] + SumFunctionOnSet(f, T \ {y})
           C == {T \in SUBSET S : Bad(T)}
<1> SUFFICES ASSUME C # {} PROVE FALSE
  <2>1. S \in SUBSET S
    OBVIOUS
  <2> QED
    BY <2>1
<1>1. PICK T \in C : \A U \in C : U \subseteq T => U = T
  <2>1. C \in SUBSET SUBSET S
    OBVIOUS
  <2> HIDE DEF C
  <2> QED
    BY <2>1, LeastSubset
<1>2. PICK y \in T : SumFunctionOnSet(f, T) # f[y] + SumFunctionOnSet(f, T \ {y})
  BY <1>1
<1> DEFINE c == First(T)
           R == T \ {c, y}
<1>3. T \in SUBSET S /\ IsFiniteSet(T) /\ c \in T
  BY <1>1, <1>2, FS_Subset, FirstIn
<1> HIDE DEF Bad
<1>4. SumFunctionOnSet(f, T) = f[c] + SumFunctionOnSet(f, T \ {c})
  BY <1>2, <1>3, SumRecursion DEF c
<1> HIDE DEF c
<1>5. c # y
  BY <1>2, <1>4
<1>6. \A z \in T : ~Bad(T \ {z})
  BY <1>1
<1>7. SumFunctionOnSet(f, T \ {c}) = f[y] + SumFunctionOnSet(f, R)
  <2>1. y \in T \ {c} /\ (T \ {c}) \ {y} = R
    BY <1>5
  <2>2. SumFunctionOnSet(f, T \ {c}) = f[y] + SumFunctionOnSet(f, (T \ {c}) \ {y})
    BY <1>3, <1>6, <2>1 DEF Bad
  <2> QED
    BY <2>1, <2>2
<1>8. SumFunctionOnSet(f, T \ {y}) = f[c] + SumFunctionOnSet(f, R)
  <2>1. c \in T \ {y} /\ (T \ {y}) \ {c} = R
    BY <1>3, <1>5
  <2>2. SumFunctionOnSet(f, T \ {y}) = f[c] + SumFunctionOnSet(f, (T \ {y}) \ {c})
    BY <1>2, <1>6, <2>1 DEF Bad
  <2> QED
    BY <2>1, <2>2
<1>9. f[c] \in Int /\ f[y] \in Int /\ SumFunctionOnSet(f, R) \in Int
  <2>1. IsFiniteSet(R) /\ IntOn(f, R)
    BY <1>3, FS_Subset DEF IntOn
  <2> QED
    BY <1>2, <1>3, <2>1, SumInt DEF IntOn
<1> QED
  BY <1>2, <1>4, <1>7, <1>8, <1>9

LEMMA SumPut ==
  ASSUME NEW f, NEW S, IsFiniteSet(S), NEW x, x \notin S, IntOn(f, S \cup {x})
  PROVE  SumFunctionOnSet(f, S \cup {x}) = f[x] + SumFunctionOnSet(f, S)
<1>1. IsFiniteSet(S \cup {x}) /\ (S \cup {x}) \ {x} = S
  BY FS_AddElement
<1> QED
  BY <1>1, SumTake

-----------------------------------------------------------------------------
(* A relation between sums that holds for {} and with every element added. *)
LEMMA SumSame ==
  ASSUME NEW f, NEW g, NEW S, IsFiniteSet(S), IntOn(f, S), \A x \in S : f[x] = g[x]
  PROVE  SumFunctionOnSet(f, S) = SumFunctionOnSet(g, S)
<1> DEFINE C == {T \in SUBSET S : SumFunctionOnSet(f, T) # SumFunctionOnSet(g, T)}
<1> SUFFICES ASSUME C # {} PROVE FALSE
  OBVIOUS
<1>1. PICK T \in C : \A U \in C : U \subseteq T => U = T
  <2>1. C \in SUBSET SUBSET S
    OBVIOUS
  <2> HIDE DEF C
  <2> QED
    BY <2>1, LeastSubset
<1>2. T \in SUBSET S /\ IsFiniteSet(T) /\ SumFunctionOnSet(f, T) # SumFunctionOnSet(g, T)
  BY <1>1, FS_Subset
<1>3. T # {} /\ First(T) \in T
  BY <1>2, SumEmpty, FirstIn
<1>4. SumFunctionOnSet(f, T \ {First(T)}) = SumFunctionOnSet(g, T \ {First(T)})
  <2>1. T \ {First(T)} \notin C /\ T \ {First(T)} \in SUBSET S
    BY <1>1, <1>3
  <2> QED
    BY <2>1
<1>5. f[First(T)] = g[First(T)]
  BY <1>2, <1>3
<1>6. /\ SumFunctionOnSet(f, T) = f[First(T)] + SumFunctionOnSet(f, T \ {First(T)})
      /\ SumFunctionOnSet(g, T) = g[First(T)] + SumFunctionOnSet(g, T \ {First(T)})
  BY <1>2, <1>3, SumRecursion
<1> QED
  BY <1>2, <1>4, <1>5, <1>6

LEMMA SumPlus ==
  ASSUME NEW f, NEW g, NEW h, NEW S, IsFiniteSet(S), IntOn(f, S), IntOn(g, S),
         \A x \in S : h[x] = f[x] + g[x]
  PROVE  SumFunctionOnSet(h, S) = SumFunctionOnSet(f, S) + SumFunctionOnSet(g, S)
<1> DEFINE C == {T \in SUBSET S :
                   SumFunctionOnSet(h, T) # SumFunctionOnSet(f, T) + SumFunctionOnSet(g, T)}
<1> SUFFICES ASSUME C # {} PROVE FALSE
  OBVIOUS
<1>1. PICK T \in C : \A U \in C : U \subseteq T => U = T
  <2>1. C \in SUBSET SUBSET S
    OBVIOUS
  <2> HIDE DEF C
  <2> QED
    BY <2>1, LeastSubset
<1>2. /\ T \in SUBSET S /\ IsFiniteSet(T)
      /\ SumFunctionOnSet(h, T) # SumFunctionOnSet(f, T) + SumFunctionOnSet(g, T)
  BY <1>1, FS_Subset
<1>3. T # {} /\ First(T) \in T
  BY <1>2, SumEmpty, FirstIn
<1> DEFINE R == T \ {First(T)}
<1>4. SumFunctionOnSet(h, R) = SumFunctionOnSet(f, R) + SumFunctionOnSet(g, R)
  <2>1. R \notin C /\ R \in SUBSET S
    BY <1>1, <1>3
  <2> QED
    BY <2>1
<1>5. /\ h[First(T)] = f[First(T)] + g[First(T)]
      /\ f[First(T)] \in Int /\ g[First(T)] \in Int
  BY <1>2, <1>3 DEF IntOn
<1>6. /\ SumFunctionOnSet(f, T) = f[First(T)] + SumFunctionOnSet(f, R)
      /\ SumFunctionOnSet(g, T) = g[First(T)] + SumFunctionOnSet(g, R)
      /\ SumFunctionOnSet(h, T) = h[First(T)] + SumFunctionOnSet(h, R)
  BY <1>2, <1>3, SumRecursion
<1>7. SumFunctionOnSet(f, R) \in Int /\ SumFunctionOnSet(g, R) \in Int
  <2>1. IsFiniteSet(R) /\ IntOn(f, R) /\ IntOn(g, R)
    BY <1>2, FS_Subset DEF IntOn
  <2> QED
    BY <2>1, SumInt
<1> QED
  BY <1>2, <1>4, <1>5, <1>6, <1>7

LEMMA SumAtMost ==
  ASSUME NEW f, NEW g, NEW S, IsFiniteSet(S), IntOn(f, S), IntOn(g, S), \A x \in S : f[x] <= g[x]
  PROVE  SumFunctionOnSet(f, S) <= SumFunctionOnSet(g, S)
<1> DEFINE C == {T \in SUBSET S : ~(SumFunctionOnSet(f, T) <= SumFunctionOnSet(g, T))}
<1> SUFFICES ASSUME C # {} PROVE FALSE
  OBVIOUS
<1>1. PICK T \in C : \A U \in C : U \subseteq T => U = T
  <2>1. C \in SUBSET SUBSET S
    OBVIOUS
  <2> HIDE DEF C
  <2> QED
    BY <2>1, LeastSubset
<1>2. /\ T \in SUBSET S /\ IsFiniteSet(T)
      /\ ~(SumFunctionOnSet(f, T) <= SumFunctionOnSet(g, T))
  BY <1>1, FS_Subset
<1>3. T # {} /\ First(T) \in T
  BY <1>2, SumEmpty, FirstIn
<1> DEFINE R == T \ {First(T)}
<1>4. SumFunctionOnSet(f, R) <= SumFunctionOnSet(g, R)
  <2>1. R \notin C /\ R \in SUBSET S
    BY <1>1, <1>3
  <2> QED
    BY <2>1
<1>5. f[First(T)] <= g[First(T)] /\ f[First(T)] \in Int /\ g[First(T)] \in Int
  BY <1>2, <1>3 DEF IntOn
<1>6. /\ SumFunctionOnSet(f, T) = f[First(T)] + SumFunctionOnSet(f, R)
      /\ SumFunctionOnSet(g, T) = g[First(T)] + SumFunctionOnSet(g, R)
  BY <1>2, <1>3, SumRecursion
<1>7. SumFunctionOnSet(f, R) \in Int /\ SumFunctionOnSet(g, R) \in Int
  <2>1. IsFiniteSet(R) /\ IntOn(f, R) /\ IntOn(g, R)
    BY <1>2, FS_Subset DEF IntOn
  <2> QED
    BY <2>1, SumInt
<1> QED
  BY <1>2, <1>4, <1>5, <1>6, <1>7

(* The sum of fewer natural numbers is no larger. *)
LEMMA SumFewer ==
  ASSUME NEW f, NEW S, IsFiniteSet(S), \A x \in S : f[x] \in Nat, NEW R \in SUBSET S
  PROVE  SumFunctionOnSet(f, R) <= SumFunctionOnSet(f, S)
<1> DEFINE C == {T \in SUBSET S : R \subseteq T /\ ~(SumFunctionOnSet(f, R) <= SumFunctionOnSet(f, T))}
<1> SUFFICES ASSUME C # {} PROVE FALSE
  <2>1. S \in SUBSET S
    OBVIOUS
  <2> QED
    BY <2>1
<1>1. PICK T \in C : \A U \in C : U \subseteq T => U = T
  <2>1. C \in SUBSET SUBSET S
    OBVIOUS
  <2> HIDE DEF C
  <2> QED
    BY <2>1, LeastSubset
<1>2. /\ T \in SUBSET S /\ IsFiniteSet(T) /\ IntOn(f, T) /\ R \subseteq T
      /\ ~(SumFunctionOnSet(f, R) <= SumFunctionOnSet(f, T))
  BY <1>1, FS_Subset DEF IntOn
<1>3. SumFunctionOnSet(f, R) \in Int /\ SumFunctionOnSet(f, T) \in Int
  <2>1. IsFiniteSet(R) /\ IntOn(f, R)
    BY <1>2, FS_Subset DEF IntOn
  <2> QED
    BY <1>2, <2>1, SumInt
<1>4. PICK x \in T : x \notin R
  <2>1. R # T
    BY <1>2, <1>3
  <2> QED
    BY <1>2, <2>1
<1>5. SumFunctionOnSet(f, T) = f[x] + SumFunctionOnSet(f, T \ {x})
  BY <1>2, SumTake
<1>6. SumFunctionOnSet(f, R) <= SumFunctionOnSet(f, T \ {x})
  <2>1. T \ {x} \notin C /\ T \ {x} \in SUBSET S /\ R \subseteq T \ {x}
    BY <1>1, <1>2, <1>4
  <2> QED
    BY <2>1
<1>7. f[x] \in Nat /\ SumFunctionOnSet(f, T \ {x}) \in Int
  <2>1. IsFiniteSet(T \ {x}) /\ IntOn(f, T \ {x})
    BY <1>2, FS_Subset DEF IntOn
  <2> QED
    BY <1>2, <2>1, SumInt
<1> QED
  BY <1>2, <1>3, <1>5, <1>6, <1>7

(* Zeros do not count. *)
LEMMA SumZeros ==
  ASSUME NEW f, NEW S, IsFiniteSet(S), IntOn(f, S), NEW R \in SUBSET S, \A x \in S \ R : f[x] = 0
  PROVE  SumFunctionOnSet(f, R) = SumFunctionOnSet(f, S)
<1> DEFINE C == {T \in SUBSET S : R \subseteq T /\ SumFunctionOnSet(f, R) # SumFunctionOnSet(f, T)}
<1> SUFFICES ASSUME C # {} PROVE FALSE
  <2>1. S \in SUBSET S
    OBVIOUS
  <2> QED
    BY <2>1
<1>1. PICK T \in C : \A U \in C : U \subseteq T => U = T
  <2>1. C \in SUBSET SUBSET S
    OBVIOUS
  <2> HIDE DEF C
  <2> QED
    BY <2>1, LeastSubset
<1>2. /\ T \in SUBSET S /\ IsFiniteSet(T) /\ IntOn(f, T) /\ R \subseteq T
      /\ SumFunctionOnSet(f, R) # SumFunctionOnSet(f, T)
  BY <1>1, FS_Subset DEF IntOn
<1>3. PICK x \in T : x \notin R
  BY <1>2
<1>4. SumFunctionOnSet(f, T) = f[x] + SumFunctionOnSet(f, T \ {x})
  BY <1>2, SumTake
<1>5. SumFunctionOnSet(f, R) = SumFunctionOnSet(f, T \ {x})
  <2>1. T \ {x} \notin C /\ T \ {x} \in SUBSET S /\ R \subseteq T \ {x}
    BY <1>1, <1>2, <1>3
  <2> QED
    BY <2>1
<1>6. f[x] = 0 /\ SumFunctionOnSet(f, R) \in Int
  <2>1. IsFiniteSet(R) /\ IntOn(f, R)
    BY <1>2, FS_Subset DEF IntOn
  <2> QED
    BY <1>2, <1>3, <2>1, SumInt
<1> QED
  BY <1>2, <1>4, <1>5, <1>6

(* One value changes. *)
LEMMA SumChange ==
  ASSUME NEW f, NEW g, NEW S, IsFiniteSet(S), IntOn(f, S), IntOn(g, S), NEW x \in S,
         \A y \in S \ {x} : f[y] = g[y]
  PROVE  SumFunctionOnSet(g, S) = SumFunctionOnSet(f, S) + g[x] - f[x]
<1>1. /\ SumFunctionOnSet(f, S) = f[x] + SumFunctionOnSet(f, S \ {x})
      /\ SumFunctionOnSet(g, S) = g[x] + SumFunctionOnSet(g, S \ {x})
  BY SumTake
<1>2. IsFiniteSet(S \ {x}) /\ IntOn(f, S \ {x})
  BY FS_Subset DEF IntOn
<1>3. SumFunctionOnSet(f, S \ {x}) = SumFunctionOnSet(g, S \ {x})
  BY <1>2, SumSame
<1>4. SumFunctionOnSet(f, S \ {x}) \in Int /\ f[x] \in Int /\ g[x] \in Int
  BY <1>2, SumInt DEF IntOn
<1> QED
  BY <1>1, <1>3, <1>4
=============================================================================
