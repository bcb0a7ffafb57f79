---------------------------- MODULE SumTheorems ----------------------------
(***************************************************************************)
(* Finite sums: facts about SumFunctionOnSet of the Functions module, with *)
(* which the modules state the accounting of the programs (the escrows of  *)
(* a locker, the partial unstakings of an escrow, the votes of a tally).   *)
(* The sum is a fold over a finite set by a recursive function chosen with *)
(* CHOOSE; its existence is proved by induction on the cardinality, the    *)
(* other facts by induction on subsets, without an operator parameter.     *)
(***************************************************************************)
EXTENDS Integers, FiniteSetsExt, Functions, FiniteSetTheorems,
        WellFoundedInduction, TLAPS

\* A non-empty set of natural numbers has a least element.
LEMMA NatMinimum ==
  ASSUME NEW B, B \subseteq Nat, B # {}
  PROVE  \E m \in B : \A k \in B : m <= k
<1> DEFINE R == OpToRel(<, Nat)
<1>1. \E m \in B : \A k \in B : ~ (<<k, m>> \in R)
  <2> HIDE DEF R
  <2> QED BY NatLessThanWellFounded, WFMin DEF R
<1>2. \A k, m \in Nat : k < m => <<k, m>> \in R
  BY DEF OpToRel
<1> HIDE DEF R
<1>3. PICK m \in B : \A k \in B : ~ (<<k, m>> \in R)
  BY <1>1
<1>4. \A k \in B : ~ (k < m)
  BY <1>2, <1>3
<1> QED BY <1>4

\* The greatest of some positions is one of them.
LEMMA MaxInSet == ASSUME NEW n \in Nat, NEW s \in SUBSET (1..n), s # {} PROVE Max(s) \in s
<1> DEFINE B == {n - i : i \in s}
<1>1. B \subseteq Nat /\ B # {}
  <2>1. \A i \in s : n - i \in Nat
    OBVIOUS
  <2> QED BY <2>1
<1>2. PICK m \in B : \A k \in B : m <= k
  <2> HIDE DEF B
  <2> QED BY <1>1, NatMinimum
<1>3. PICK i \in s : m = n - i
  BY <1>2
<1>4. \A j \in s : i >= j
  <2> SUFFICES ASSUME NEW j \in s PROVE i >= j
    OBVIOUS
  <2>1. n - j \in B /\ i \in Int /\ j \in Int
    OBVIOUS
  <2>2. n - i <= n - j
    BY <1>2, <1>3, <2>1
  <2> HIDE DEF B
  <2> QED BY <2>1, <2>2
<1> QED BY <1>4 DEF Max

\* A non-empty family of subsets of a finite set has a member that includes no
\* other.
LEMMA MinimalSubset ==
  ASSUME NEW S, IsFiniteSet(S), NEW B, B \subseteq SUBSET S, B # {}
  PROVE  \E T \in B : \A U \in B : U \subseteq T => U = T
<1> DEFINE R == StrictSubsetOrdering(S)
<1>1. B \subseteq FiniteSubsetsOf(S)
  BY FS_Subset DEF FiniteSubsetsOf
<1>2. \E T \in B : \A U \in B : ~ (<<U, T>> \in R)
  <2> HIDE DEF R
  <2> QED BY <1>1, FS_StrictSubsetOrderingWellFounded, WFMin DEF R
<1>3. \A U, T \in SUBSET S : U \subseteq T /\ U # T => <<U, T>> \in R
  BY DEF StrictSubsetOrdering
<1> QED BY <1>2, <1>3

\* The element that the fold of the community module takes next.
Pick(s) == CHOOSE x \in s : TRUE

\* g sums f over every member of D, a family closed under removing Pick.
IsSumOf(g, f, D) ==
  g = [s \in D |-> IF s = {} THEN 0 ELSE f[Pick(s)] + g[s \ {Pick(s)}]]

IsSum(g, f, S) == IsSumOf(g, f, SUBSET S)

\* The element that the sum takes out of a non-empty set is one of its elements.
LEMMA PickInSet == \A s : s # {} => Pick(s) \in s
BY DEF Pick

\* SumFunctionOnSet is the recursive function its definition chooses.
LEMMA SumUnfolds ==
  ASSUME NEW f, NEW S
  PROVE  SumFunctionOnSet(f, S) = (CHOOSE g : IsSum(g, f, S))[S]
BY DEF SumFunctionOnSet, FoldFunctionOnSet, MapThenFoldSet, IsSum, IsSumOf, Pick

\* A function that sums f over every subset of a finite set exists, so that the
\* CHOOSE of the definition has something to choose.
LEMMA SumExists ==
  ASSUME NEW f, NEW S, IsFiniteSet(S)
  PROVE  \E g : IsSum(g, f, S)
<1> DEFINE Level(n) == {s \in SUBSET S : Cardinality(s) <= n}
           Bad == {n \in Nat : ~ \E g : IsSumOf(g, f, Level(n))}
<1>1. ASSUME NEW s \in SUBSET S
      PROVE  Cardinality(s) \in Nat /\ IsFiniteSet(s)
  BY FS_Subset, FS_CardinalityType
<1>2. ASSUME NEW s \in SUBSET S, s # {}
      PROVE  Cardinality(s \ {Pick(s)}) = Cardinality(s) - 1
  BY <1>1, <1>2, PickInSet, FS_RemoveElement
<1>3. 0 \notin Bad
  <2> DEFINE g == [s \in Level(0) |-> 0]
  <2>1. \A s \in Level(0) : s = {}
    BY <1>1, FS_EmptySet
  <2>2. IsSumOf(g, f, Level(0))
    BY <2>1 DEF IsSumOf
  <2> QED BY <2>2
<1>4. ASSUME NEW n \in Nat, n \notin Bad
      PROVE  n + 1 \notin Bad
  <2>1. PICK g : IsSumOf(g, f, Level(n))
    BY <1>4
  <2> DEFINE h == [s \in Level(n + 1) |->
                     IF s = {} THEN 0
                     ELSE IF s \in Level(n) THEN g[s] ELSE f[Pick(s)] + g[s \ {Pick(s)}]]
  <2>2. ASSUME NEW s \in Level(n + 1), s # {}
        PROVE  s \ {Pick(s)} \in Level(n) /\ s \ {Pick(s)} \in Level(n + 1)
    BY <1>1, <1>2, <2>2
  <2>3. \A s \in Level(n) :
           g[s] = IF s = {} THEN 0 ELSE f[Pick(s)] + g[s \ {Pick(s)}]
    BY <2>1 DEF IsSumOf
  <2>4. \A s \in Level(n) : h[s] = g[s] /\ s \in Level(n + 1)
    BY <2>3, <1>1, SMTT(30)
  <2>5. \A s \in Level(n + 1) :
           h[s] = IF s = {} THEN 0 ELSE f[Pick(s)] + h[s \ {Pick(s)}]
    <3> SUFFICES ASSUME NEW s \in Level(n + 1)
                 PROVE  h[s] = IF s = {} THEN 0 ELSE f[Pick(s)] + h[s \ {Pick(s)}]
      OBVIOUS
    <3>1. CASE s = {}
      BY <3>1
    <3>2. CASE s # {}
      <4>1. h[s \ {Pick(s)}] = g[s \ {Pick(s)}]
        BY <3>2, <2>2, <2>4
      <4>2. h[s] = f[Pick(s)] + g[s \ {Pick(s)}]
        BY <3>2, <2>3
      <4> QED BY <4>1, <4>2, <3>2
    <3> QED BY <3>1, <3>2
  <2>6. IsSumOf(h, f, Level(n + 1))
    <3> DEFINE k == [s \in Level(n + 1) |-> IF s = {} THEN 0 ELSE f[Pick(s)] + h[s \ {Pick(s)}]]
    <3>1. \A s \in Level(n + 1) : h[s] = k[s]
      BY <2>5
    <3>2. h = k
      <4> HIDE DEF Level
      <4>1. DOMAIN h = Level(n + 1) /\ DOMAIN k = Level(n + 1)
        OBVIOUS
      <4>2. h = [s \in Level(n + 1) |-> h[s]]
        OBVIOUS
      <4>3. k = [s \in Level(n + 1) |-> k[s]]
        OBVIOUS
      <4> HIDE DEF h, k
      <4> QED BY <3>1, <4>1, <4>2, <4>3
    <3> QED BY <3>2 DEF IsSumOf
  <2> HIDE DEF h
  <2> QED BY <2>6
<1>5. Bad = {}
  <2> SUFFICES ASSUME Bad # {} PROVE FALSE
    OBVIOUS
  <2> HIDE DEF Bad
  <2>1. PICK m \in Bad : \A k \in Bad : m <= k
    <3>1. Bad \subseteq Nat
      BY DEF Bad
    <3> QED BY <3>1, NatMinimum
  <2>2. m \in Nat /\ m # 0
    BY <1>3, <2>1 DEF Bad
  <2>3. m - 1 \in Nat /\ m - 1 \notin Bad
    BY <2>1, <2>2
  <2>4. (m - 1) + 1 \notin Bad
    BY <1>4, <2>3
  <2> QED BY <2>4, <2>2, <2>1
<1>6. Level(Cardinality(S)) = SUBSET S
  BY FS_Subset
<1>7. Cardinality(S) \in Nat
  BY FS_CardinalityType
<1>8. Cardinality(S) \notin Bad
  BY <1>5
<1> QED BY <1>6, <1>7, <1>8 DEF IsSum

\* What holds of the empty set, and of a set when it holds of the set without
\* any one of its elements, holds of every subset of a finite set.
LEMMA SubsetInduction ==
  ASSUME NEW S, IsFiniteSet(S), NEW P, {} \in P,
         \A T \in SUBSET S : T # {} /\ (\A x \in T : T \ {x} \in P) => T \in P
  PROVE  \A T \in SUBSET S : T \in P
<1> DEFINE Bad == (SUBSET S) \ P
<1> SUFFICES ASSUME Bad # {} PROVE FALSE
  OBVIOUS
<1>1. PICK T \in Bad : \A U \in Bad : U \subseteq T => U = T
  <2>1. Bad \subseteq SUBSET S
    OBVIOUS
  <2> HIDE DEF Bad
  <2> QED BY <2>1, MinimalSubset
<1>2. \A x \in T : T \ {x} \in P
  BY <1>1
<1> QED BY <1>1, <1>2

\* Sums over the subsets of S and of a subset T of S agree on T.
LEMMA SumAgree ==
  \A f, S, T, g, h :
     /\ IsFiniteSet(T) /\ T \subseteq S
     /\ IsSum(g, f, S) /\ IsSum(h, f, T)
     => g[T] = h[T]
<1> SUFFICES ASSUME NEW f, NEW S, NEW T, IsFiniteSet(T), T \subseteq S,
                    NEW g, IsSum(g, f, S), NEW h, IsSum(h, f, T)
             PROVE  g[T] = h[T]
  OBVIOUS
<1> DEFINE P == {s \in SUBSET T : g[s] = h[s]}
<1>1. \A s \in SUBSET T :
         h[s] = IF s = {} THEN 0 ELSE f[Pick(s)] + h[s \ {Pick(s)}]
  BY DEF IsSum, IsSumOf
<1>2. \A s \in SUBSET T :
         g[s] = IF s = {} THEN 0 ELSE f[Pick(s)] + g[s \ {Pick(s)}]
  BY DEF IsSum, IsSumOf
<1>3. {} \in P
  BY <1>1, <1>2
<1>4. ASSUME NEW s \in SUBSET T, s # {}, \A x \in s : s \ {x} \in P
      PROVE  s \in P
  BY <1>1, <1>2, <1>4, PickInSet
<1>5. \A s \in SUBSET T : s \in P
  <2> HIDE DEF P
  <2> QED BY <1>3, <1>4, SubsetInduction
<1> QED BY <1>5

\* The sum over the empty set is 0.
THEOREM SumOfEmpty == \A f : SumFunctionOnSet(f, {}) = 0
<1> SUFFICES ASSUME NEW f PROVE SumFunctionOnSet(f, {}) = 0
  OBVIOUS
<1> DEFINE g == CHOOSE g : IsSum(g, f, {})
<1>1. IsSum(g, f, {})
  BY SumExists, FS_EmptySet
<1> HIDE DEF g
<1>2. g[{}] = 0
  BY <1>1 DEF IsSum, IsSumOf
<1> QED BY <1>2, SumUnfolds DEF g

\* A sum is the term of the element picked first and the sum of the rest.
LEMMA SumPick ==
  ASSUME NEW f, NEW S, IsFiniteSet(S), S # {}
  PROVE  SumFunctionOnSet(f, S) = f[Pick(S)] + SumFunctionOnSet(f, S \ {Pick(S)})
<1> DEFINE T == S \ {Pick(S)}
           g == CHOOSE x : IsSum(x, f, S)
           h == CHOOSE x : IsSum(x, f, T)
<1>1. IsFiniteSet(T) /\ T \subseteq S
  BY FS_Subset
<1>2. IsSum(g, f, S)
  BY SumExists
<1>3. IsSum(h, f, T)
  <2> HIDE DEF T
  <2> QED BY SumExists, <1>1
<1>4. SumFunctionOnSet(f, S) = g[S] /\ SumFunctionOnSet(f, T) = h[T]
  BY SumUnfolds
<1> HIDE DEF g, h
<1>5. g[S] = f[Pick(S)] + g[T]
  BY <1>2 DEF IsSum, IsSumOf
<1> HIDE DEF T
<1>6. g[T] = h[T]
  BY <1>1, <1>2, <1>3, SumAgree
<1> QED BY <1>4, <1>5, <1>6 DEF T

\* A sum of integers is an integer.
THEOREM SumIsInt ==
  ASSUME NEW S, IsFiniteSet(S), NEW f, \A x \in S : f[x] \in Int
  PROVE  SumFunctionOnSet(f, S) \in Int
<1> DEFINE P == {T \in SUBSET S : SumFunctionOnSet(f, T) \in Int}
<1>1. {} \in P
  BY SumOfEmpty
<1>2. ASSUME NEW T \in SUBSET S, T # {}, \A x \in T : T \ {x} \in P
      PROVE  T \in P
  <2>1. IsFiniteSet(T) /\ Pick(T) \in T
    BY <1>2, FS_Subset, PickInSet
  <2>2. SumFunctionOnSet(f, T) = f[Pick(T)] + SumFunctionOnSet(f, T \ {Pick(T)})
    BY <1>2, <2>1, SumPick
  <2> QED BY <1>2, <2>1, <2>2
<1>3. \A T \in SUBSET S : T \in P
  <2> HIDE DEF P
  <2> QED BY <1>1, <1>2, SubsetInduction
<1> QED BY <1>3

\* A sum is the term of any one element and the sum of the others: the order of
\* summation does not matter.
THEOREM SumRemove ==
  ASSUME NEW S, IsFiniteSet(S), NEW f, \A x \in S : f[x] \in Int, NEW x \in S
  PROVE  SumFunctionOnSet(f, S) = f[x] + SumFunctionOnSet(f, S \ {x})
<1> DEFINE P == {T \in SUBSET S : \A y \in T :
                    SumFunctionOnSet(f, T) = f[y] + SumFunctionOnSet(f, T \ {y})}
<1>1. \A T \in SUBSET S : IsFiniteSet(T) /\ SumFunctionOnSet(f, T) \in Int
  BY FS_Subset, SumIsInt
<1>2. {} \in P
  OBVIOUS
<1>3. ASSUME NEW T \in SUBSET S, T # {}, \A y \in T : T \ {y} \in P
      PROVE  T \in P
  <2> SUFFICES ASSUME NEW y \in T
               PROVE  SumFunctionOnSet(f, T) = f[y] + SumFunctionOnSet(f, T \ {y})
    OBVIOUS
  <2>1. PICK c \in T : SumFunctionOnSet(f, T) = f[c] + SumFunctionOnSet(f, T \ {c})
    <3>1. Pick(T) \in T
      BY <1>3, PickInSet
    <3> QED BY <1>1, <1>3, <3>1, SumPick
  <2>2. CASE c = y
    BY <2>1, <2>2
  <2>3. CASE c # y
    <3>1. SumFunctionOnSet(f, T \ {c}) = f[y] + SumFunctionOnSet(f, (T \ {c}) \ {y})
      BY <1>3, <2>3
    <3>2. SumFunctionOnSet(f, T \ {y}) = f[c] + SumFunctionOnSet(f, (T \ {y}) \ {c})
      BY <1>3, <2>3
    <3> DEFINE rest == SumFunctionOnSet(f, (T \ {y}) \ {c})
    <3>3. (T \ {c}) \ {y} = (T \ {y}) \ {c}
      OBVIOUS
    <3>4. rest \in Int /\ f[c] \in Int /\ f[y] \in Int
      BY <1>1
    <3>5. /\ SumFunctionOnSet(f, T \ {c}) = f[y] + rest
          /\ SumFunctionOnSet(f, T \ {y}) = f[c] + rest
      BY <3>1, <3>2, <3>3
    <3> HIDE DEF rest
    <3> QED BY <2>1, <3>4, <3>5
  <2> QED BY <2>2, <2>3
<1>4. \A T \in SUBSET S : T \in P
  <2> HIDE DEF P
  <2> QED BY <1>2, <1>3, SubsetInduction
<1> QED BY <1>4

\* Functions that agree on a finite set have the same sum over it.
THEOREM SumCongruence ==
  ASSUME NEW S, IsFiniteSet(S), NEW f, NEW g, \A x \in S : f[x] = g[x]
  PROVE  SumFunctionOnSet(f, S) = SumFunctionOnSet(g, S)
<1> DEFINE P == {T \in SUBSET S : SumFunctionOnSet(f, T) = SumFunctionOnSet(g, T)}
<1>1. {} \in P
  BY SumOfEmpty
<1>2. ASSUME NEW T \in SUBSET S, T # {}, \A x \in T : T \ {x} \in P
      PROVE  T \in P
  <2>1. IsFiniteSet(T) /\ Pick(T) \in T
    BY <1>2, FS_Subset, PickInSet
  <2>2. /\ SumFunctionOnSet(f, T) = f[Pick(T)] + SumFunctionOnSet(f, T \ {Pick(T)})
        /\ SumFunctionOnSet(g, T) = g[Pick(T)] + SumFunctionOnSet(g, T \ {Pick(T)})
    BY <1>2, <2>1, SumPick
  <2> QED BY <1>2, <2>1, <2>2
<1>3. \A T \in SUBSET S : T \in P
  <2> HIDE DEF P
  <2> QED BY <1>1, <1>2, SubsetInduction
<1> QED BY <1>3

\* Changing a function at one element changes its sum by the difference.
THEOREM SumUpdate ==
  ASSUME NEW S, IsFiniteSet(S), NEW f, NEW g, NEW x \in S,
         \A y \in S : f[y] \in Int /\ g[y] \in Int,
         \A y \in S \ {x} : f[y] = g[y]
  PROVE  SumFunctionOnSet(g, S) = SumFunctionOnSet(f, S) - f[x] + g[x]
<1>1. IsFiniteSet(S \ {x})
  BY FS_Subset
<1>2. SumFunctionOnSet(f, S \ {x}) = SumFunctionOnSet(g, S \ {x})
  BY <1>1, SumCongruence
<1>3. SumFunctionOnSet(f, S \ {x}) \in Int
  BY <1>1, SumIsInt
<1>4. SumFunctionOnSet(f, S) = f[x] + SumFunctionOnSet(f, S \ {x})
  BY SumRemove
<1>5. SumFunctionOnSet(g, S) = g[x] + SumFunctionOnSet(g, S \ {x})
  BY SumRemove
<1>6. f[x] \in Int /\ g[x] \in Int
  OBVIOUS
<1> QED BY <1>2, <1>3, <1>4, <1>5, <1>6

\* A function that is at most another one has at most its sum.
THEOREM SumMonotone ==
  ASSUME NEW S, IsFiniteSet(S), NEW f, NEW g,
         \A y \in S : f[y] \in Int /\ g[y] \in Int /\ f[y] <= g[y]
  PROVE  SumFunctionOnSet(f, S) <= SumFunctionOnSet(g, S)
<1> DEFINE P == {T \in SUBSET S : SumFunctionOnSet(f, T) <= SumFunctionOnSet(g, T)}
<1>1. \A T \in SUBSET S : /\ IsFiniteSet(T)
                          /\ SumFunctionOnSet(f, T) \in Int
                          /\ SumFunctionOnSet(g, T) \in Int
  BY FS_Subset, SumIsInt
<1>2. {} \in P
  BY SumOfEmpty
<1>3. ASSUME NEW T \in SUBSET S, T # {}, \A x \in T : T \ {x} \in P
      PROVE  T \in P
  <2>1. IsFiniteSet(T) /\ Pick(T) \in T
    BY <1>1, <1>3, PickInSet
  <2>2. /\ SumFunctionOnSet(f, T) = f[Pick(T)] + SumFunctionOnSet(f, T \ {Pick(T)})
        /\ SumFunctionOnSet(g, T) = g[Pick(T)] + SumFunctionOnSet(g, T \ {Pick(T)})
    BY <1>3, <2>1, SumPick
  <2>3. SumFunctionOnSet(f, T \ {Pick(T)}) <= SumFunctionOnSet(g, T \ {Pick(T)})
    BY <1>3, <2>1
  <2>4. /\ SumFunctionOnSet(f, T \ {Pick(T)}) \in Int
        /\ SumFunctionOnSet(g, T \ {Pick(T)}) \in Int
        /\ f[Pick(T)] \in Int /\ g[Pick(T)] \in Int /\ f[Pick(T)] <= g[Pick(T)]
    BY <1>1, <2>1
  <2> QED BY <2>2, <2>3, <2>4
<1>4. \A T \in SUBSET S : T \in P
  <2> HIDE DEF P
  <2> QED BY <1>2, <1>3, SubsetInduction
<1> QED BY <1>4

\* A natural multiple of a natural number of at most another one is at most
\* that multiple of it.
LEMMA ScaledSum ==
  ASSUME NEW c \in Nat, NEW a \in Int, NEW b \in Int, NEW x \in Int, NEW y \in Int,
         a <= c * x, b <= c * y
  PROVE  a + b <= c * (x + y)
<1>1. c * (x + y) = c * x + c * y
  OBVIOUS
<1>2. c * x \in Int /\ c * y \in Int
  OBVIOUS
<1> QED BY <1>1, <1>2

\* A function that is at most c times another one has at most c times its sum.
THEOREM SumScaled ==
  ASSUME NEW S, IsFiniteSet(S), NEW f, NEW g, NEW c \in Nat,
         \A y \in S : f[y] \in Int /\ g[y] \in Int /\ f[y] <= c * g[y]
  PROVE  SumFunctionOnSet(f, S) <= c * SumFunctionOnSet(g, S)
<1> DEFINE P == {T \in SUBSET S : SumFunctionOnSet(f, T) <= c * SumFunctionOnSet(g, T)}
<1>1. \A T \in SUBSET S : /\ IsFiniteSet(T)
                          /\ SumFunctionOnSet(f, T) \in Int
                          /\ SumFunctionOnSet(g, T) \in Int
  BY FS_Subset, SumIsInt
<1>2. {} \in P
  BY SumOfEmpty
<1>3. ASSUME NEW T \in SUBSET S, T # {}, \A x \in T : T \ {x} \in P
      PROVE  T \in P
  <2>1. IsFiniteSet(T) /\ Pick(T) \in T
    BY <1>1, <1>3, PickInSet
  <2>2. /\ SumFunctionOnSet(f, T) = f[Pick(T)] + SumFunctionOnSet(f, T \ {Pick(T)})
        /\ SumFunctionOnSet(g, T) = g[Pick(T)] + SumFunctionOnSet(g, T \ {Pick(T)})
    BY <1>3, <2>1, SumPick
  <2>3. SumFunctionOnSet(f, T \ {Pick(T)}) <= c * SumFunctionOnSet(g, T \ {Pick(T)})
    BY <1>3, <2>1
  <2>4. /\ SumFunctionOnSet(f, T \ {Pick(T)}) \in Int
        /\ SumFunctionOnSet(g, T \ {Pick(T)}) \in Int
        /\ f[Pick(T)] \in Int /\ g[Pick(T)] \in Int /\ f[Pick(T)] <= c * g[Pick(T)]
    BY <1>1, <2>1
  <2>5. SumFunctionOnSet(f, T) <= c * SumFunctionOnSet(g, T)
    BY <2>2, <2>3, <2>4, ScaledSum
  <2> QED BY <2>5
<1>4. \A T \in SUBSET S : T \in P
  <2> HIDE DEF P
  <2> QED BY <1>2, <1>3, SubsetInduction
<1> QED BY <1>4

\* A sum of zeros is 0.
THEOREM SumOfZeros ==
  ASSUME NEW S, IsFiniteSet(S), NEW f, \A x \in S : f[x] = 0
  PROVE  SumFunctionOnSet(f, S) = 0
<1> DEFINE P == {T \in SUBSET S : SumFunctionOnSet(f, T) = 0}
<1>1. {} \in P
  BY SumOfEmpty
<1>2. ASSUME NEW T \in SUBSET S, T # {}, \A x \in T : T \ {x} \in P
      PROVE  T \in P
  <2>1. IsFiniteSet(T) /\ Pick(T) \in T
    BY <1>2, FS_Subset, PickInSet
  <2>2. SumFunctionOnSet(f, T) = f[Pick(T)] + SumFunctionOnSet(f, T \ {Pick(T)})
    BY <1>2, <2>1, SumPick
  <2> QED BY <1>2, <2>1, <2>2
<1>3. \A T \in SUBSET S : T \in P
  <2> HIDE DEF P
  <2> QED BY <1>1, <1>2, SubsetInduction
<1> QED BY <1>3

\* A sum of natural numbers is a natural number that no term exceeds.
THEOREM SumOfNats ==
  ASSUME NEW S, IsFiniteSet(S), NEW f, \A x \in S : f[x] \in Nat
  PROVE  /\ SumFunctionOnSet(f, S) \in Nat
         /\ \A x \in S : f[x] <= SumFunctionOnSet(f, S)
<1> DEFINE zero == [x \in S |-> 0]
<1>1. ASSUME NEW T \in SUBSET S
      PROVE  SumFunctionOnSet(f, T) \in Nat
  <2>1. IsFiniteSet(T)
    BY FS_Subset
  <2>2. SumFunctionOnSet(zero, T) = 0
    BY <2>1, SumOfZeros
  <2>3. SumFunctionOnSet(f, T) \in Int
    BY <2>1, SumIsInt
  <2>4. SumFunctionOnSet(zero, T) <= SumFunctionOnSet(f, T)
    BY <2>1, SumMonotone
  <2> QED BY <2>2, <2>3, <2>4
<1>2. ASSUME NEW x \in S PROVE f[x] <= SumFunctionOnSet(f, S)
  <2>1. SumFunctionOnSet(f, S) = f[x] + SumFunctionOnSet(f, S \ {x})
    BY SumRemove
  <2>2. SumFunctionOnSet(f, S \ {x}) \in Nat
    BY <1>1
  <2> QED BY <2>1, <2>2
<1> QED BY <1>1, <1>2

\* Two terms in a proportion add up in that proportion.
LEMMA ProportionalSum ==
  ASSUME NEW c \in Nat, NEW d \in Nat,
         NEW a \in Int, NEW b \in Int, NEW x \in Int, NEW y \in Int,
         c * a <= d * x, c * b <= d * y
  PROVE  c * (a + b) <= d * (x + y)
<1>1. c * (a + b) = c * a + c * b /\ d * (x + y) = d * x + d * y
  OBVIOUS
<1>2. c * a \in Int /\ c * b \in Int /\ d * x \in Int /\ d * y \in Int
  OBVIOUS
<1> QED BY <1>1, <1>2

\* Functions that are in a proportion everywhere have sums in that proportion.
THEOREM SumProportional ==
  ASSUME NEW S, IsFiniteSet(S), NEW f, NEW g, NEW c \in Nat, NEW d \in Nat,
         \A y \in S : f[y] \in Int /\ g[y] \in Int /\ c * f[y] <= d * g[y]
  PROVE  c * SumFunctionOnSet(f, S) <= d * SumFunctionOnSet(g, S)
<1> DEFINE P == {T \in SUBSET S : c * SumFunctionOnSet(f, T) <= d * SumFunctionOnSet(g, T)}
<1>1. \A T \in SUBSET S : /\ IsFiniteSet(T)
                          /\ SumFunctionOnSet(f, T) \in Int
                          /\ SumFunctionOnSet(g, T) \in Int
  BY FS_Subset, SumIsInt
<1>2. {} \in P
  <2>1. c * 0 <= d * 0
    OBVIOUS
  <2> QED BY <2>1, SumOfEmpty
<1>3. ASSUME NEW T \in SUBSET S, T # {}, \A x \in T : T \ {x} \in P
      PROVE  T \in P
  <2>1. IsFiniteSet(T) /\ Pick(T) \in T
    BY <1>1, <1>3, PickInSet
  <2> DEFINE a == SumFunctionOnSet(f, T \ {Pick(T)})
             b == SumFunctionOnSet(g, T \ {Pick(T)})
  <2>2. /\ SumFunctionOnSet(f, T) = f[Pick(T)] + a
        /\ SumFunctionOnSet(g, T) = g[Pick(T)] + b
    BY <1>3, <2>1, SumPick
  <2>3. c * a <= d * b
    BY <1>3, <2>1
  <2>4. /\ a \in Int /\ b \in Int
        /\ f[Pick(T)] \in Int /\ g[Pick(T)] \in Int /\ c * f[Pick(T)] <= d * g[Pick(T)]
    BY <1>1, <2>1
  <2>5. c * (f[Pick(T)] + a) <= d * (g[Pick(T)] + b)
    <3> HIDE DEF a, b
    <3> QED BY <2>3, <2>4, ProportionalSum
  <2> QED BY <2>2, <2>5
<1>4. \A T \in SUBSET S : T \in P
  <2> HIDE DEF P
  <2> QED BY <1>2, <1>3, SubsetInduction
<1> QED BY <1>4

\* Division by a factor.
LEMMA FactorCancels ==
  ASSUME NEW c \in Nat, c > 0, NEW x \in Int, NEW r \in Nat, c * x <= r * c
  PROVE  x <= r
<1>1. ASSUME x > r PROVE FALSE
  <2>1. PICK e \in Nat : x = r + 1 + e
    <3>1. x - (r + 1) \in Nat /\ x = r + 1 + (x - (r + 1))
      BY <1>1
    <3> QED BY <3>1
  <2>2. c * x = c * r + c + c * e
    BY <2>1
  <2>3. c * r \in Nat /\ c * e \in Nat /\ r * c = c * r
    OBVIOUS
  <2> QED BY <2>2, <2>3
<1> QED BY <1>1

\* Shares of r in proportion to the terms of a sum are together at most r.
THEOREM SharesOfSum ==
  ASSUME NEW S, IsFiniteSet(S), NEW f, NEW g, NEW r \in Nat,
         \A y \in S : f[y] \in Int /\ g[y] \in Nat,
         SumFunctionOnSet(g, S) > 0,
         \A y \in S : SumFunctionOnSet(g, S) * f[y] <= r * g[y]
  PROVE  SumFunctionOnSet(f, S) <= r
<1> DEFINE c == SumFunctionOnSet(g, S)
<1>1. c \in Nat /\ SumFunctionOnSet(f, S) \in Int
  BY SumOfNats, SumIsInt
<1>2. \A y \in S : f[y] \in Int /\ g[y] \in Int /\ c * f[y] <= r * g[y]
  OBVIOUS
<1>3. c * SumFunctionOnSet(f, S) <= r * c
  <2>1. c * SumFunctionOnSet(f, S) <= r * SumFunctionOnSet(g, S)
    <3> HIDE DEF c
    <3> QED BY <1>1, <1>2, SumProportional
  <2> QED BY <2>1
<1>4. c > 0
  OBVIOUS
<1> HIDE DEF c
<1> QED BY <1>1, <1>3, <1>4, FactorCancels

\* A product grows with its second factor.
LEMMA ProductGrows ==
  ASSUME NEW m \in Nat, NEW a \in Nat, NEW b \in Nat, a <= b
  PROVE  m * a \in Nat /\ m * b \in Nat /\ m * a <= m * b
<1>1. PICK d \in Nat : b = a + d
  <2>1. b - a \in Nat /\ b = a + (b - a)
    OBVIOUS
  <2> QED BY <2>1
<1>2. m * b = m * a + m * d
  BY <1>1
<1>3. m * a \in Nat /\ m * d \in Nat /\ m * b \in Nat
  OBVIOUS
<1> QED BY <1>2, <1>3

\* A part of a whole, by a fraction of at most 1, is at most the whole.
LEMMA PartOfWhole ==
  ASSUME NEW w \in Nat, NEW c \in Nat, NEW d \in Nat, d > 0, c <= d
  PROVE  (w * c) \div d \in Nat /\ (w * c) \div d <= w
<1>1. w * c \in Nat /\ w * d \in Nat /\ w * c <= w * d
  BY ProductGrows
<1> DEFINE x == w * c
           y == x \div d
<1>2. x \in Nat
  BY <1>1
<1>3. y \in Nat /\ d * y <= x
  <2> HIDE DEF x
  <2> QED BY <1>2
<1>4. ASSUME y > w PROVE FALSE
  <2>1. w + 1 \in Nat /\ w + 1 <= y
    BY <1>3, <1>4
  <2>2. d * (w + 1) <= d * y
    <3> HIDE DEF y
    <3> QED BY <1>3, <2>1, ProductGrows
  <2>3. d * (w + 1) = w * d + d
    OBVIOUS
  <2>4. d * y \in Nat
    <3> HIDE DEF y
    <3> QED BY <1>3
  <2> HIDE DEF x, y
  <2> QED BY <1>1, <1>3, <2>2, <2>3, <2>4 DEF x
<1> QED BY <1>3, <1>4
=============================================================================
