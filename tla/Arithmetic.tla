------------------------------ MODULE Arithmetic ------------------------------
(***************************************************************************)
(* What the proofs share about finite sets, sums, rounding, orders and      *)
(* powers of 2; nothing here is about the program.  Induction is over sets  *)
(* instead of predicates: the set of the numbers, or of the subsets, of     *)
(* which something is true.                                                 *)
(***************************************************************************)
EXTENDS Integers, FiniteSets, Functions, FiniteSetTheorems, WellFoundedInduction, TLAPS

-----------------------------------------------------------------------------
(* Induction *)

\* A set of natural numbers that is not empty has a least element.
LEMMA LeastNatural ==
  ASSUME NEW S \in SUBSET Nat, S # {}
  PROVE  \E x \in S : \A y \in S : x <= y
<1>1. PICK x \in S : \A y \in S : ~(<<y, x>> \in OpToRel(<, Nat))
  BY NatLessThanWellFounded, WFMin
<1>2. ASSUME NEW y \in S
      PROVE  ~(y < x)
  <2>1. ~(<<y, x>> \in OpToRel(<, Nat))
    BY <1>1, Zenon
  <2>2. <<y, x>> \in Nat \X Nat /\ <<y, x>>[1] = y /\ <<y, x>>[2] = x
    OBVIOUS
  <2> QED
    BY <2>1, <2>2, Zenon DEF OpToRel
<1>3. \A y \in S : x <= y
  BY <1>2
<1> QED
  BY <1>3

\* What holds of 0, and of n + 1 if of n, holds of all natural numbers.
LEMMA NumberInduction ==
  ASSUME NEW P, 0 \in P, \A n \in Nat : n \in P => n + 1 \in P
  PROVE  \A n \in Nat : n \in P
<1> DEFINE S == Nat \ P
<1> SUFFICES ASSUME S # {} PROVE FALSE
  OBVIOUS
<1>1. PICK x \in S : \A y \in S : x <= y
  BY LeastNatural
<1>2. x # 0 /\ x \in Nat /\ x \notin P
  OBVIOUS
<1>3. x - 1 \in Nat /\ x - 1 \notin S
  BY <1>1, <1>2
<1>4. (x - 1) + 1 \in P
  BY <1>3
<1> QED
  BY <1>2, <1>4

\* What holds of the empty set, and of a set with one element more, holds of all
\* subsets of a finite set.
LEMMA SetInduction ==
  ASSUME NEW U, IsFiniteSet(U), NEW P, {} \in P,
         \A T \in SUBSET U : \A x \in U \ T : T \in P => T \cup {x} \in P
  PROVE  \A T \in SUBSET U : T \in P
<1> DEFINE Q == {n \in Nat : \A T \in SUBSET U : Cardinality(T) = n => T \in P}
<1>1. \A T \in SUBSET U : IsFiniteSet(T) /\ Cardinality(T) \in Nat
  BY FS_Subset, FS_CardinalityType
<1>2. 0 \in Q
  BY <1>1, FS_EmptySet
<1>3. ASSUME NEW n \in Nat, n \in Q
      PROVE  n + 1 \in Q
  <2> SUFFICES ASSUME NEW T \in SUBSET U, Cardinality(T) = n + 1
               PROVE  T \in P
    OBVIOUS
  <2>1. T # {}
    <3>1. Cardinality(T) # 0
      OBVIOUS
    <3> QED
      BY <3>1, FS_EmptySet
  <2>2. PICK x : x \in T
    BY <2>1
  <2>3. Cardinality(T \ {x}) = n
    <3>1. IsFiniteSet(T)
      BY <1>1
    <3>2. Cardinality(T \ {x}) = Cardinality(T) - 1
      BY <2>2, <3>1, FS_RemoveElement
    <3> QED
      BY <3>2
  <2>4. T \ {x} \in P
    BY <1>3, <2>3
  <2>5. (T \ {x}) \cup {x} = T /\ x \in U \ (T \ {x}) /\ T \ {x} \in SUBSET U
    BY <2>2
  <2> QED
    BY <2>4, <2>5
<1> HIDE DEF Q
<1>4. \A n \in Nat : n \in Q
  BY <1>2, <1>3, NumberInduction
<1> QED
  BY <1>1, <1>4 DEF Q

\* A finite set of numbers that is not empty has a largest element, and a least.
LEMMA GreatestOfMany ==
  ASSUME NEW S, IsFiniteSet(S), S # {}, S \subseteq Int
  PROVE  \E x \in S : \A y \in S : x >= y
<1> DEFINE P == {T \in SUBSET S : T # {} => \E x \in T : \A y \in T : x >= y}
<1>1. {} \in P
  OBVIOUS
<1>2. ASSUME NEW T \in SUBSET S, NEW z \in S \ T, T \in P
      PROVE  T \cup {z} \in P
  <2>1. CASE T = {}
    BY <2>1
  <2>2. CASE T # {}
    <3>1. PICK x \in T : \A y \in T : x >= y
      BY <1>2, <2>2
    <3>2. CASE x >= z
      <4>1. x \in T \cup {z} /\ \A y \in T \cup {z} : x >= y
        BY <3>1, <3>2
      <4> QED
        BY <4>1
    <3>3. CASE ~ (x >= z)
      <4>1. z \in T \cup {z} /\ \A y \in T \cup {z} : z >= y
        BY <3>1, <3>3
      <4> QED
        BY <4>1
    <3> QED
      BY <3>2, <3>3
  <2> QED
    BY <2>1, <2>2
<1> HIDE DEF P
<1>3. S \in P
  BY <1>1, <1>2, SetInduction
<1> QED
  BY <1>3 DEF P

LEMMA LeastOfMany ==
  ASSUME NEW S, IsFiniteSet(S), S # {}, S \subseteq Int
  PROVE  \E x \in S : \A y \in S : x <= y
<1> DEFINE P == {T \in SUBSET S : T # {} => \E x \in T : \A y \in T : x <= y}
<1>1. {} \in P
  OBVIOUS
<1>2. ASSUME NEW T \in SUBSET S, NEW z \in S \ T, T \in P
      PROVE  T \cup {z} \in P
  <2>1. CASE T = {}
    BY <2>1
  <2>2. CASE T # {}
    <3>1. PICK x \in T : \A y \in T : x <= y
      BY <1>2, <2>2
    <3>2. CASE x <= z
      <4>1. x \in T \cup {z} /\ \A y \in T \cup {z} : x <= y
        BY <3>1, <3>2
      <4> QED
        BY <4>1
    <3>3. CASE ~ (x <= z)
      <4>1. z \in T \cup {z} /\ \A y \in T \cup {z} : z <= y
        BY <3>1, <3>3
      <4> QED
        BY <4>1
    <3> QED
      BY <3>2, <3>3
  <2> QED
    BY <2>1, <2>2
<1> HIDE DEF P
<1>3. S \in P
  BY <1>1, <1>2, SetInduction
<1> QED
  BY <1>3 DEF P

\* The image of a finite set is finite.
LEMMA ImageIsFinite ==
  ASSUME NEW f, NEW S, IsFiniteSet(S)
  PROVE  IsFiniteSet({f[x] : x \in S})
<1> DEFINE P == {T \in SUBSET S : IsFiniteSet({f[x] : x \in T})}
<1>1. {} \in P
  <2>1. {f[x] : x \in {}} = {}
    OBVIOUS
  <2>2. IsFiniteSet({f[x] : x \in {}})
    BY <2>1, FS_EmptySet, Zenon
  <2>3. {} \in SUBSET S
    OBVIOUS
  <2> QED
    BY <2>2, <2>3, Zenon
<1>2. ASSUME NEW T \in SUBSET S, NEW z \in S \ T, T \in P
      PROVE  T \cup {z} \in P
  <2>1. {f[x] : x \in T \cup {z}} = {f[x] : x \in T} \cup {f[z]}
    OBVIOUS
  <2>2. IsFiniteSet({f[x] : x \in T})
    BY <1>2
  <2>3. IsFiniteSet({f[x] : x \in T} \cup {f[z]})
    BY <2>2, FS_AddElement
  <2>4. IsFiniteSet({f[x] : x \in T \cup {z}})
    BY <2>1, <2>3, Zenon
  <2> QED
    BY <2>4
<1> HIDE DEF P
<1>3. S \in P
  BY <1>1, <1>2, SetInduction
<1> QED
  BY <1>3 DEF P

-----------------------------------------------------------------------------
(* Sums *)

\* The recursion that SumFunctionOnSet is defined by, on the subsets of U.
Pick(S) == CHOOSE x \in S : TRUE
IsSumOn(f, Sets, sum) ==
  sum = [S \in Sets |-> IF S = {} THEN 0 ELSE f[Pick(S)] + sum[S \ {Pick(S)}]]
IsSum(f, U, sum) == IsSumOn(f, SUBSET U, sum)

Small(U, n) == {T \in SUBSET U : Cardinality(T) <= n}

LEMMA PickIsElement ==
  ASSUME NEW S, S # {}
  PROVE  Pick(S) \in S
BY DEF Pick

\* Up to any cardinality there is such a function.
LEMMA SumsUpTo ==
  ASSUME NEW f, NEW U, IsFiniteSet(U), NEW n \in Nat
  PROVE  \E sum : IsSumOn(f, Small(U, n), sum)
<1> DEFINE Sets(m) == Small(U, m)
           Sum(sum, m) == IsSumOn(f, Small(U, m), sum)
           P == {m \in Nat : \E sum : Sum(sum, m)}
<1>0. \A T \in SUBSET U : IsFiniteSet(T) /\ Cardinality(T) \in Nat
  BY FS_Subset, FS_CardinalityType
<1>1. 0 \in P
  <2> DEFINE sum == [S \in Sets(0) |-> 0]
  <2>1. \A S \in Sets(0) : S = {}
    <3> TAKE S \in Sets(0)
    <3>1. Cardinality(S) = 0 /\ IsFiniteSet(S)
      BY <1>0 DEF Small
    <3> QED
      BY <3>1, FS_EmptySet
  <2>2. Sum(sum, 0)
    BY <2>1 DEF IsSumOn
  <2> QED
    BY <2>2
<1>2. ASSUME NEW m \in Nat, m \in P
      PROVE  m + 1 \in P
  <2>1. PICK smaller : Sum(smaller, m)
    BY <1>2
  <2> DEFINE value(S) == IF S = {} THEN 0 ELSE f[Pick(S)] + smaller[S \ {Pick(S)}]
             sum == [S \in Sets(m + 1) |-> value(S)]
  <2>2. ASSUME NEW S \in Sets(m + 1), S # {}
        PROVE  S \ {Pick(S)} \in Sets(m)
    <3>1. Pick(S) \in S /\ IsFiniteSet(S) /\ Cardinality(S) \in Nat
      BY <1>0, <2>2, PickIsElement DEF Small
    <3>2. Cardinality(S \ {Pick(S)}) = Cardinality(S) - 1
      BY <3>1, FS_RemoveElement
    <3> QED
      BY <3>1, <3>2 DEF Small
  <2>3. Sets(m) \subseteq Sets(m + 1)
    BY <1>0 DEF Small
  <2>4. \A S \in Sets(m) : smaller[S] = value(S)
    BY <2>1 DEF IsSumOn
  <2>5. \A S \in Sets(m) : sum[S] = smaller[S]
    BY <2>3, <2>4
  <2>6. \A S \in Sets(m + 1) : value(S) = IF S = {} THEN 0
                                          ELSE f[Pick(S)] + sum[S \ {Pick(S)}]
    BY <2>2, <2>5
  <2> HIDE DEF value
  <2>7. Sum(sum, m + 1)
    BY <2>6 DEF IsSumOn
  <2> HIDE DEF sum, Sum
  <2>8. \E any : Sum(any, m + 1)
    BY <2>7
  <2> QED
    BY <2>8
<1> HIDE DEF P
<1>3. n \in P
  BY <1>1, <1>2, NumberInduction
<1> QED
  BY <1>3 DEF P

LEMMA SumExists ==
  ASSUME NEW f, NEW U, IsFiniteSet(U)
  PROVE  \E sum : IsSum(f, U, sum)
<1>1. Cardinality(U) \in Nat
  BY FS_CardinalityType
<1>2. Small(U, Cardinality(U)) = SUBSET U
  BY FS_Subset DEF Small
<1>3. \A n \in Nat : \E sum : IsSumOn(f, Small(U, n), sum)
  BY SumsUpTo
<1> QED
  BY <1>1, <1>2, <1>3 DEF IsSum

\* There is no other, and what it is for a set does not depend on the others.
LEMMA SumIsUnique ==
  ASSUME NEW f, NEW U, IsFiniteSet(U), NEW V \in SUBSET U,
         NEW g, IsSum(f, U, g), NEW h, IsSum(f, V, h)
  PROVE  \A S \in SUBSET V : g[S] = h[S]
<1> DEFINE P == {n \in Nat : \A S \in SUBSET V : Cardinality(S) = n => g[S] = h[S]}
<1>0. \A T \in SUBSET V : IsFiniteSet(T) /\ Cardinality(T) \in Nat
  BY FS_Subset, FS_CardinalityType
<1>1. \A S \in SUBSET V : /\ g[S] = IF S = {} THEN 0 ELSE f[Pick(S)] + g[S \ {Pick(S)}]
                          /\ h[S] = IF S = {} THEN 0 ELSE f[Pick(S)] + h[S \ {Pick(S)}]
  <2> TAKE S \in SUBSET V
  <2>1. S \in SUBSET U
    OBVIOUS
  <2>2. g[S] = IF S = {} THEN 0 ELSE f[Pick(S)] + g[S \ {Pick(S)}]
    BY <2>1 DEF IsSum, IsSumOn
  <2>3. h[S] = IF S = {} THEN 0 ELSE f[Pick(S)] + h[S \ {Pick(S)}]
    BY DEF IsSum, IsSumOn
  <2> QED
    BY <2>2, <2>3
<1>2. 0 \in P
  <2> SUFFICES ASSUME NEW S \in SUBSET V, Cardinality(S) = 0
               PROVE  g[S] = h[S]
    OBVIOUS
  <2>1. S = {}
    BY <1>0, FS_EmptySet
  <2> QED
    BY <1>1, <2>1
<1>3. ASSUME NEW n \in Nat, n \in P
      PROVE  n + 1 \in P
  <2> SUFFICES ASSUME NEW S \in SUBSET V, Cardinality(S) = n + 1
               PROVE  g[S] = h[S]
    OBVIOUS
  <2>1. S # {}
    <3>1. Cardinality(S) # 0
      OBVIOUS
    <3> QED
      BY <3>1, FS_EmptySet
  <2>2. Cardinality(S \ {Pick(S)}) = n
    <3>1. IsFiniteSet(S) /\ Pick(S) \in S
      BY <1>0, <2>1, PickIsElement
    <3>2. Cardinality(S \ {Pick(S)}) = Cardinality(S) - 1
      BY <3>1, FS_RemoveElement
    <3> QED
      BY <3>2
  <2>3. g[S \ {Pick(S)}] = h[S \ {Pick(S)}]
    BY <1>3, <2>2
  <2> QED
    BY <1>1, <2>1, <2>3
<1> HIDE DEF P
<1>4. \A n \in Nat : n \in P
  BY <1>2, <1>3, NumberInduction
<1> QED
  BY <1>0, <1>4 DEF P

LEMMA SumIsRecursive ==
  ASSUME NEW f, NEW U, IsFiniteSet(U)
  PROVE  \E sum : IsSum(f, U, sum) /\ SumFunctionOnSet(f, U) = sum[U]
<1> DEFINE it == CHOOSE sum : IsSum(f, U, sum)
<1>1. IsSum(f, U, it)
  BY SumExists
<1>2. SumFunctionOnSet(f, U) = it[U]
  BY DEF SumFunctionOnSet, FoldFunctionOnSet, MapThenFoldSet, IsSum, IsSumOn, Pick
<1> QED
  BY <1>1, <1>2

LEMMA SumOfNone ==
  ASSUME NEW f
  PROVE  SumFunctionOnSet(f, {}) = 0
<1>1. IsFiniteSet({})
  BY FS_EmptySet
<1>2. PICK sum : IsSum(f, {}, sum) /\ SumFunctionOnSet(f, {}) = sum[{}]
  BY <1>1, SumIsRecursive
<1> QED
  BY <1>2 DEF IsSum, IsSumOn

LEMMA SumPicks ==
  ASSUME NEW f, NEW S, IsFiniteSet(S), S # {}
  PROVE  SumFunctionOnSet(f, S)
           = f[Pick(S)] + SumFunctionOnSet(f, S \ {Pick(S)})
<1> DEFINE T == S \ {Pick(S)}
<1>0. T \in SUBSET S /\ IsFiniteSet(T)
  BY FS_Subset
<1>1. PICK g : IsSum(f, S, g) /\ SumFunctionOnSet(f, S) = g[S]
  BY SumIsRecursive
<1>2. PICK h : IsSum(f, T, h) /\ SumFunctionOnSet(f, T) = h[T]
  BY <1>0, SumIsRecursive
<1>3. g[S] = f[Pick(S)] + g[T]
  BY <1>1 DEF IsSum, IsSumOn
<1> HIDE DEF T
<1>4. \A V \in SUBSET T : g[V] = h[V]
  BY <1>0, <1>1, <1>2, SumIsUnique
<1>5. g[T] = h[T]
  BY <1>4
<1> QED
  BY <1>1, <1>2, <1>3, <1>5 DEF T

LEMMA SumIsInteger ==
  ASSUME NEW f, NEW U, IsFiniteSet(U), \A x \in U : f[x] \in Int
  PROVE  \A S \in SUBSET U : SumFunctionOnSet(f, S) \in Int
<1> DEFINE P == {n \in Nat : \A S \in SUBSET U :
                              Cardinality(S) = n => SumFunctionOnSet(f, S) \in Int}
<1>0. \A S \in SUBSET U : IsFiniteSet(S) /\ Cardinality(S) \in Nat
  BY FS_Subset, FS_CardinalityType
<1>1. 0 \in P
  <2> SUFFICES ASSUME NEW S \in SUBSET U, Cardinality(S) = 0
               PROVE  SumFunctionOnSet(f, S) \in Int
    OBVIOUS
  <2>1. S = {}
    BY <1>0, FS_EmptySet
  <2> QED
    BY <2>1, SumOfNone
<1>2. ASSUME NEW n \in Nat, n \in P
      PROVE  n + 1 \in P
  <2> SUFFICES ASSUME NEW S \in SUBSET U, Cardinality(S) = n + 1
               PROVE  SumFunctionOnSet(f, S) \in Int
    OBVIOUS
  <2>1. S # {}
    <3>1. Cardinality(S) # 0
      OBVIOUS
    <3> QED
      BY <3>1, FS_EmptySet
  <2>2. IsFiniteSet(S) /\ Pick(S) \in S
    BY <1>0, <2>1, PickIsElement
  <2>3. Cardinality(S \ {Pick(S)}) = Cardinality(S) - 1
    BY <2>2, FS_RemoveElement
  <2>4. Cardinality(S \ {Pick(S)}) = n
    BY <2>3
  <2>5. SumFunctionOnSet(f, S \ {Pick(S)}) \in Int
    BY <1>2, <2>4
  <2> QED
    BY <2>1, <2>2, <2>5, SumPicks
<1> HIDE DEF P
<1>3. \A n \in Nat : n \in P
  BY <1>1, <1>2, NumberInduction
<1> QED
  BY <1>0, <1>3 DEF P

\* Any element may be the first.
LEMMA SumTakesOut ==
  ASSUME NEW f, NEW U, IsFiniteSet(U), \A x \in U : f[x] \in Int
  PROVE  \A S \in SUBSET U : \A x \in S :
           SumFunctionOnSet(f, S) = f[x] + SumFunctionOnSet(f, S \ {x})
<1> DEFINE Sum(S) == SumFunctionOnSet(f, S)
           P == {n \in Nat : \A S \in SUBSET U : Cardinality(S) = n =>
                              \A x \in S : Sum(S) = f[x] + Sum(S \ {x})}
<1>0. \A S \in SUBSET U : IsFiniteSet(S) /\ Cardinality(S) \in Nat /\ Sum(S) \in Int
  BY FS_Subset, FS_CardinalityType, SumIsInteger
<1>1. 0 \in P
  <2> SUFFICES ASSUME NEW S \in SUBSET U, Cardinality(S) = 0
               PROVE  S = {}
    OBVIOUS
  <2> QED
    BY <1>0, FS_EmptySet
<1>2. ASSUME NEW n \in Nat, n \in P
      PROVE  n + 1 \in P
  <2> SUFFICES ASSUME NEW S \in SUBSET U, Cardinality(S) = n + 1, NEW x \in S
               PROVE  Sum(S) = f[x] + Sum(S \ {x})
    OBVIOUS
  <2> DEFINE p == Pick(S)
  <2>1. p \in S /\ IsFiniteSet(S)
    BY <1>0, PickIsElement
  <2>2. Sum(S) = f[p] + Sum(S \ {p})
    BY <2>1, SumPicks
  <2> HIDE DEF p
  <2>3. CASE p = x
    BY <2>2, <2>3
  <2>4. CASE p # x
    <3>1. \A y \in S : Cardinality(S \ {y}) = n
      <4> TAKE y \in S
      <4>1. Cardinality(S \ {y}) = Cardinality(S) - 1
        BY <2>1, FS_RemoveElement
      <4> QED
        BY <4>1
    <3> DEFINE R == (S \ {p}) \ {x}
    <3>2. R = (S \ {x}) \ {p}
      OBVIOUS
    <3>3. Sum(S \ {p}) = f[x] + Sum(R)
      BY <1>2, <2>1, <2>4, <3>1
    <3>4. Sum(S \ {x}) = f[p] + Sum(R)
      <4>1. S \ {x} \in SUBSET U /\ p \in S \ {x} /\ Cardinality(S \ {x}) = n
        BY <2>1, <2>4, <3>1
      <4>2. Sum(S \ {x}) = f[p] + Sum((S \ {x}) \ {p})
        BY <1>2, <4>1
      <4> QED
        BY <3>2, <4>2
    <3>5. f[x] \in Int /\ f[p] \in Int /\ Sum(R) \in Int
      BY <1>0, <2>1
    <3> HIDE DEF R, Sum
    <3> QED
      BY <2>2, <3>3, <3>4, <3>5
  <2> QED
    BY <2>3, <2>4
<1> HIDE DEF P
<1>3. \A n \in Nat : n \in P
  BY <1>1, <1>2, NumberInduction
<1> QED
  BY <1>0, <1>3 DEF P

LEMMA SumAdds ==
  ASSUME NEW f, NEW U, IsFiniteSet(U), \A x \in U : f[x] \in Int,
         NEW S \in SUBSET U, NEW x \in U \ S
  PROVE  SumFunctionOnSet(f, S \cup {x}) = f[x] + SumFunctionOnSet(f, S)
<1>1. (S \cup {x}) \ {x} = S /\ S \cup {x} \in SUBSET U /\ x \in S \cup {x}
  OBVIOUS
<1>2. SumFunctionOnSet(f, S \cup {x})
        = f[x] + SumFunctionOnSet(f, (S \cup {x}) \ {x})
  BY <1>1, SumTakesOut
<1> QED
  BY <1>1, <1>2

LEMMA SumIsNatural ==
  ASSUME NEW f, NEW U, IsFiniteSet(U), \A x \in U : f[x] \in Nat
  PROVE  SumFunctionOnSet(f, U) \in Nat
<1> DEFINE P == {S \in SUBSET U : SumFunctionOnSet(f, S) \in Nat}
<1>1. {} \in P
  BY SumOfNone
<1>2. ASSUME NEW S \in SUBSET U, NEW x \in U \ S, S \in P
      PROVE  S \cup {x} \in P
  <2>1. SumFunctionOnSet(f, S \cup {x}) = f[x] + SumFunctionOnSet(f, S)
    BY SumAdds
  <2> QED
    BY <1>2, <2>1
<1> HIDE DEF P
<1>3. U \in P
  BY <1>1, <1>2, SetInduction
<1> QED
  BY <1>3 DEF P

\* A sum of natural numbers is no less than any of them.
LEMMA SumCovers ==
  ASSUME NEW f, NEW U, IsFiniteSet(U), \A x \in U : f[x] \in Nat, NEW x \in U
  PROVE  SumFunctionOnSet(f, U) >= f[x]
<1>1. SumFunctionOnSet(f, U) = f[x] + SumFunctionOnSet(f, U \ {x})
  BY SumTakesOut
<1>2. IsFiniteSet(U \ {x})
  BY FS_Subset
<1>3. SumFunctionOnSet(f, U \ {x}) \in Nat
  BY <1>2, SumIsNatural
<1> QED
  BY <1>1, <1>3

\* A sum of larger terms is larger, and a sum of the same terms is the same.
LEMMA SumGrows ==
  ASSUME NEW f, NEW g, NEW U, IsFiniteSet(U),
         \A x \in U : f[x] \in Int /\ g[x] \in Int /\ f[x] <= g[x]
  PROVE  SumFunctionOnSet(f, U) <= SumFunctionOnSet(g, U)
<1> DEFINE P == {S \in SUBSET U : SumFunctionOnSet(f, S) <= SumFunctionOnSet(g, S)}
<1>1. {} \in P
  BY SumOfNone
<1>2. ASSUME NEW S \in SUBSET U, NEW x \in U \ S, S \in P
      PROVE  S \cup {x} \in P
  <2>1. SumFunctionOnSet(f, S \cup {x}) = f[x] + SumFunctionOnSet(f, S)
    BY SumAdds
  <2>2. SumFunctionOnSet(g, S \cup {x}) = g[x] + SumFunctionOnSet(g, S)
    BY SumAdds
  <2>3. SumFunctionOnSet(f, S) \in Int /\ SumFunctionOnSet(g, S) \in Int
    BY SumIsInteger
  <2> QED
    BY <1>2, <2>1, <2>2, <2>3
<1> HIDE DEF P
<1>3. U \in P
  BY <1>1, <1>2, SetInduction
<1> QED
  BY <1>3 DEF P

LEMMA SumOfSame ==
  ASSUME NEW f, NEW g, NEW U, IsFiniteSet(U),
         \A x \in U : f[x] \in Int /\ f[x] = g[x]
  PROVE  SumFunctionOnSet(f, U) = SumFunctionOnSet(g, U)
<1>1. SumFunctionOnSet(f, U) \in Int /\ SumFunctionOnSet(g, U) \in Int
  BY SumIsInteger
<1>2. SumFunctionOnSet(f, U) <= SumFunctionOnSet(g, U)
  BY SumGrows
<1>3. SumFunctionOnSet(g, U) <= SumFunctionOnSet(f, U)
  BY SumGrows
<1> QED
  BY <1>1, <1>2, <1>3

LEMMA SumOfZeros ==
  ASSUME NEW f, NEW U, IsFiniteSet(U), \A x \in U : f[x] = 0
  PROVE  SumFunctionOnSet(f, U) = 0
<1> DEFINE P == {S \in SUBSET U : SumFunctionOnSet(f, S) = 0}
<1>1. {} \in P
  BY SumOfNone
<1>2. ASSUME NEW S \in SUBSET U, NEW x \in U \ S, S \in P
      PROVE  S \cup {x} \in P
  <2>1. SumFunctionOnSet(f, S \cup {x}) = f[x] + SumFunctionOnSet(f, S)
    BY SumAdds
  <2> QED
    BY <1>2, <2>1
<1> HIDE DEF P
<1>3. U \in P
  BY <1>1, <1>2, SetInduction
<1> QED
  BY <1>3 DEF P

\* The sum of a difference of terms.
LEMMA SumOfDifference ==
  ASSUME NEW f, NEW g, NEW h, NEW U, IsFiniteSet(U),
         \A x \in U : f[x] \in Int /\ g[x] \in Int /\ h[x] = f[x] - g[x]
  PROVE  SumFunctionOnSet(h, U) = SumFunctionOnSet(f, U) - SumFunctionOnSet(g, U)
<1> DEFINE P == {S \in SUBSET U : SumFunctionOnSet(h, S)
                                    = SumFunctionOnSet(f, S) - SumFunctionOnSet(g, S)}
<1>1. {} \in P
  BY SumOfNone
<1>2. ASSUME NEW S \in SUBSET U, NEW x \in U \ S, S \in P
      PROVE  S \cup {x} \in P
  <2>1. SumFunctionOnSet(f, S \cup {x}) = f[x] + SumFunctionOnSet(f, S)
    BY SumAdds
  <2>2. SumFunctionOnSet(g, S \cup {x}) = g[x] + SumFunctionOnSet(g, S)
    BY SumAdds
  <2>3. SumFunctionOnSet(h, S \cup {x}) = h[x] + SumFunctionOnSet(h, S)
    BY SumAdds
  <2>4. SumFunctionOnSet(f, S) \in Int /\ SumFunctionOnSet(g, S) \in Int
    BY SumIsInteger
  <2>5. f[x] \in Int /\ g[x] \in Int /\ h[x] = f[x] - g[x]
    OBVIOUS
  <2>6. SumFunctionOnSet(h, S) = SumFunctionOnSet(f, S) - SumFunctionOnSet(g, S)
    BY <1>2
  <2> QED
    BY <2>1, <2>2, <2>3, <2>4, <2>5, <2>6
<1> HIDE DEF P
<1>3. U \in P
  BY <1>1, <1>2, SetInduction
<1> QED
  BY <1>3 DEF P

\* The sum of multiples.
LEMMA SumOfMultiples ==
  ASSUME NEW f, NEW g, NEW k \in Int, NEW U, IsFiniteSet(U),
         \A x \in U : f[x] \in Int /\ g[x] = f[x] * k
  PROVE  SumFunctionOnSet(g, U) = SumFunctionOnSet(f, U) * k
<1> DEFINE P == {S \in SUBSET U : SumFunctionOnSet(g, S) = SumFunctionOnSet(f, S) * k}
<1>1. {} \in P
  BY SumOfNone
<1>2. ASSUME NEW S \in SUBSET U, NEW x \in U \ S, S \in P
      PROVE  S \cup {x} \in P
  <2>1. SumFunctionOnSet(f, S \cup {x}) = f[x] + SumFunctionOnSet(f, S)
    BY SumAdds
  <2>2. \A y \in U : g[y] \in Int
    OBVIOUS
  <2>3. SumFunctionOnSet(g, S \cup {x}) = g[x] + SumFunctionOnSet(g, S)
    BY <2>2, SumAdds
  <2>4. SumFunctionOnSet(f, S) \in Int
    BY SumIsInteger
  <2>5. f[x] \in Int /\ g[x] = f[x] * k
    OBVIOUS
  <2>6. SumFunctionOnSet(g, S) = SumFunctionOnSet(f, S) * k
    BY <1>2
  <2>7. \A a, b \in Int : (a + b) * k = a * k + b * k
    OBVIOUS
  <2> QED
    BY <2>1, <2>3, <2>4, <2>5, <2>6, <2>7
<1> HIDE DEF P
<1>3. U \in P
  BY <1>1, <1>2, SetInduction
<1> QED
  BY <1>3 DEF P

\* The sum over two sets that share no element.
LEMMA SumOfUnion ==
  ASSUME NEW f, NEW U, IsFiniteSet(U), \A x \in U : f[x] \in Int,
         NEW S \in SUBSET U, NEW T \in SUBSET U, S \cap T = {}
  PROVE  SumFunctionOnSet(f, S \cup T)
           = SumFunctionOnSet(f, S) + SumFunctionOnSet(f, T)
<1> DEFINE P == {V \in SUBSET T : SumFunctionOnSet(f, S \cup V)
                                    = SumFunctionOnSet(f, S) + SumFunctionOnSet(f, V)}
<1>0. IsFiniteSet(T)
  BY FS_Subset
<1>1. {} \in P
  <2>1. S \cup {} = S /\ SumFunctionOnSet(f, S) \in Int
    BY SumIsInteger
  <2> QED
    BY <2>1, SumOfNone
<1>2. ASSUME NEW V \in SUBSET T, NEW x \in T \ V, V \in P
      PROVE  V \cup {x} \in P
  <2>1. SumFunctionOnSet(f, V \cup {x}) = f[x] + SumFunctionOnSet(f, V)
    BY SumAdds
  <2>2. S \cup V \in SUBSET U /\ x \in U \ (S \cup V)
    OBVIOUS
  <2>3. SumFunctionOnSet(f, (S \cup V) \cup {x}) = f[x] + SumFunctionOnSet(f, S \cup V)
    BY <2>2, SumAdds
  <2>4. (S \cup V) \cup {x} = S \cup (V \cup {x})
    OBVIOUS
  <2>5. /\ SumFunctionOnSet(f, S) \in Int /\ SumFunctionOnSet(f, V) \in Int
        /\ f[x] \in Int
    BY SumIsInteger
  <2>6. SumFunctionOnSet(f, S \cup V) = SumFunctionOnSet(f, S) + SumFunctionOnSet(f, V)
    BY <1>2
  <2>7. SumFunctionOnSet(f, S \cup (V \cup {x}))
          = f[x] + SumFunctionOnSet(f, S \cup V)
    BY <2>3, <2>4, Zenon
  <2>8. SumFunctionOnSet(f, S \cup (V \cup {x}))
          = SumFunctionOnSet(f, S) + SumFunctionOnSet(f, V \cup {x})
    BY <2>1, <2>5, <2>6, <2>7
  <2> QED
    BY <2>8
<1> HIDE DEF P
<1>3. T \in P
  <2>1. \A V \in SUBSET T : \A x \in T \ V : V \in P => V \cup {x} \in P
    BY <1>2
  <2>2. \A V \in SUBSET T : V \in P
    BY <1>0, <1>1, <2>1, SetInduction, Zenon
  <2> QED
    BY <2>2
<1> QED
  BY <1>3 DEF P

\* Terms that are zero may be left out.
LEMMA SumWithoutZeros ==
  ASSUME NEW f, NEW U, IsFiniteSet(U), \A x \in U : f[x] \in Int,
         NEW S \in SUBSET U, \A x \in U \ S : f[x] = 0
  PROVE  SumFunctionOnSet(f, U) = SumFunctionOnSet(f, S)
<1>1. S \cup (U \ S) = U /\ S \cap (U \ S) = {} /\ U \ S \in SUBSET U
  OBVIOUS
<1>2. SumFunctionOnSet(f, U \ S) = 0
  BY <1>1, FS_Subset, SumOfZeros
<1>3. SumFunctionOnSet(f, S \cup (U \ S))
        = SumFunctionOnSet(f, S) + SumFunctionOnSet(f, U \ S)
  BY <1>1, SumOfUnion
<1>4. SumFunctionOnSet(f, S) \in Int
  BY SumIsInteger
<1>5. SumFunctionOnSet(f, U) = SumFunctionOnSet(f, S) + SumFunctionOnSet(f, U \ S)
  BY <1>1, <1>3, Zenon
<1> QED
  BY <1>2, <1>4, <1>5

\* The sum over a family of sets that share no elements.
LEMMA SumOfFamily ==
  ASSUME NEW W, IsFiniteSet(W), NEW F, NEW f, NEW g,
         \A w \in W : IsFiniteSet(F[w]) /\ g[w] = SumFunctionOnSet(f, F[w]),
         \A w \in W : \A x \in F[w] : f[x] \in Int,
         \A v, w \in W : v # w => F[v] \cap F[w] = {}
  PROVE  /\ IsFiniteSet(UNION {F[w] : w \in W})
         /\ SumFunctionOnSet(f, UNION {F[w] : w \in W}) = SumFunctionOnSet(g, W)
<1> DEFINE All(V) == UNION {F[w] : w \in V}
           P == {V \in SUBSET W : /\ IsFiniteSet(All(V))
                                  /\ SumFunctionOnSet(f, All(V)) = SumFunctionOnSet(g, V)}
<1>0. \A w \in W : g[w] \in Int
  BY SumIsInteger
<1>1. {} \in P
  <2>1. All({}) = {}
    OBVIOUS
  <2>2. IsFiniteSet({})
    BY FS_EmptySet
  <2>3. SumFunctionOnSet(f, {}) = SumFunctionOnSet(g, {})
    BY SumOfNone
  <2> QED
    BY <2>1, <2>2, <2>3, Zenon
<1>2. ASSUME NEW V \in SUBSET W, NEW w \in W \ V, V \in P
      PROVE  V \cup {w} \in P
  <2>1. All(V \cup {w}) = F[w] \cup All(V)
    OBVIOUS
  <2>2. IsFiniteSet(All(V)) /\ IsFiniteSet(F[w])
    BY <1>2
  <2>3. F[w] \cap All(V) = {}
    OBVIOUS
  <2>4. \A x \in F[w] \cup All(V) : f[x] \in Int
    OBVIOUS
  <2>5. SumFunctionOnSet(f, All(V)) = SumFunctionOnSet(g, V)
    BY <1>2
  <2>6. g[w] = SumFunctionOnSet(f, F[w])
    OBVIOUS
  <2> HIDE DEF All, P
  <2>7. IsFiniteSet(F[w] \cup All(V))
    BY <2>2, FS_Union
  <2>8. F[w] \in SUBSET (F[w] \cup All(V)) /\ All(V) \in SUBSET (F[w] \cup All(V))
    OBVIOUS
  <2>9. SumFunctionOnSet(f, F[w] \cup All(V))
          = SumFunctionOnSet(f, F[w]) + SumFunctionOnSet(f, All(V))
    BY <2>3, <2>4, <2>7, <2>8, SumOfUnion
  <2>10. SumFunctionOnSet(g, V \cup {w}) = g[w] + SumFunctionOnSet(g, V)
    BY <1>0, SumAdds
  <2>11. SumFunctionOnSet(f, All(V \cup {w})) = SumFunctionOnSet(g, V \cup {w})
    BY <2>1, <2>5, <2>6, <2>9, <2>10
  <2>12. IsFiniteSet(All(V \cup {w})) /\ V \cup {w} \in SUBSET W
    BY <2>1, <2>7
  <2> QED
    BY <2>11, <2>12 DEF P
<1> HIDE DEF P
<1>3. W \in P
  BY <1>1, <1>2, SetInduction
<1> QED
  BY <1>3 DEF P

\* Summing over other names of the same terms.
LEMMA SumRenamed ==
  ASSUME NEW S, IsFiniteSet(S), NEW b, NEW f, NEW g,
         \A x \in S : g[x] = f[b[x]] /\ g[x] \in Int,
         \A x, y \in S : b[x] = b[y] => x = y
  PROVE  SumFunctionOnSet(f, {b[x] : x \in S}) = SumFunctionOnSet(g, S)
<1> DEFINE image(T) == {b[x] : x \in T}
           P == {T \in SUBSET S : SumFunctionOnSet(f, image(T)) = SumFunctionOnSet(g, T)}
<1>0. IsFiniteSet(image(S)) /\ \A y \in image(S) : f[y] \in Int
  BY ImageIsFinite
<1>1. {} \in P
  <2>1. image({}) = {}
    OBVIOUS
  <2>2. SumFunctionOnSet(f, {}) = SumFunctionOnSet(g, {})
    BY SumOfNone
  <2> QED
    BY <2>1, <2>2, Zenon
<1>2. ASSUME NEW T \in SUBSET S, NEW x \in S \ T, T \in P
      PROVE  T \cup {x} \in P
  <2>1. /\ image(T \cup {x}) = image(T) \cup {b[x]}
        /\ image(T) \in SUBSET image(S) /\ b[x] \in image(S) \ image(T)
    OBVIOUS
  <2>2. SumFunctionOnSet(f, image(T)) = SumFunctionOnSet(g, T)
    BY <1>2
  <2> HIDE DEF image, P
  <2>3. SumFunctionOnSet(f, image(T) \cup {b[x]}) = f[b[x]] + SumFunctionOnSet(f, image(T))
    BY <1>0, <2>1, SumAdds
  <2>4. SumFunctionOnSet(g, T \cup {x}) = g[x] + SumFunctionOnSet(g, T)
    BY SumAdds
  <2>5. SumFunctionOnSet(f, image(T \cup {x})) = SumFunctionOnSet(g, T \cup {x})
    BY <2>1, <2>2, <2>3, <2>4
  <2> QED
    BY <2>5 DEF P
<1> HIDE DEF P
<1>3. S \in P
  BY <1>1, <1>2, SetInduction
<1> QED
  BY <1>3 DEF P

-----------------------------------------------------------------------------
(* Products and rounding *)

LEMMA ProductGrows ==
  ASSUME NEW a \in Int, NEW b \in Int, a <= b, NEW k \in Nat
  PROVE  a * k <= b * k
<1>1. (b - a) * k \in Nat
  OBVIOUS
<1>2. (b - a) * k = b * k - a * k
  OBVIOUS
<1> QED
  BY <1>1, <1>2

LEMMA ProductIsPositive ==
  ASSUME NEW a \in Nat \ {0}, NEW b \in Nat \ {0}
  PROVE  a * b \in Nat \ {0}
OBVIOUS

\* A quotient, and how it grows.
LEMMA Quotient ==
  ASSUME NEW a \in Int, NEW m \in Nat \ {0}
  PROVE  a \div m \in Int /\ m * (a \div m) <= a /\ a < m * (a \div m) + m
OBVIOUS

LEMMA QuotientGrows ==
  ASSUME NEW a \in Int, NEW b \in Int, a <= b, NEW m \in Nat \ {0}
  PROVE  a \div m <= b \div m
<1> DEFINE p == a \div m
           q == b \div m
<1>1. p \in Int /\ m * p <= a
  BY Quotient
<1>2. q \in Int /\ b < m * q + m
  BY Quotient
<1> HIDE DEF p, q
<1>3. m * p < m * (q + 1)
  BY <1>1, <1>2
<1>4. ASSUME q + 1 <= p PROVE FALSE
  <2>1. (q + 1) * m <= p * m
    BY <1>1, <1>2, <1>4, ProductGrows
  <2> QED
    BY <1>1, <1>2, <1>3, <2>1
<1>5. p <= q
  BY <1>1, <1>2, <1>4
<1> QED
  BY <1>5 DEF p, q

\* Rounding up to a multiple of m.
LEMMA CeilingCovers ==
  ASSUME NEW b \in Nat, NEW m \in Nat \ {0}
  PROVE  ((b + m - 1) \div m) * m \in Nat /\ ((b + m - 1) \div m) * m >= b
<1> DEFINE q == (b + m - 1) \div m
<1>1. q \in Int /\ m * q > b - 1 /\ m * q <= b + m - 1
  BY Quotient
<1> HIDE DEF q
<1>2. q * m = m * q /\ q * m \in Int
  BY <1>1
<1>3. q * m \in Nat /\ q * m >= b
  BY <1>1, <1>2
<1> QED
  BY <1>3 DEF q

\* A percentage on top, in hundredths of a percent, makes nothing smaller.
LEMMA SurchargeAdds ==
  ASSUME NEW v \in Nat, NEW h \in Nat
  PROVE  /\ (v * (10000 + h) + 5000) \div 10000 \in Nat
         /\ (v * (10000 + h) + 5000) \div 10000 >= v
<1> DEFINE x == v * (10000 + h) + 5000
<1>1. v * h \in Nat
  OBVIOUS
<1>2. x = 10000 * v + v * h + 5000
  OBVIOUS
<1>3. x \in Nat /\ x >= 10000 * v
  BY <1>1, <1>2
<1> HIDE DEF x
<1>4. x \div 10000 \in Nat /\ x \div 10000 >= v
  BY <1>3
<1> QED
  BY <1>4 DEF x

\* Fractions are compared by cross products, and so are their quotients.
LEMMA QuotientCompares ==
  ASSUME NEW a \in Int, NEW b \in Int, NEW m \in Nat \ {0}, NEW n \in Nat \ {0},
         a * n <= b * m
  PROVE  a \div m <= b \div n
<1> DEFINE p == a \div m
           q == b \div n
<1>1. p \in Int /\ m * p <= a
  BY Quotient
<1>2. q \in Int /\ b < n * q + n
  BY Quotient
<1> HIDE DEF p, q
<1> SUFFICES ASSUME q + 1 <= p PROVE FALSE
  BY <1>1, <1>2 DEF p, q
<1>3. (m * p) * n <= a * n
  BY <1>1, ProductGrows
<1>4. (b + 1) * m <= (n * q + n) * m
  BY <1>2, ProductGrows
<1>5. (b + 1) * m = b * m + m
  OBVIOUS
<1>6. (q + 1) * (n * m) <= p * (n * m)
  BY <1>1, <1>2, ProductGrows
<1>7. (n * q + n) * m = (q + 1) * (n * m) /\ (m * p) * n = p * (n * m)
  BY <1>1, <1>2
<1>8. /\ b * m \in Int /\ a * n \in Int /\ (m * p) * n \in Int /\ p * (n * m) \in Int
      /\ (q + 1) * (n * m) \in Int /\ (n * q + n) * m \in Int /\ (b + 1) * m \in Int
  BY <1>1, <1>2
<1> HIDE DEF p, q
<1> QED
  BY <1>3, <1>4, <1>5, <1>6, <1>7, <1>8

-----------------------------------------------------------------------------
(* Orders *)

\* In a finite set ordered by L every element has its place, the number of those
\* before it, and every place is taken.
LEMMA PlacesOfOrder ==
  ASSUME NEW S, IsFiniteSet(S), NEW L,
         \A x \in S : <<x, x>> \notin L,
         \A x, y, z \in S : <<x, y>> \in L /\ <<y, z>> \in L => <<x, z>> \in L,
         \A x, y \in S : x = y \/ <<x, y>> \in L \/ <<y, x>> \in L,
         NEW place, \A y \in S : place[y] = Cardinality({x \in S : <<x, y>> \in L})
  PROVE  /\ \A x \in S : place[x] \in 0 .. Cardinality(S) - 1
         /\ \A x, y \in S : <<x, y>> \in L <=> place[x] < place[y]
         /\ \A i \in 0 .. Cardinality(S) - 1 : \E x \in S : place[x] = i
<1> DEFINE Before(y) == {x \in S : <<x, y>> \in L}
           n == Cardinality(S)
<1>1. n \in Nat
  BY FS_CardinalityType
<1>2. \A y \in S : /\ Before(y) \in SUBSET S /\ IsFiniteSet(Before(y))
                   /\ Cardinality(Before(y)) \in Nat /\ y \notin Before(y)
                   /\ Cardinality(Before(y)) <= n
  BY FS_Subset, FS_CardinalityType
<1>3. \A y \in S : place[y] = Cardinality(Before(y))
  OBVIOUS
<1>4. ASSUME NEW y \in S
      PROVE  place[y] \in 0 .. n - 1
  <2>1. Cardinality(Before(y)) # n
    BY <1>2, FS_Subset
  <2> HIDE DEF Before
  <2> QED
    BY <1>1, <1>2, <1>3, <2>1
<1>5. ASSUME NEW x \in S, NEW y \in S, <<x, y>> \in L
      PROVE  place[x] < place[y]
  <2>1. Before(x) \in SUBSET Before(y) /\ x \in Before(y) /\ x \notin Before(x)
    BY <1>5
  <2>2. Cardinality(Before(x)) <= Cardinality(Before(y))
    BY <1>2, <2>1, FS_Subset
  <2>3. Cardinality(Before(x)) # Cardinality(Before(y))
    BY <1>2, <2>1, FS_Subset
  <2> HIDE DEF Before
  <2> QED
    BY <1>2, <1>3, <2>2, <2>3
<1>6. \A x \in S : place[x] \in Int
  BY <1>4
<1>7. ASSUME NEW x \in S, NEW y \in S, place[x] < place[y]
      PROVE  <<x, y>> \in L
  <2>1. CASE x = y
    BY <1>6, <1>7, <2>1
  <2>2. CASE <<y, x>> \in L
    <3>1. place[y] < place[x]
      BY <1>5, <2>2
    <3> QED
      BY <1>6, <1>7, <3>1
  <2> QED
    BY <2>1, <2>2
<1>8. \A i \in 0 .. n - 1 : \E x \in S : place[x] = i
  <2> DEFINE T == 0 .. n - 1
             f == [x \in S |-> place[x]]
  <2>1. IsFiniteSet(T) /\ Cardinality(T) = n
    <3>1. \A a, b \in Int :
            /\ IsFiniteSet(a .. b)
            /\ Cardinality(a .. b) = IF a > b THEN 0 ELSE b - a + 1
      BY FS_Interval
    <3>2. n - 1 \in Int /\ 0 \in Int /\ n = IF 0 > n - 1 THEN 0 ELSE n - 1 - 0 + 1
      BY <1>1
    <3> HIDE DEF n
    <3> QED
      BY <3>1, <3>2
  <2>2. f \in [S -> T]
    BY <1>4
  <2>3. \A x, y \in S : place[x] = place[y] => x = y
    <3> SUFFICES ASSUME NEW x \in S, NEW y \in S, place[x] = place[y], x # y PROVE FALSE
      OBVIOUS
    <3>1. place[x] < place[y] \/ place[y] < place[x]
      BY <1>5
    <3> QED
      BY <1>6, <3>1
  <2>4. f \in Injection(S, T)
    BY <2>2, <2>3 DEF Injection, IsInjective
  <2> HIDE DEF T
  <2>5. f \in Surjection(S, T)
    BY <2>1, <2>4, FS_Injection
  <2> QED
    BY <2>5 DEF Surjection, T
<1> QED
  BY <1>4, <1>5, <1>7, <1>8
-----------------------------------------------------------------------------
(* Powers of 2, which are the numbers of subsets. *)

LEMMA PowerDoubles ==
  ASSUME NEW n \in Nat
  PROVE  2 ^ n \in Nat /\ 2 ^ (n + 1) = 2 * 2 ^ n
<1> DEFINE A == SUBSET (1 .. n)
           all == SUBSET (1 .. n + 1)
           B == {T \in all : n + 1 \in T}
           f == [T \in A |-> T \cup {n + 1}]
<1>1. /\ IsFiniteSet(1 .. n) /\ Cardinality(1 .. n) = n
      /\ IsFiniteSet(1 .. n + 1) /\ Cardinality(1 .. n + 1) = n + 1
  <2>1. \A a, b \in Int :
          /\ IsFiniteSet(a .. b)
          /\ Cardinality(a .. b) = IF a > b THEN 0 ELSE b - a + 1
    BY FS_Interval
  <2> QED
    BY <2>1
<1>2. IsFiniteSet(A) /\ Cardinality(A) = 2 ^ n
  BY <1>1, FS_SUBSET
<1>3. IsFiniteSet(all) /\ Cardinality(all) = 2 ^ (n + 1)
  BY <1>1, FS_SUBSET
<1>4. all = A \cup B /\ A \cap B = {}
  <2>1. 1 .. n + 1 = (1 .. n) \cup {n + 1} /\ n + 1 \notin 1 .. n
    OBVIOUS
  <2> QED
    BY <2>1
<1>5. f \in [A -> B]
  <2>1. \A T \in A : T \cup {n + 1} \in B
    OBVIOUS
  <2> QED
    BY <2>1
<1>6. f \in Injection(A, B)
  <2>1. \A S, T \in A : f[S] = f[T] => S = T
    <3> SUFFICES ASSUME NEW S \in A, NEW T \in A, S \cup {n + 1} = T \cup {n + 1}
                 PROVE  S = T
      OBVIOUS
    <3>1. n + 1 \notin S /\ n + 1 \notin T
      OBVIOUS
    <3> DEFINE x == n + 1
    <3>2. x \notin S /\ x \notin T /\ S \cup {x} = T \cup {x}
      BY <3>1
    <3> HIDE DEF x
    <3> QED
      BY <3>2
  <2> HIDE DEF f, A, B
  <2> QED
    BY <1>5, <2>1 DEF Injection, IsInjective
<1>7. f \in Surjection(A, B)
  <2>1. \A T \in B : \E S \in A : f[S] = T
    <3> SUFFICES ASSUME NEW T \in B PROVE \E S \in A : f[S] = T
      OBVIOUS
    <3> DEFINE S == T \ {n + 1}
    <3>1. S \in A /\ S \cup {n + 1} = T
      OBVIOUS
    <3>2. f[S] = T
      BY <3>1
    <3> HIDE DEF S, A, B, f
    <3> QED
      BY <3>1, <3>2
  <2> HIDE DEF f, A, B
  <2> QED
    BY <1>5, <2>1 DEF Surjection
<1> HIDE DEF A, B, all, f
<1>8. IsFiniteSet(B) /\ Cardinality(B) = Cardinality(A)
  <2>1. ExistsBijection(A, B)
    BY <1>6, <1>7 DEF ExistsBijection, Bijection
  <2> QED
    BY <1>2, <2>1, FS_Bijection
<1>9. Cardinality(all) = Cardinality(A) + Cardinality(B) - Cardinality({})
  BY <1>2, <1>4, <1>8, FS_Union
<1>10. Cardinality({}) = 0 /\ Cardinality(A) \in Nat
  BY <1>2, FS_EmptySet, FS_CardinalityType
<1> QED
  BY <1>2, <1>3, <1>8, <1>9, <1>10

LEMMA PowerIsPositive ==
  \A n \in Nat : 2 ^ n \in Nat \ {0}
<1> DEFINE P == {n \in Nat : 2 ^ n \in Nat \ {0}}
<1>1. 0 \in P
  <2>1. 2 ^ 0 = 1
    OBVIOUS
  <2> QED
    BY <2>1
<1>2. ASSUME NEW n \in Nat, n \in P
      PROVE  n + 1 \in P
  <2>1. 2 ^ n \in Nat \ {0}
    BY <1>2
  <2>2. 2 ^ (n + 1) = 2 * 2 ^ n
    BY PowerDoubles
  <2>3. 2 ^ (n + 1) \in Nat \ {0}
    BY <2>1, <2>2
  <2> QED
    BY <2>3
<1>3. \A n \in Nat : n \in P
  <2> HIDE DEF P
  <2> QED
    BY <1>1, <1>2, NumberInduction
<1> QED
  BY <1>3

LEMMA PowerOfSum ==
  ASSUME NEW m \in Nat
  PROVE  \A n \in Nat : 2 ^ (m + n) = 2 ^ m * 2 ^ n
<1> DEFINE P == {n \in Nat : 2 ^ (m + n) = 2 ^ m * 2 ^ n}
<1>1. 0 \in P
  <2>1. 2 ^ 0 = 1 /\ m + 0 = m /\ 2 ^ m \in Nat
    BY PowerIsPositive
  <2>2. 2 ^ (m + 0) = 2 ^ m * 2 ^ 0
    BY <2>1
  <2> QED
    BY <2>2
<1>2. ASSUME NEW n \in Nat, n \in P
      PROVE  n + 1 \in P
  <2>1. 2 ^ (m + n) = 2 ^ m * 2 ^ n
    BY <1>2
  <2>2. 2 ^ ((m + n) + 1) = 2 * 2 ^ (m + n) /\ 2 ^ (n + 1) = 2 * 2 ^ n
    BY PowerDoubles
  <2>3. \A a, b \in Int : 2 * (a * b) = a * (2 * b)
    OBVIOUS
  <2>4. 2 ^ m \in Int /\ 2 ^ n \in Int
    BY PowerIsPositive
  <2>5. 2 * (2 ^ m * 2 ^ n) = 2 ^ m * (2 * 2 ^ n)
    BY <2>3, <2>4
  <2>6. (m + n) + 1 = m + (n + 1)
    OBVIOUS
  <2>7. 2 ^ (m + (n + 1)) = 2 ^ m * 2 ^ (n + 1)
    BY <2>1, <2>2, <2>5, <2>6
  <2> QED
    BY <2>7
<1>3. \A n \in Nat : n \in P
  <2> HIDE DEF P
  <2> QED
    BY <1>1, <1>2, NumberInduction
<1> QED
  BY <1>3

LEMMA PowerGrows ==
  ASSUME NEW m \in Nat, NEW n \in Nat, m <= n
  PROVE  2 ^ m <= 2 ^ n
<1>1. 2 ^ (m + (n - m)) = 2 ^ m * 2 ^ (n - m) /\ m + (n - m) = n
  BY PowerOfSum
<1>2. 2 ^ m \in Nat \ {0} /\ 2 ^ (n - m) \in Nat \ {0}
  BY PowerIsPositive
<1>3. \A a \in Nat, b \in Nat \ {0} : a <= a * b
  OBVIOUS
<1> QED
  BY <1>1, <1>2, <1>3
=============================================================================
