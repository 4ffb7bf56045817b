----------------------------- MODULE Inductions -----------------------------
(***************************************************************************)
(* Induction over numbers and over finite sets, stated with sets in the    *)
(* place of predicates: a set of counterexamples that is not empty has a   *)
(* smallest member.  What a fold of the community modules computes is      *)
(* proved with them.                                                       *)
(***************************************************************************)
EXTENDS Integers, FiniteSets, FiniteSetsExt, Functions, FiniteSetTheorems,
        WellFoundedInduction, TLAPS

-----------------------------------------------------------------------------
(* A nonempty set of naturals has a least element.                          *)
Smaller == {p \in Nat \X Nat : p[1] < p[2]}

LEMMA SmallerIsWellFounded == IsWellFoundedOn(Smaller, Nat)
<1>1. OpToRel(<, Nat) = Smaller
  BY DEF OpToRel, Smaller
<1> QED BY <1>1, NatLessThanWellFounded

LEMMA LeastExists ==
  ASSUME NEW T, T \subseteq Nat, T # {}
  PROVE  \E n \in T : \A m \in T : n <= m
<1>1. PICK x \in T : \A y \in T : ~ (<<y, x>> \in Smaller)
  BY SmallerIsWellFounded, WFMin
<1>2. x \in Nat
  OBVIOUS
<1>3. ASSUME NEW y \in T PROVE x <= y
  <2>1. y \in Nat
    OBVIOUS
  <2>2. y < x => <<y, x>> \in Smaller
    BY <2>1, <1>2 DEF Smaller
  <2> QED BY <2>1, <2>2, <1>1, <1>2
<1> QED BY <1>3

(* A nonempty set of places of a sequence has a last one.                   *)
LEMMA LastExists ==
  ASSUME NEW n \in Nat, NEW T \in SUBSET (1..n), T # {}
  PROVE  Max(T) \in T
<1> DEFINE U == {n - x : x \in T}
<1>1. U \subseteq Nat /\ U # {}
  <2>1. \A x \in T : x \in 1..n /\ n - x \in Nat
    OBVIOUS
  <2> QED BY <2>1
<1>2. PICK u \in U : \A v \in U : u <= v
  BY <1>1, LeastExists
<1>3. PICK x \in T : u = n - x
  OBVIOUS
<1>4. \A y \in T : x >= y
  <2> TAKE y \in T
  <2>1. n - y \in U /\ x \in Int /\ y \in Int
    OBVIOUS
  <2> QED BY <1>2, <1>3, <2>1
<1> QED BY <1>4 DEF Max

(* Of the subsets of a finite set that are counterexamples, one is smallest: *)
(* it is none any more once an element is taken away.                       *)
LEMMA SmallestSubset ==
  ASSUME NEW S, IsFiniteSet(S), NEW Bad, Bad \subseteq SUBSET S, Bad # {}
  PROVE  \E s \in Bad : \A x \in s : s \ {x} \notin Bad
<1> DEFINE Sizes == {Cardinality(s) : s \in Bad}
<1>1. \A s \in Bad : IsFiniteSet(s)
  BY FS_Subset
<1>2. \A s \in Bad : Cardinality(s) \in Nat
  BY <1>1, FS_CardinalityType
<1>3. Sizes \subseteq Nat /\ Sizes # {}
  BY <1>2
<1>4. PICK k \in Sizes : \A m \in Sizes : k <= m
  BY <1>3, LeastExists
<1>5. PICK s \in Bad : k = Cardinality(s)
  OBVIOUS
<1>6. ASSUME NEW x \in s, s \ {x} \in Bad PROVE FALSE
  <2>1. Cardinality(s \ {x}) = k - 1
    BY <1>1, <1>5, FS_RemoveElement
  <2>2. Cardinality(s \ {x}) \in Sizes
    BY <1>6
  <2>3. k \in Nat /\ k <= k - 1
    BY <1>3, <1>4, <2>1, <2>2
  <2> QED BY <2>3
<1> QED BY <1>6

(* A set of naturals with 0 that holds the successor of each of its members *)
(* holds them all.                                                          *)
LEMMA AllNaturals ==
  ASSUME NEW T, 0 \in T, \A n \in T \cap Nat : n + 1 \in T
  PROVE  Nat \subseteq T
<1> SUFFICES ASSUME Nat \ T # {} PROVE FALSE
  OBVIOUS
<1>1. PICK n \in Nat \ T : \A m \in Nat \ T : n <= m
  BY LeastExists
<1>2. n - 1 \in Nat
  BY <1>1
<1>3. n - 1 \in T
  BY <1>1, <1>2
<1>4. PICK m \in Nat : m = n - 1
  BY <1>2
<1>5. m + 1 \in T /\ m + 1 = n
  <2>1. m \in T \cap Nat
    BY <1>3, <1>4
  <2>2. m + 1 \in T
    BY <2>1
  <2> QED BY <1>1, <1>4, <2>2
<1> QED BY <1>1, <1>5

-----------------------------------------------------------------------------
(* The sum of a function over a finite set, one element after the other, in *)
(* the order that CHOOSE takes them.                                        *)
Picked(s) == CHOOSE x \in s : TRUE
Partial(f, sum, S) ==
  sum = [s \in S |-> IF s = {} THEN 0 ELSE f[Picked(s)] + sum[s \ {Picked(s)}]]

LEMMA PartialSumsExist ==
  ASSUME NEW S, IsFiniteSet(S), NEW f
  PROVE  \E sum : Partial(f, sum, SUBSET S)
<1> DEFINE UpToSize(n) == {s \in SUBSET S : Cardinality(s) <= n}
           T == {n \in Nat : \E sum : Partial(f, sum, UpToSize(n))}
<1>1. \A s \in SUBSET S : IsFiniteSet(s) /\ Cardinality(s) \in Nat
                            /\ Cardinality(s) <= Cardinality(S)
  BY FS_Subset, FS_CardinalityType
<1>2. 0 \in T
  <2>1. \A s \in UpToSize(0) : s = {}
    BY <1>1, FS_EmptySet
  <2>2. Partial(f, [s \in UpToSize(0) |-> 0], UpToSize(0))
    BY <2>1 DEF Partial
  <2> QED BY <2>2
<1>3. ASSUME NEW n \in T PROVE n + 1 \in T
  <2>1. PICK sum : Partial(f, sum, UpToSize(n))
    OBVIOUS
  <2> DEFINE next == [s \in UpToSize(n + 1) |->
                        IF s \in UpToSize(n) THEN sum[s]
                        ELSE f[Picked(s)] + sum[s \ {Picked(s)}]]
  <2>2. ASSUME NEW s \in UpToSize(n + 1), s # {}
        PROVE  s \ {Picked(s)} \in UpToSize(n)
    <3>1. Picked(s) \in s
      BY <2>2 DEF Picked
    <3>2. Cardinality(s \ {Picked(s)}) = Cardinality(s) - 1
      BY <1>1, <3>1, FS_RemoveElement
    <3> QED BY <1>1, <3>2
  <2>3. UpToSize(n) \subseteq UpToSize(n + 1)
    BY <1>1
  <2>4. {} \in UpToSize(n)
    BY FS_EmptySet
  <2> HIDE DEF UpToSize
  <2>5. ASSUME NEW s \in UpToSize(n + 1)
        PROVE  next[s] = IF s = {} THEN 0 ELSE f[Picked(s)] + next[s \ {Picked(s)}]
    <3>1. CASE s = {}
      BY <2>1, <2>4, <3>1 DEF Partial
    <3>2. CASE s # {}
      <4>1. next[s \ {Picked(s)}] = sum[s \ {Picked(s)}]
        BY <2>2, <2>3, <3>2
      <4>2. next[s] = f[Picked(s)] + sum[s \ {Picked(s)}]
        BY <2>1, <3>2 DEF Partial
      <4> QED BY <3>2, <4>1, <4>2
    <3> QED BY <3>1, <3>2
  <2>6. Partial(f, next, UpToSize(n + 1))
    BY <2>5 DEF Partial
  <2> QED BY <2>6
<1>4. Cardinality(S) \in T
  <2> HIDE DEF T
  <2>1. Nat \subseteq T
    BY <1>2, <1>3, AllNaturals
  <2> QED BY <1>1, <2>1
<1>5. UpToSize(Cardinality(S)) = SUBSET S
  BY <1>1
<1> QED BY <1>4, <1>5

(* SumFunction is the last of the partial sums.                             *)
LEMMA SumIsPartial ==
  ASSUME NEW S, IsFiniteSet(S), NEW f, DOMAIN f = S
  PROVE  \E sum : Partial(f, sum, SUBSET S) /\ SumFunction(f) = sum[S]
<1> DEFINE sum == CHOOSE g : Partial(f, g, SUBSET S)
<1>1. Partial(f, sum, SUBSET S)
  BY PartialSumsExist
<1>2. SumFunction(f) = sum[S]
  BY DEF SumFunction, SumFunctionOnSet, FoldFunctionOnSet, MapThenFoldSet, Partial, Picked
<1> QED BY <1>1, <1>2

(* A set of subsets of a finite set that are counterexamples is empty, if   *)
(* {} is none, and no s is none when s without the element that is picked   *)
(* is none.                                                                 *)
LEMMA NoSubsetIsBad ==
  ASSUME NEW S, IsFiniteSet(S), NEW Bad, Bad \subseteq SUBSET S, {} \notin Bad,
         \A s \in Bad : s # {} /\ Picked(s) \in s => s \ {Picked(s)} \in Bad
  PROVE  Bad = {}
<1> SUFFICES ASSUME Bad # {} PROVE FALSE
  OBVIOUS
<1>1. PICK s \in Bad : \A x \in s : s \ {x} \notin Bad
  BY SmallestSubset
<1>2. s # {} /\ Picked(s) \in s
  BY DEF Picked
<1> QED BY <1>1, <1>2

(* The sum of naturals is one.                                              *)
LEMMA SumIsNatural ==
  ASSUME NEW S, IsFiniteSet(S), NEW f \in [S -> Nat]
  PROVE  SumFunction(f) \in Nat
<1>1. PICK sum : Partial(f, sum, SUBSET S) /\ SumFunction(f) = sum[S]
  BY SumIsPartial
<1> DEFINE Bad == {s \in SUBSET S : sum[s] \notin Nat}
<1>2. {} \notin Bad
  BY <1>1 DEF Partial
<1>3. ASSUME NEW s \in Bad, s # {}, Picked(s) \in s PROVE s \ {Picked(s)} \in Bad
  <2>1. sum[s] = f[Picked(s)] + sum[s \ {Picked(s)}]
    BY <1>1, <1>3 DEF Partial
  <2>2. f[Picked(s)] \in Nat /\ s \ {Picked(s)} \in SUBSET S
    BY <1>3
  <2> QED BY <2>1, <2>2
<1>4. Bad = {}
  BY <1>2, <1>3, NoSubsetIsBad
<1> QED BY <1>1, <1>4

(* Nothing adds up to nothing.                                              *)
LEMMA SumOfNothing ==
  ASSUME NEW S, IsFiniteSet(S), NEW f, DOMAIN f = S, \A x \in S : f[x] = 0
  PROVE  SumFunction(f) = 0
<1>1. PICK sum : Partial(f, sum, SUBSET S) /\ SumFunction(f) = sum[S]
  BY SumIsPartial
<1> DEFINE Bad == {s \in SUBSET S : sum[s] # 0}
<1>2. {} \notin Bad
  BY <1>1 DEF Partial
<1>3. ASSUME NEW s \in Bad, s # {}, Picked(s) \in s PROVE s \ {Picked(s)} \in Bad
  <2>1. sum[s] = f[Picked(s)] + sum[s \ {Picked(s)}]
    BY <1>1, <1>3 DEF Partial
  <2>2. f[Picked(s)] = 0 /\ s \ {Picked(s)} \in SUBSET S
    BY <1>3
  <2> QED BY <2>1, <2>2
<1>4. Bad = {}
  BY <1>2, <1>3, NoSubsetIsBad
<1> QED BY <1>1, <1>4

(* When one term changes, the sum changes by as much.                       *)
LEMMA SumChanges ==
  ASSUME NEW S, IsFiniteSet(S), NEW f \in [S -> Int], NEW g \in [S -> Int],
         NEW a \in S, \A x \in S \ {a} : g[x] = f[x]
  PROVE  SumFunction(g) = SumFunction(f) + g[a] - f[a] /\ SumFunction(f) \in Int
<1>1. PICK sum : Partial(f, sum, SUBSET S) /\ SumFunction(f) = sum[S]
  BY SumIsPartial
<1>2. PICK new : Partial(g, new, SUBSET S) /\ SumFunction(g) = new[S]
  BY SumIsPartial
<1> DEFINE Good(s) == /\ sum[s] \in Int /\ new[s] \in Int
                      /\ new[s] = IF a \in s THEN sum[s] + g[a] - f[a] ELSE sum[s]
           Bad == {s \in SUBSET S : ~Good(s)}
<1>3. {} \notin Bad
  BY <1>1, <1>2 DEF Partial
<1>4. ASSUME NEW s \in Bad, s # {}, Picked(s) \in s, Good(s \ {Picked(s)}) PROVE FALSE
  <2>1. /\ sum[s] = f[Picked(s)] + sum[s \ {Picked(s)}]
        /\ new[s] = g[Picked(s)] + new[s \ {Picked(s)}]
    BY <1>1, <1>2, <1>4 DEF Partial
  <2>2. /\ Picked(s) \in S /\ s \in SUBSET S
        /\ f[Picked(s)] \in Int /\ g[Picked(s)] \in Int /\ f[a] \in Int /\ g[a] \in Int
    BY <1>4
  <2>3. CASE Picked(s) = a
    <3>1. a \in s /\ a \notin s \ {Picked(s)}
      BY <1>4, <2>3
    <3>2. new[s \ {Picked(s)}] = sum[s \ {Picked(s)}] /\ sum[s \ {Picked(s)}] \in Int
      BY <1>4, <3>1
    <3>3. Good(s)
      BY <2>1, <2>2, <2>3, <3>1, <3>2
    <3> QED BY <3>3
  <2>4. CASE Picked(s) # a
    <3>1. a \in s <=> a \in s \ {Picked(s)}
      BY <2>4
    <3>2. g[Picked(s)] = f[Picked(s)]
      BY <2>2, <2>4
    <3>3. Good(s)
      BY <1>4, <2>1, <2>2, <3>1, <3>2
    <3> QED BY <3>3
  <2> QED BY <2>3, <2>4
<1>5. \A s \in Bad : s # {} /\ Picked(s) \in s => s \ {Picked(s)} \in Bad
  BY <1>4
<1>6. Bad = {}
  <2> HIDE DEF Bad
  <2>1. Bad \subseteq SUBSET S
    BY DEF Bad
  <2> QED BY <1>3, <1>5, <2>1, NoSubsetIsBad
<1>7. Good(S)
  BY <1>6
<1> QED BY <1>1, <1>2, <1>7
=============================================================================
