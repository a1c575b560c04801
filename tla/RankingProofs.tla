--------------------------- MODULE RankingProofs ---------------------------
(***************************************************************************)
(* Ranks of a finite set under a key that tells its members apart are a    *)
(* bijection onto 0 .. Cardinality-1; and the counting facts the reductions *)
(* of the kernels need: least members, induction over the subsets of a     *)
(* finite set, and sums of sizes.                                          *)
(***************************************************************************)
EXTENDS Ranking, FiniteSetsExt, FiniteSetTheorems, FunctionTheorems,
        WellFoundedInduction, TLAPS

(* The parts of a set split in two add up to the whole.                    *)
LEMMA SplitSize ==
  ASSUME NEW W, IsFiniteSet(W), NEW A \in SUBSET W, NEW B \in SUBSET W,
         A \cup B = W, A \cap B = {}
  PROVE  /\ IsFiniteSet(A) /\ Cardinality(A) \in Nat
         /\ IsFiniteSet(B) /\ Cardinality(B) \in Nat
         /\ Cardinality(W) = Cardinality(A) + Cardinality(B)
<1>1. IsFiniteSet(A) /\ IsFiniteSet(B)
  BY FS_Subset
<1>2. Cardinality(A) \in Nat /\ Cardinality(B) \in Nat
  BY <1>1, FS_CardinalityType
<1>3. Cardinality(A \cup B) = Cardinality(A) + Cardinality(B) - Cardinality(A \cap B)
  BY <1>1, FS_Union
<1>4. Cardinality({}) = 0
  BY FS_EmptySet
<1>5. Cardinality(W) = Cardinality(A) + Cardinality(B) - 0
  BY <1>3, <1>4
<1> QED BY <1>1, <1>2, <1>5

(* A rank is a number below the size of the set. *)
LEMMA RankBounded ==
  ASSUME NEW V, IsFiniteSet(V), NEW key, NEW x \in V, key[x] \in Int
  PROVE  Rank(V, key, x) \in 0 .. Cardinality(V)-1
<1> DEFINE below == {y \in V : key[y] < key[x]}
<1>1. below \in SUBSET V /\ x \notin below
  OBVIOUS
<1>2. /\ IsFiniteSet(below)
      /\ Cardinality(below) <= Cardinality(V)
      /\ Cardinality(below) = Cardinality(V) => below = V
  BY <1>1, FS_Subset
<1>3. Cardinality(below) \in Nat /\ Cardinality(V) \in Nat
  BY <1>2, FS_CardinalityType
<1> QED
  BY <1>1, <1>2, <1>3 DEF Rank

(* A member with a smaller key has a smaller rank. *)
LEMMA RankMonotone ==
  ASSUME NEW V, IsFiniteSet(V), NEW key, KeyOf(V, key),
         NEW x \in V, NEW y \in V, key[x] < key[y]
  PROVE  Rank(V, key, x) < Rank(V, key, y)
<1> DEFINE belowX == {z \in V : key[z] < key[x]}
           belowY == {z \in V : key[z] < key[y]}
<1>1. belowX \in SUBSET belowY /\ x \in belowY /\ x \notin belowX
  BY DEF KeyOf
<1>2. belowY \in SUBSET V
  OBVIOUS
<1>3. IsFiniteSet(belowY)
  BY <1>2, FS_Subset
<1>4. /\ IsFiniteSet(belowX)
      /\ Cardinality(belowX) <= Cardinality(belowY)
      /\ Cardinality(belowX) = Cardinality(belowY) => belowX = belowY
  BY <1>1, <1>3, FS_Subset
<1>5. Cardinality(belowX) \in Nat /\ Cardinality(belowY) \in Nat
  BY <1>3, <1>4, FS_CardinalityType
<1> QED
  BY <1>1, <1>4, <1>5 DEF Rank

(* Every number below the size of the set is the rank of one member, the   *)
(* one Nth picks.                                                          *)
THEOREM RankBijective ==
  ASSUME NEW V, IsFiniteSet(V), NEW key, KeyOf(V, key)
  PROVE  /\ Cardinality(V) \in Nat
         /\ \A x \in V : Rank(V, key, x) \in 0 .. Cardinality(V)-1
         /\ \A x, y \in V : Rank(V, key, x) = Rank(V, key, y) => x = y
         /\ \A i \in 0 .. Cardinality(V)-1 :
              Nth(V, key, i) \in V /\ Rank(V, key, Nth(V, key, i)) = i
         /\ \A x \in V : Nth(V, key, Rank(V, key, x)) = x
<1> DEFINE n == Cardinality(V)
           ranks == 0 .. n-1
           f == [x \in V |-> Rank(V, key, x)]
<1>1. n \in Nat
  BY FS_CardinalityType
<1>2. ASSUME NEW x \in V
      PROVE  Rank(V, key, x) \in ranks
  BY RankBounded DEF KeyOf
<1>3. ASSUME NEW x \in V, NEW y \in V, Rank(V, key, x) = Rank(V, key, y)
      PROVE  x = y
  <2>1. key[x] \in Int /\ key[y] \in Int
    BY DEF KeyOf
  <2>2. Rank(V, key, x) \in Int /\ Rank(V, key, y) \in Int
    BY <1>2, <1>1
  <2>3. ~ (key[x] < key[y])
    BY <1>3, <2>2, RankMonotone
  <2>4. ~ (key[y] < key[x])
    BY <1>3, <2>2, RankMonotone
  <2> QED
    BY <2>1, <2>3, <2>4 DEF KeyOf
<1>4. f \in [V -> ranks]
  BY <1>2
<1>5. f \in Injection(V, ranks)
  BY <1>3, <1>4, Fun_IsInj
<1>6. IsFiniteSet(ranks) /\ Cardinality(ranks) = n
  <2> HIDE DEF n
  <2> QED BY <1>1, FS_Interval
<1>7. f \in Surjection(V, ranks)
  BY <1>5, <1>6, FS_Injection
<1>8. \A i \in ranks : \E x \in V : Rank(V, key, x) = i
  <2>1. \A i \in ranks : \E x \in V : f[x] = i
    <3> HIDE DEF f, ranks
    <3> QED BY <1>7, Fun_SurjectionProperties
  <2> QED BY <2>1
<1>9. \A i \in ranks : Nth(V, key, i) \in V /\ Rank(V, key, Nth(V, key, i)) = i
  BY <1>8 DEF Nth
<1>10. \A x \in V : Nth(V, key, Rank(V, key, x)) = x
  BY <1>2, <1>3, <1>9
<1> QED
  BY <1>1, <1>2, <1>3, <1>9, <1>10

----------------------------------------------------------------------------
(* Counting.                                                               *)

(* Every non-empty set of naturals has a least member. *)
LEMMA LeastNatural ==
  ASSUME NEW T \in SUBSET Nat, T # {}
  PROVE  \E x \in T : \A y \in T : x <= y
<1>1. IsWellFoundedOn(OpToRel(<, Nat), Nat)
  BY NatLessThanWellFounded
<1>2. \A x, y \in Nat : x < y => <<x, y>> \in OpToRel(<, Nat)
  BY DEF OpToRel
<1>3. PICK x \in T : \A y \in T : ~ (<<y, x>> \in OpToRel(<, Nat))
  BY <1>1, WFMin
<1>4. ASSUME NEW y \in T PROVE x <= y
  <2>1. x \in Nat /\ y \in Nat
    OBVIOUS
  <2>2. ~ (y < x)
    BY <1>2, <1>3, <2>1
  <2> QED BY <2>1, <2>2
<1> QED BY <1>4

LEMMA MinIsLeast ==
  ASSUME NEW T \in SUBSET Nat, T # {}
  PROVE  Min(T) \in T /\ \A y \in T : Min(T) <= y
BY LeastNatural DEF Min

(* Induction, for a property given as the set of the numbers that have it. *)
LEMMA NatSetInduction ==
  ASSUME NEW T, 0 \in T, \A n \in Nat : n \in T => n + 1 \in T
  PROVE  Nat \subseteq T
<1> SUFFICES ASSUME Nat \ T # {} PROVE FALSE
  OBVIOUS
<1>1. PICK x \in Nat \ T : \A y \in Nat \ T : x <= y
  BY LeastNatural
<1>2. x # 0 /\ x - 1 \in Nat
  OBVIOUS
<1>3. x - 1 \in T
  BY <1>1, <1>2
<1>4. (x - 1) + 1 \in T
  BY <1>2, <1>3
<1> QED BY <1>4

(* Induction over the subsets of a finite set. *)
LEMMA SubsetInduction ==
  ASSUME NEW W, IsFiniteSet(W), NEW P, {} \in P,
         \A s \in SUBSET W : s # {} /\ (\A x \in s : s \ {x} \in P) => s \in P
  PROVE  SUBSET W \subseteq P
<1> DEFINE Sized(n) == {s \in SUBSET W : Cardinality(s) = n}
           T == {n \in Nat : Sized(n) \subseteq P}
<1>1. \A s \in SUBSET W : IsFiniteSet(s) /\ Cardinality(s) \in Nat
  BY FS_Subset, FS_CardinalityType
<1>2. 0 \in T
  <2>1. \A s \in SUBSET W : Cardinality(s) = 0 => s = {}
    BY <1>1, FS_EmptySet
  <2> QED BY <2>1
<1>3. ASSUME NEW n \in Nat, n \in T PROVE n + 1 \in T
  <2> SUFFICES ASSUME NEW s \in SUBSET W, Cardinality(s) = n + 1 PROVE s \in P
    OBVIOUS
  <2>1. s # {}
    <3>1. n + 1 # 0
      OBVIOUS
    <3>2. Cardinality({}) = 0
      BY FS_EmptySet
    <3> QED BY <3>1, <3>2
  <2>2. ASSUME NEW x \in s PROVE s \ {x} \in P
    <3>1. IsFiniteSet(s)
      BY <1>1
    <3>2. Cardinality(s \ {x}) = Cardinality(s) - 1
      BY <3>1, FS_RemoveElement
    <3>3. Cardinality(s \ {x}) = n
      BY <3>2
    <3>4. s \ {x} \in Sized(n)
      BY <3>3
    <3> QED BY <1>3, <3>4
  <2> QED BY <2>1, <2>2
<1>4. Nat \subseteq T
  <2> HIDE DEF T
  <2> QED BY <1>2, <1>3, NatSetInduction
<1> QED BY <1>1, <1>4

(* The sum of the sizes of disjoint sets is the size of their union. *)
LEMMA SumOfSizes ==
  ASSUME NEW W, IsFiniteSet(W), NEW A, NEW g,
         \A x \in W : IsFiniteSet(A[x]) /\ g[x] = Cardinality(A[x]),
         \A x, y \in W : x # y => A[x] \cap A[y] = {}
  PROVE  SumFunctionOnSet(g, W) = Cardinality(UNION {A[x] : x \in W})
<1> DEFINE pick(s) == CHOOSE x \in s : TRUE
<1>0. ASSUME NEW s, s # {} PROVE pick(s) \in s
  <2>1. \E x \in s : TRUE
    BY <1>0
  <2> QED BY <2>1
<1> DEFINE All(s) == UNION {A[x] : x \in s}
           F == [s \in SUBSET W |-> Cardinality(All(s))]
           Eq(i) == i = [s \in SUBSET W |-> IF s = {} THEN 0
                                            ELSE g[pick(s)] + i[s \ {pick(s)}]]
           iter == CHOOSE i : Eq(i)
<1>1. \A s \in SUBSET W : IsFiniteSet(All(s))
  <2> DEFINE good == {s \in SUBSET W : IsFiniteSet(All(s))}
  <2>1. {} \in good
    <3>1. All({}) = {}
      OBVIOUS
    <3> QED BY <3>1, FS_EmptySet
  <2>2. ASSUME NEW s \in SUBSET W, s # {}, \A x \in s : s \ {x} \in good
        PROVE  s \in good
    <3>0. PICK x \in s : TRUE
      BY <2>2
    <3>1. All(s) = All(s \ {x}) \cup A[x]
      OBVIOUS
    <3>2. IsFiniteSet(All(s \ {x})) /\ IsFiniteSet(A[x])
      BY <2>2
    <3>3. IsFiniteSet(All(s \ {x}) \cup A[x])
      <4> HIDE DEF All
      <4> QED BY <3>2, FS_Union
    <3> QED BY <3>1, <3>3
  <2>3. SUBSET W \subseteq good
    <3> HIDE DEF good
    <3> QED BY <2>1, <2>2, SubsetInduction
  <2> QED BY <2>3
<1>2. \A s \in SUBSET W : \A x \in s : F[s] = g[x] + F[s \ {x}]
  <2> TAKE s \in SUBSET W
  <2> TAKE x \in s
  <2>1. All(s) = A[x] \cup All(s \ {x}) /\ A[x] \cap All(s \ {x}) = {}
    OBVIOUS
  <2>2. IsFiniteSet(A[x]) /\ IsFiniteSet(All(s \ {x}))
    BY <1>1
  <2>3. Cardinality(A[x]) \in Nat /\ Cardinality(All(s \ {x})) \in Nat
    BY <2>2, FS_CardinalityType
  <2>4. Cardinality(All(s)) = Cardinality(A[x]) + Cardinality(All(s \ {x}))
    <3> HIDE DEF All
    <3>1. Cardinality(A[x] \cup All(s \ {x}))
            = Cardinality(A[x]) + Cardinality(All(s \ {x})) - Cardinality(A[x] \cap All(s \ {x}))
      BY <2>2, FS_Union
    <3>2. Cardinality(A[x] \cap All(s \ {x})) = 0
      BY <2>1, FS_EmptySet
    <3> QED BY <2>1, <2>3, <3>1, <3>2
  <2>5. s \ {x} \in SUBSET W
    OBVIOUS
  <2> QED BY <2>4, <2>5
<1>3. F[{}] = 0
  <2>1. All({}) = {}
    OBVIOUS
  <2> QED BY <2>1, FS_EmptySet
<1>4. Eq(F)
  <2>1. ASSUME NEW s \in SUBSET W
        PROVE  F[s] = IF s = {} THEN 0 ELSE g[pick(s)] + F[s \ {pick(s)}]
    <3> HIDE DEF F
    <3>1. CASE s = {}
      BY <1>3, <3>1
    <3>2. CASE s # {}
      <4>1. pick(s) \in s
        BY <1>0, <3>2
      <4> HIDE DEF pick
      <4> QED BY <1>2, <3>2, <4>1
    <3> QED BY <3>1, <3>2
  <2>2. F = [s \in SUBSET W |-> F[s]]
    OBVIOUS
  <2> HIDE DEF F, pick
  <2> QED BY <2>1, <2>2
<1>5. Eq(iter)
  <2> HIDE DEF Eq, F
  <2> QED BY <1>4
<1>6. iter[W] = F[W]
  <2> DEFINE same == {s \in SUBSET W : iter[s] = F[s]}
  <2> HIDE DEF iter, F
  <2>1. {} \in same
    BY <1>3, <1>5
  <2>2. ASSUME NEW s \in SUBSET W, s # {}, \A x \in s : s \ {x} \in same
        PROVE  s \in same
    <3>1. pick(s) \in s
      BY <1>0, <2>2
    <3> HIDE DEF pick
    <3>2. iter[s] = g[pick(s)] + iter[s \ {pick(s)}]
      BY <1>5, <2>2
    <3>3. iter[s \ {pick(s)}] = F[s \ {pick(s)}]
      BY <2>2, <3>1
    <3> QED BY <1>2, <3>1, <3>2, <3>3
  <2>3. SUBSET W \subseteq same
    <3> HIDE DEF same
    <3> QED BY <2>1, <2>2, SubsetInduction
  <2> QED BY <2>3
<1>7. SumFunctionOnSet(g, W) = iter[W]
  BY DEF SumFunctionOnSet, FoldFunctionOnSet, MapThenFoldSet
<1> QED BY <1>6, <1>7

----------------------------------------------------------------------------
(* Sums of natural numbers over a set.                                     *)

(* A sum is the size of a set: one block of g[x] members for every x.      *)
Block(g, x) == {x} \X (1 .. g[x])

LEMMA SumIsSize ==
  ASSUME NEW W, IsFiniteSet(W), NEW g, \A x \in W : g[x] \in Nat
  PROVE  /\ SumFunctionOnSet(g, W) = Cardinality(UNION {Block(g, x) : x \in W})
         /\ IsFiniteSet(UNION {Block(g, x) : x \in W})
         /\ SumFunctionOnSet(g, W) \in Nat
<1> DEFINE A == [x \in W |-> Block(g, x)]
<1>1. ASSUME NEW x \in W PROVE IsFiniteSet(A[x]) /\ g[x] = Cardinality(A[x])
  <2>1. IsFiniteSet(1 .. g[x]) /\ Cardinality(1 .. g[x]) = g[x]
    BY FS_Interval
  <2>2. IsFiniteSet({x}) /\ Cardinality({x}) = 1
    BY FS_Singleton
  <2>3. IsFiniteSet({x} \X (1 .. g[x])) /\ Cardinality({x} \X (1 .. g[x])) = 1 * g[x]
    BY <2>1, <2>2, FS_Product
  <2> QED BY <2>3 DEF Block
<1>2. \A x, y \in W : x # y => A[x] \cap A[y] = {}
  BY DEF Block
<1>3. UNION {A[x] : x \in W} = UNION {Block(g, x) : x \in W}
  OBVIOUS
<1>4. IsFiniteSet(UNION {A[x] : x \in W})
  <2> DEFINE all == {A[x] : x \in W}
  <2>1. IsFiniteSet(all)
    <3> DEFINE h == [x \in W |-> A[x]]
    <3>1. h \in Surjection(W, all)
      BY Fun_IsSurj
    <3> QED BY <3>1, FS_Surjection
  <2>2. \A T \in all : IsFiniteSet(T)
    BY <1>1
  <2> HIDE DEF all
  <2>3. IsFiniteSet(UNION all)
    BY <2>1, <2>2, FS_UNION
  <2> QED BY <2>3 DEF all
<1>5. SumFunctionOnSet(g, W) = Cardinality(UNION {A[x] : x \in W})
  <2> HIDE DEF A
  <2> QED BY <1>1, <1>2, SumOfSizes
<1> QED BY <1>3, <1>4, <1>5, FS_CardinalityType

(* Nothing adds up to 0, and one thing to itself.                          *)
LEMMA SumOfNone == ASSUME NEW g PROVE SumFunctionOnSet(g, {}) = 0
<1>1. IsFiniteSet({}) /\ Cardinality({}) = 0
  BY FS_EmptySet
<1>2. UNION {Block(g, x) : x \in {}} = {}
  OBVIOUS
<1> QED BY <1>1, <1>2, SumIsSize

LEMMA SumOfOne ==
  ASSUME NEW g, NEW x, g[x] \in Nat
  PROVE  SumFunctionOnSet(g, {x}) = g[x]
<1>1. IsFiniteSet({x}) /\ Cardinality({x}) = 1
  BY FS_Singleton
<1>2. IsFiniteSet(1 .. g[x]) /\ Cardinality(1 .. g[x]) = g[x]
  BY FS_Interval
<1>3. Cardinality({x} \X (1 .. g[x])) = 1 * g[x]
  BY <1>1, <1>2, FS_Product
<1>4. UNION {Block(g, y) : y \in {x}} = {x} \X (1 .. g[x])
  BY DEF Block
<1>5. SumFunctionOnSet(g, {x}) = Cardinality(UNION {Block(g, y) : y \in {x}})
  BY <1>1, SumIsSize
<1>6. 1 * g[x] = g[x]
  OBVIOUS
<1> QED BY <1>3, <1>4, <1>5, <1>6

(* Two disjoint sets add up apart.                                         *)
LEMMA SumOfBoth ==
  ASSUME NEW V, NEW W, IsFiniteSet(V), IsFiniteSet(W), V \cap W = {},
         NEW g, \A x \in V \cup W : g[x] \in Nat
  PROVE  SumFunctionOnSet(g, V \cup W) = SumFunctionOnSet(g, V) + SumFunctionOnSet(g, W)
<1> DEFINE A(T) == UNION {Block(g, x) : x \in T}
<1>1. IsFiniteSet(V \cup W)
  BY FS_Union
<1>2. A(V \cup W) = A(V) \cup A(W) /\ A(V) \cap A(W) = {}
  BY DEF Block
<1>3. /\ IsFiniteSet(A(V)) /\ SumFunctionOnSet(g, V) = Cardinality(A(V))
      /\ IsFiniteSet(A(W)) /\ SumFunctionOnSet(g, W) = Cardinality(A(W))
      /\ SumFunctionOnSet(g, V \cup W) = Cardinality(A(V \cup W))
      /\ SumFunctionOnSet(g, V) \in Nat /\ SumFunctionOnSet(g, W) \in Nat
  BY <1>1, SumIsSize
<1>4. Cardinality(A(V) \cap A(W)) = 0
  BY <1>2, FS_EmptySet
<1> HIDE DEF A
<1>5. Cardinality(A(V) \cup A(W)) = Cardinality(A(V)) + Cardinality(A(W)) - Cardinality(A(V) \cap A(W))
  BY <1>3, FS_Union
<1>6. Cardinality(A(V \cup W)) = Cardinality(A(V) \cup A(W))
  BY <1>2
<1>7. Cardinality(A(V)) \in Nat /\ Cardinality(A(W)) \in Nat
  BY <1>3
<1>8. Cardinality(A(V)) + Cardinality(A(W)) - 0 = Cardinality(A(V)) + Cardinality(A(W))
  BY <1>7
<1> QED BY <1>3, <1>4, <1>5, <1>6, <1>8

(* Functions that agree on a set have one sum over it.                     *)
LEMMA SumOfSame ==
  ASSUME NEW W, IsFiniteSet(W), NEW g, NEW h, \A x \in W : g[x] \in Nat /\ g[x] = h[x]
  PROVE  SumFunctionOnSet(g, W) = SumFunctionOnSet(h, W)
<1>1. UNION {Block(g, x) : x \in W} = UNION {Block(h, x) : x \in W}
  BY DEF Block
<1> QED BY <1>1, SumIsSize

(* Two functions add up apart. *)
LEMMA SumsAdd ==
  ASSUME NEW W, IsFiniteSet(W), NEW f, NEW g, NEW h,
         \A x \in W : f[x] \in Nat /\ g[x] \in Nat /\ h[x] = f[x] + g[x]
  PROVE  SumFunctionOnSet(h, W) = SumFunctionOnSet(f, W) + SumFunctionOnSet(g, W)
<1> DEFINE Adds(s) == SumFunctionOnSet(h, s) = SumFunctionOnSet(f, s) + SumFunctionOnSet(g, s)
           good == {s \in SUBSET W : Adds(s)}
<1>1. {} \in good
  <2>1. SumFunctionOnSet(h, {}) = 0 /\ SumFunctionOnSet(f, {}) = 0 /\ SumFunctionOnSet(g, {}) = 0
    BY SumOfNone
  <2> QED BY <2>1
<1>2. ASSUME NEW s \in SUBSET W, s # {}, \A x \in s : s \ {x} \in good
      PROVE  s \in good
  <2>1. PICK x \in s : TRUE
    BY <1>2
  <2> DEFINE r == s \ {x}
  <2>2. s = r \cup {x} /\ r \cap {x} = {} /\ r \in SUBSET W /\ x \in W
    BY <2>1
  <2>3. IsFiniteSet(r) /\ IsFiniteSet({x})
    <3>1. {x} \in SUBSET W
      BY <2>2
    <3> QED BY <2>2, <3>1, FS_Subset
  <2>4. Adds(r)
    BY <1>2, <2>1
  <2>5. \A y \in r \cup {x} : f[y] \in Nat /\ g[y] \in Nat /\ h[y] \in Nat /\ h[y] = f[y] + g[y]
    BY <2>2
  <2> HIDE DEF r, good
  <2>6. /\ SumFunctionOnSet(h, r \cup {x}) = SumFunctionOnSet(h, r) + SumFunctionOnSet(h, {x})
        /\ SumFunctionOnSet(f, r \cup {x}) = SumFunctionOnSet(f, r) + SumFunctionOnSet(f, {x})
        /\ SumFunctionOnSet(g, r \cup {x}) = SumFunctionOnSet(g, r) + SumFunctionOnSet(g, {x})
    BY <2>2, <2>3, <2>5, SumOfBoth
  <2>7. /\ SumFunctionOnSet(h, {x}) = h[x] /\ SumFunctionOnSet(f, {x}) = f[x]
        /\ SumFunctionOnSet(g, {x}) = g[x]
    BY <2>5, SumOfOne
  <2>8. SumFunctionOnSet(f, r) \in Nat /\ SumFunctionOnSet(g, r) \in Nat
    BY <2>3, <2>5, SumIsSize
  <2>9. f[x] \in Nat /\ g[x] \in Nat /\ h[x] = f[x] + g[x]
    BY <2>5
  <2>10. Adds(s)
    BY <2>2, <2>4, <2>6, <2>7, <2>8, <2>9
  <2> QED BY <2>10 DEF good
<1>3. SUBSET W \subseteq good
  <2> HIDE DEF good
  <2> QED BY <1>1, <1>2, SubsetInduction
<1> QED BY <1>3

----------------------------------------------------------------------------
(* Division.                                                               *)

LEMMA QuotientBounds ==
  ASSUME NEW a \in Nat, NEW b \in Nat \ {0}
  PROVE  a \div b \in Nat /\ (a \div b) * b <= a /\ a < (a \div b + 1) * b
OBVIOUS

LEMMA ProductMonotone ==
  ASSUME NEW a \in Nat, NEW b \in Nat, NEW c \in Nat, a <= b
  PROVE  a * c <= b * c
OBVIOUS
============================================================================
