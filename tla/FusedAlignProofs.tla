-------------------------- MODULE FusedAlignProofs --------------------------
(***************************************************************************)
(* Proofs about FusedAlign, for any table, any batch, any block size and   *)
(* any number of threads: both alignments of a launch are those of vllm's  *)
(* kernel for the tables the launch's manager left.                        *)
(*                                                                         *)
(* The first positions of the buckets climb like stairs, one step for each *)
(* bucket, as high as its padded count (Climbing).  So a position belongs  *)
(* to one bucket, and a block, which starts at a multiple of the block     *)
(* size, to that of all its positions.  Whether the tokens are placed at   *)
(* once or one at a time, those placed stand in the first positions of     *)
(* their buckets, each at one (Laid); when all are, what is left of a      *)
(* bucket is less than a block.                                            *)
(***************************************************************************)
EXTENDS FusedAlign, ExpertCacheProofs

----------------------------------------------------------------------------
(* Stairs: a function that starts at 0 and never descends.                 *)

Stairs(g, n) ==
  /\ g[0] = 0
  /\ \A b \in 0 .. n : g[b] \in Nat
  /\ \A b \in 0 .. n-1 : g[b] <= g[b + 1]

LEMMA StairsClimb ==
  ASSUME NEW n \in Nat, NEW g, Stairs(g, n)
  PROVE  \A c \in 0 .. n : \A b \in 0 .. c : g[b] <= g[c]
<1> DEFINE T == {c \in Nat : c <= n => \A b \in 0 .. c : g[b] <= g[c]}
<1>1. 0 \in T
  BY DEF Stairs
<1>2. ASSUME NEW c \in Nat, c \in T PROVE c + 1 \in T
  <2>1. SUFFICES ASSUME c + 1 <= n, NEW b \in 0 .. c + 1 PROVE g[b] <= g[c + 1]
    OBVIOUS
  <2>2. g[c] <= g[c + 1] /\ g[c] \in Nat /\ g[c + 1] \in Nat /\ g[b] \in Nat
    BY <2>1 DEF Stairs
  <2>3. CASE b = c + 1
    BY <2>2, <2>3
  <2>4. CASE b \in 0 .. c
    <3>1. g[b] <= g[c]
      BY <1>2, <2>1, <2>4
    <3> QED BY <2>2, <3>1
  <2> QED BY <2>3, <2>4
<1> HIDE DEF T
<1>3. Nat \subseteq T
  BY <1>1, <1>2, NatSetInduction
<1> QED BY <1>3 DEF T

(* Everything below the top lies on one step, and on one only.             *)
LEMMA StairsCover ==
  ASSUME NEW n \in Nat, NEW g, Stairs(g, n), NEW p \in Nat, p < g[n]
  PROVE  \E b \in 0 .. n-1 : g[b] <= p /\ p < g[b + 1]
<1> DEFINE T == {c \in Nat : c <= n /\ p < g[c] =>
                               \E b \in 0 .. c-1 : g[b] <= p /\ p < g[b + 1]}
<1>1. 0 \in T
  BY DEF Stairs
<1>2. ASSUME NEW c \in Nat, c \in T PROVE c + 1 \in T
  <2>1. SUFFICES ASSUME c + 1 <= n, p < g[c + 1]
                 PROVE  \E b \in 0 .. c : g[b] <= p /\ p < g[b + 1]
    OBVIOUS
  <2>2. g[c] \in Nat
    BY <2>1 DEF Stairs
  <2>3. CASE p < g[c]
    <3>1. PICK b \in 0 .. c-1 : g[b] <= p /\ p < g[b + 1]
      BY <1>2, <2>1, <2>3
    <3>2. b \in 0 .. c
      OBVIOUS
    <3> QED BY <3>1, <3>2
  <2>4. CASE g[c] <= p
    <3>1. c \in 0 .. c
      OBVIOUS
    <3> QED BY <2>1, <2>4, <3>1
  <2> QED BY <2>2, <2>3, <2>4
<1> HIDE DEF T
<1>3. Nat \subseteq T
  BY <1>1, <1>2, NatSetInduction
<1> QED BY <1>3 DEF T

LEMMA StairsApart ==
  ASSUME NEW n \in Nat, NEW g, Stairs(g, n), NEW b \in 0 .. n-1, NEW c \in 0 .. n-1,
         NEW p \in Int, g[b] <= p, p < g[b + 1], g[c] <= p, p < g[c + 1]
  PROVE  b = c
<1>1. \A x \in 0 .. n : g[x] \in Nat
  BY DEF Stairs
<1>2. \A y \in 0 .. n : \A x \in 0 .. y : g[x] <= g[y]
  BY StairsClimb
<1>3. CASE b < c
  <2>1. g[b + 1] <= g[c]
    BY <1>2, <1>3
  <2> QED BY <1>1, <2>1
<1>4. CASE c < b
  <2>1. g[c + 1] <= g[b]
    BY <1>2, <1>4
  <2> QED BY <1>1, <2>1
<1> QED BY <1>3, <1>4

----------------------------------------------------------------------------
(* Whole blocks.                                                           *)

Whole(x) == \E q \in Nat : x = q * BS

LEMMA ProductOrder ==
  ASSUME NEW a \in Int, NEW b \in Int, NEW c \in Nat \ {0}
  PROVE  /\ a < b <=> a * c < b * c
         /\ a <= b <=> a * c <= b * c
<1>1. ASSUME a < b PROVE a * c < b * c
  <2>1. b = a + (b - a) /\ b - a >= 1
    BY <1>1
  <2>2. (b - a) * c >= c
    BY <2>1
  <2>3. b * c = a * c + (b - a) * c
    OBVIOUS
  <2>4. (b - a) * c \in Int /\ a * c \in Int /\ b * c \in Int
    OBVIOUS
  <2> QED BY <2>2, <2>3, <2>4
<1>2. ASSUME b < a PROVE b * c < a * c
  <2>1. a - b >= 1
    BY <1>2
  <2>2. (a - b) * c >= c
    BY <2>1
  <2>3. a * c = b * c + (a - b) * c
    OBVIOUS
  <2>4. (a - b) * c \in Int /\ a * c \in Int /\ b * c \in Int
    OBVIOUS
  <2> QED BY <2>2, <2>3, <2>4
<1>3. a * c \in Int /\ b * c \in Int
  OBVIOUS
<1> QED BY <1>1, <1>2, <1>3

LEMMA WholeSum ==
  ASSUME NEW x, NEW y, Whole(x), Whole(y)
  PROVE  Whole(x + y)
<1>1. PICK q \in Nat : x = q * BS
  BY DEF Whole
<1>2. PICK r \in Nat : y = r * BS
  BY DEF Whole
<1>3. BS \in Nat
  BY AlignAssumption
<1>4. x + y = (q + r) * BS
  BY <1>1, <1>2, <1>3
<1> QED BY <1>4 DEF Whole

LEMMA RemainderOfWhole ==
  ASSUME NEW q \in Nat, NEW b \in Nat \ {0}
  PROVE  (q * b) % b = 0
<1>1. q * b \in Nat
  OBVIOUS
<1>2. q * b = (b * ((q * b) \div b)) + ((q * b) % b) /\ ((q * b) % b) \in 0 .. b-1
  BY <1>1
<1>3. (q * b) \div b = q
  <2>1. (q * b) \div b \in Nat /\ ((q * b) \div b) * b <= q * b /\ q * b < ((q * b) \div b + 1) * b
    BY <1>1, QuotientBounds
  <2> QED BY <2>1, ProductOrder
<1> QED BY <1>1, <1>2, <1>3

(* The block of a position stays on its side of a block boundary.          *)
LEMMA WholeBlocks ==
  ASSUME NEW x, Whole(x)
  PROVE  /\ x \in Nat /\ x % BS = 0 /\ x \div BS \in Nat /\ (x \div BS) * BS = x
         /\ \A k \in Int : (k < x \div BS <=> k * BS < x) /\ (k >= x \div BS <=> x <= k * BS)
         /\ \A p \in Nat : /\ x <= p <=> x <= (p \div BS) * BS
                           /\ p < x <=> (p \div BS) * BS < x
<1>1. PICK q \in Nat : x = q * BS
  BY DEF Whole
<1>2. BS \in Nat \ {0}
  BY AlignAssumption
<1>3. x \in Nat
  BY <1>1, <1>2
<1>4. x \div BS \in Nat /\ (x \div BS) * BS <= x /\ x < (x \div BS + 1) * BS
  BY <1>2, <1>3, QuotientBounds
<1>5. x \div BS = q
  <2>1. x \div BS <= q
    BY <1>1, <1>2, <1>4, ProductOrder
  <2>2. q < x \div BS + 1
    BY <1>1, <1>2, <1>4, ProductOrder
  <2> QED BY <1>4, <2>1, <2>2
<1>6. x % BS = 0
  BY <1>1, <1>2, RemainderOfWhole
<1>7. \A k \in Int : (k < q <=> k * BS < x) /\ (k >= q <=> x <= k * BS)
  BY <1>1, <1>2, ProductOrder
<1>8. ASSUME NEW p \in Nat
      PROVE  /\ x <= p <=> x <= (p \div BS) * BS
             /\ p < x <=> (p \div BS) * BS < x
  <2> DEFINE k == p \div BS
  <2>1. k \in Nat /\ k * BS <= p /\ p < (k + 1) * BS
    BY <1>2, QuotientBounds
  <2>2. x <= p => q < k + 1
    BY <1>1, <1>2, <2>1, ProductOrder
  <2>3. x <= p => x <= k * BS
    BY <1>7, <2>1, <2>2
  <2>4. k * BS \in Nat
    BY <1>2, <2>1
  <2> QED BY <1>3, <2>1, <2>3, <2>4
<1> QED BY <1>1, <1>3, <1>4, <1>5, <1>6, <1>7, <1>8

(* Padding makes whole blocks: less than one block more, and none of       *)
(* nothing.                                                                *)
LEMMA PaddedWhole ==
  ASSUME NEW c \in Nat
  PROVE  /\ Whole(Padded(c)) /\ Padded(c) \in Nat
         /\ c <= Padded(c) /\ Padded(c) <= c + BS - 1 /\ Padded(c) <= c * BS
<1> DEFINE q == (c + BS - 1) \div BS
<1>1. BS \in Nat \ {0} /\ c + BS - 1 \in Nat
  BY AlignAssumption
<1>2. q \in Nat /\ q * BS <= c + BS - 1 /\ c + BS - 1 < (q + 1) * BS
  BY <1>1, QuotientBounds
<1>3. Padded(c) = q * BS
  BY DEF Padded
<1>4. q * BS \in Nat /\ (q + 1) * BS = q * BS + BS
  BY <1>1, <1>2
<1>5. q < c + 1
  <2>1. c + BS - 1 < (c + 1) * BS
    <3>1. (c + 1) * BS = c * BS + BS
      BY <1>1
    <3>2. c <= c * BS /\ c * BS \in Nat
      BY <1>1, ProductMonotone
    <3> QED BY <1>1, <3>1, <3>2
  <2>2. q * BS < (c + 1) * BS
    BY <1>1, <1>2, <1>4, <2>1
  <2> QED BY <1>1, <1>2, <2>2, ProductOrder
<1>6. q * BS <= c * BS
  BY <1>1, <1>2, <1>5, ProductOrder
<1> QED BY <1>1, <1>2, <1>3, <1>4, <1>6 DEF Whole

----------------------------------------------------------------------------
(* Tokens and buckets.                                                     *)

IdsOK == ids \in Seq(Int) /\ ids # <<>>

LEMMA TokenSets ==
  ASSUME IdsOK
  PROVE  /\ MK \in Nat \ {0} /\ IsFiniteSet(Tokens) /\ Cardinality(Tokens) = MK
         /\ \A X \in SUBSET Tokens : /\ IsFiniteSet(X) /\ Cardinality(X) \in Nat
                                     /\ Cardinality(X) <= MK
         /\ \A i \in Tokens : Expert(i) \in Int
<1>1. MK \in Nat \ {0}
  BY DEF IdsOK, MK
<1>2. IsFiniteSet(Tokens) /\ Cardinality(Tokens) = MK
  <2>1. IsFiniteSet(0 .. MK-1) /\ Cardinality(0 .. MK-1) = MK
    BY <1>1, FS_Interval
  <2> QED BY <2>1 DEF Tokens
<1>3. \A X \in SUBSET Tokens : /\ IsFiniteSet(X) /\ Cardinality(X) \in Nat
                               /\ Cardinality(X) <= MK
  BY <1>2, FS_Subset, FS_CardinalityType
<1>4. \A i \in Tokens : Expert(i) \in Int
  BY <1>1 DEF Tokens, Expert, IdsOK, MK
<1> QED BY <1>1, <1>2, <1>3, <1>4

LEMMA SideSizes ==
  ASSUME NEW side \in Sides
  PROVE  /\ Size(side) \in Nat /\ Size(side) <= E /\ Buckets[side] = 0 .. Size(side)-1
         /\ IsFiniteSet(Buckets[side])
<1>1. /\ Size(side) \in Nat /\ Size(side) <= E /\ Buckets[side] = 0 .. Size(side)-1
  BY CacheAssumption DEF Sides, Size, Buckets, Slots, Experts
<1> QED BY <1>1, FS_Interval

(* A token the grouped GEMMs compute with belongs to one bucket.           *)
LEMMA Belonging ==
  ASSUME TypeOK, IdsOK
  PROVE  /\ \A i \in Tokens : Valid(i) => /\ SideOf(i) \in Sides
                                          /\ BucketOf(i) \in Buckets[SideOf(i)]
                                          /\ i \in In(SideOf(i), BucketOf(i))
         /\ \A side, b : In(side, b) \in SUBSET Tokens
         /\ \A side, b : \A i \in In(side, b) :
              Valid(i) /\ SideOf(i) = side /\ BucketOf(i) = b
<1>1. ASSUME NEW i \in Tokens, Valid(i)
      PROVE  SideOf(i) \in Sides /\ BucketOf(i) \in Buckets[SideOf(i)]
  <2>1. Expert(i) \in Experts
    BY <1>1 DEF Valid, Expert
  <2> QED BY <2>1 DEF SideOf, BucketOf, Sides, Buckets
<1> QED BY <1>1 DEF In

(* The first positions of the buckets, once they are known.                *)
Climbing ==
  \A side \in Sides :
    /\ cum[side][0] = 0 /\ npad[side] = cum[side][Size(side)]
    /\ \A b \in Buckets[side] :
         /\ cum[side][b] \in Nat
         /\ cum[side][b + 1] = cum[side][b] + Padded(Cardinality(In(side, b)))

LEMMA Positions ==
  ASSUME TypeOK, IdsOK, Climbing, NEW side \in Sides
  PROVE  /\ Stairs(cum[side], Size(side))
         /\ \A b \in 0 .. Size(side) : Whole(cum[side][b])
         /\ npad[side] \in Nat /\ npad[side] <= L
         /\ \A b \in Buckets[side] :
              /\ b \in 0 .. Size(side)-1
              /\ Cardinality(In(side, b)) \in Nat
              /\ cum[side][b] \in Nat /\ cum[side][b + 1] \in Nat
              /\ cum[side][b] + Cardinality(In(side, b)) <= cum[side][b + 1]
              /\ cum[side][b + 1] <= npad[side]
<1> DEFINE n == Size(side)
           g == cum[side]
           size(b) == Cardinality(In(side, b))
           Before(b) == {i \in Tokens : Valid(i) /\ SideOf(i) = side /\ BucketOf(i) < b}
           T == {b \in Nat : b <= n =>
                   /\ Whole(g[b])
                   /\ g[b] <= Cardinality(Before(b)) * BS
                   /\ g[b] <= Cardinality(Before(b)) + b * (BS - 1)}
<1>1. n \in Nat /\ n <= E /\ Buckets[side] = 0 .. n-1 /\ BS \in Nat \ {0} /\ E \in Nat
  BY SideSizes, AlignAssumption, CacheAssumption
<1>2. /\ g[0] = 0 /\ npad[side] = g[n]
      /\ \A b \in 0 .. n-1 : g[b] \in Nat /\ g[b + 1] = g[b] + Padded(size(b))
  BY <1>1 DEF Climbing
<1>3. ASSUME NEW b PROVE size(b) \in Nat /\ Before(b) \in SUBSET Tokens
                         /\ Cardinality(Before(b)) \in Nat /\ Cardinality(Before(b)) <= MK
  BY TokenSets, Belonging
<1>4. \A b \in 0 .. n-1 : /\ Whole(Padded(size(b))) /\ Padded(size(b)) \in Nat
                          /\ size(b) <= Padded(size(b))
                          /\ Padded(size(b)) <= size(b) + BS - 1
                          /\ Padded(size(b)) <= size(b) * BS
  BY <1>3, PaddedWhole
<1>5. 0 \in T
  <2>1. Whole(0)
    <3>1. 0 \in Nat /\ 0 = 0 * BS
      BY <1>1
    <3> QED BY <3>1 DEF Whole
  <2>2. 0 <= Cardinality(Before(0)) * BS /\ 0 <= Cardinality(Before(0)) + 0 * (BS - 1)
    <3> HIDE DEF Before
    <3> QED BY <1>1, <1>3
  <2> QED BY <1>2, <2>1, <2>2
<1>6. ASSUME NEW b \in Nat, b \in T PROVE b + 1 \in T
  <2>1. SUFFICES ASSUME b + 1 <= n
                 PROVE  /\ Whole(g[b + 1])
                        /\ g[b + 1] <= Cardinality(Before(b + 1)) * BS
                        /\ g[b + 1] <= Cardinality(Before(b + 1)) + (b + 1) * (BS - 1)
    OBVIOUS
  <2>2. b \in 0 .. n-1
    BY <1>1, <2>1
  <2>3. Cardinality(Before(b + 1)) = Cardinality(Before(b)) + size(b)
    <3>1. \A i \in Tokens : Valid(i) /\ SideOf(i) = side => BucketOf(i) \in Nat
      BY <1>1, Belonging
    <3>2. Before(b + 1) = Before(b) \cup In(side, b) /\ Before(b) \cap In(side, b) = {}
      BY <3>1 DEF In
    <3>3. IsFiniteSet(Before(b + 1))
      BY <1>3, TokenSets
    <3> HIDE DEF Before
    <3> QED BY <3>2, <3>3, SplitSize
  <2> DEFINE c == Cardinality(Before(b))  d == Cardinality(Before(b + 1))
  <2> HIDE DEF Before
  <2>4. g[b] \in Nat /\ g[b + 1] = g[b] + Padded(size(b)) /\ c \in Nat /\ d = c + size(b)
        /\ size(b) \in Nat
    BY <1>2, <1>3, <2>2, <2>3
  <2>5. b <= n
    BY <1>1, <2>1
  <2>6. Whole(g[b]) /\ g[b] <= c * BS /\ g[b] <= c + b * (BS - 1)
    BY <1>6, <2>5
  <2>7. /\ Whole(Padded(size(b))) /\ Padded(size(b)) \in Nat
        /\ Padded(size(b)) <= size(b) + BS - 1
        /\ Padded(size(b)) <= size(b) * BS
    BY <1>4, <2>2
  <2> DEFINE w == Padded(size(b))  z == size(b)
  <2> HIDE DEF c, d, w, z
  <2>8. Whole(g[b + 1])
    BY <2>4, <2>6, <2>7, WholeSum
  <2>9. g[b] \in Nat /\ g[b + 1] = g[b] + w /\ c \in Nat /\ d = c + z /\ z \in Nat
        /\ w \in Nat /\ w <= z + BS - 1 /\ w <= z * BS
    BY <2>4, <2>7 DEF w, z
  <2>10. g[b + 1] <= d * BS
    <3>1. d * BS = c * BS + z * BS /\ c * BS \in Nat /\ z * BS \in Nat
      BY <1>1, <2>9
    <3> QED BY <2>6, <2>9, <3>1
  <2>11. g[b + 1] <= d + (b + 1) * (BS - 1)
    <3>1. (b + 1) * (BS - 1) = b * (BS - 1) + (BS - 1) /\ b * (BS - 1) \in Int
      BY <1>1
    <3> QED BY <1>1, <2>6, <2>9, <3>1
  <2> QED BY <2>8, <2>10, <2>11 DEF d
<1>7. \A b \in 0 .. n : b \in T
  <2> HIDE DEF T
  <2> QED BY <1>1, <1>5, <1>6, NatSetInduction
<1>8. ASSUME NEW b \in 0 .. n
      PROVE  /\ Whole(g[b]) /\ g[b] \in Nat
             /\ g[b] <= Cardinality(Before(b)) * BS
             /\ g[b] <= Cardinality(Before(b)) + b * (BS - 1)
  <2> HIDE DEF Before
  <2>1. /\ Whole(g[b])
        /\ g[b] <= Cardinality(Before(b)) * BS
        /\ g[b] <= Cardinality(Before(b)) + b * (BS - 1)
    BY <1>1, <1>7
  <2> QED BY <2>1, WholeBlocks
<1>9. Stairs(g, n)
  <2>1. \A b \in 0 .. n : g[b] \in Nat
    BY <1>8
  <2>2. ASSUME NEW b \in 0 .. n-1 PROVE g[b] <= g[b + 1]
    <3>1. g[b] \in Nat /\ g[b + 1] = g[b] + Padded(size(b)) /\ Padded(size(b)) \in Nat
      BY <1>2, <1>4
    <3> QED BY <3>1
  <2> QED BY <1>2, <2>1, <2>2 DEF Stairs
<1>10. npad[side] \in Nat /\ npad[side] <= L
  <2> DEFINE c == Cardinality(Before(n))
  <2> HIDE DEF Before, T
  <2>1. g[n] <= c * BS /\ g[n] <= c + n * (BS - 1) /\ g[n] \in Nat /\ c \in Nat /\ c <= MK
        /\ MK \in Nat
    BY <1>1, <1>3, <1>8, TokenSets
  <2> HIDE DEF c
  <2>2. c * BS <= MK * BS /\ c * BS \in Nat /\ MK * BS \in Nat
    BY <1>1, <2>1, ProductMonotone
  <2>3. n * (BS - 1) <= E * (BS - 1) /\ n * (BS - 1) \in Nat /\ E * (BS - 1) \in Nat
    BY <1>1, ProductMonotone
  <2>4. g[n] <= MK * BS /\ g[n] <= MK + E * (BS - 1)
    BY <2>1, <2>2, <2>3
  <2> QED BY <1>2, <2>1, <2>2, <2>3, <2>4 DEF L, Lesser
<1>11. ASSUME NEW b \in Buckets[side]
       PROVE  /\ b \in 0 .. Size(side)-1
              /\ Cardinality(In(side, b)) \in Nat
              /\ cum[side][b] \in Nat /\ cum[side][b + 1] \in Nat
              /\ cum[side][b] + Cardinality(In(side, b)) <= cum[side][b + 1]
              /\ cum[side][b + 1] <= npad[side]
  <2>1. b \in 0 .. n-1 /\ b + 1 \in 0 .. n /\ n \in 0 .. n
    BY <1>1
  <2>2. g[b + 1] <= g[n]
    BY <1>1, <1>9, <2>1, StairsClimb
  <2>3. size(b) \in Nat /\ Padded(size(b)) \in Nat /\ size(b) <= Padded(size(b))
    BY <1>3, <1>4, <2>1
  <2>4. g[b] \in Nat /\ g[b + 1] \in Nat /\ g[b + 1] = g[b] + Padded(size(b))
    BY <1>2, <1>8, <2>1
  <2> QED BY <1>2, <2>1, <2>2, <2>3, <2>4
<1> QED BY <1>8, <1>9, <1>10, <1>11

----------------------------------------------------------------------------
(* The inductive invariant: what each phase finds.                         *)

Cleared ==
  /\ phase \in {"count", "scan", "expert_ids", "place", "cursors"} =>
       /\ sorted_ids = [side \in Sides |-> [p \in 0 .. L-1 |-> Sentinel]]
       /\ placed = {}
  /\ phase \in {"count", "scan", "expert_ids"} =>
       expert_ids = [side \in Sides |-> [k \in 0 .. NB-1 |-> None]]

Counted ==
  phase = "scan" =>
    cnt = [side \in Sides |-> [b \in Buckets[side] |-> Cardinality(In(side, b))]]

Climbed == phase \in {"expert_ids", "place", "cursors", "draw", "retired"} => Climbing

(* The blocks of a bucket carry it, and those past the end nothing.        *)
Carried ==
  \A side \in Sides : \A k \in 0 .. NB-1 :
    /\ \A b \in Buckets[side] :
         cum[side][b] <= k * BS /\ k * BS < cum[side][b + 1] => expert_ids[side][k] = b
    /\ npad[side] <= k * BS => expert_ids[side][k] = None

Named == phase \in {"place", "cursors", "draw", "retired"} => Carried

(* The tokens of P stand in the first positions of their buckets.          *)
Laid(P) ==
  \A side \in Sides :
    /\ \A p \in 0 .. L-1 : sorted_ids[side][p] # Sentinel =>
         \E b \in Buckets[side] :
           /\ sorted_ids[side][p] \in In(side, b) \cap P
           /\ cum[side][b] <= p /\ p < cum[side][b] + Cardinality(In(side, b) \cap P)
    /\ \A b \in Buckets[side] : \A i \in In(side, b) \cap P :
         \E p \in 0 .. L-1 : sorted_ids[side][p] = i
    /\ \A p, q \in 0 .. L-1 :
         sorted_ids[side][p] # Sentinel /\ sorted_ids[side][p] = sorted_ids[side][q] => p = q

Drawing ==
  phase = "draw" =>
    /\ placed \in SUBSET Tokens /\ Laid(placed)
    /\ sorted_ids \in [Sides -> [0 .. L-1 -> Int]]
    /\ cnt = [side \in Sides |-> [b \in Buckets[side] |->
                cum[side][b] + Cardinality(In(side, b) \cap placed)]]

AllLaid == phase = "retired" => Laid(Tokens)

(* Up to NT tokens, every token stands behind the matching ones before it. *)
InOrder ==
  /\ phase \in {"cursors", "draw"} => MK > NT
  /\ phase = "retired" /\ MK <= NT =>
       \A side \in Sides : \A p \in 0 .. L-1 : \A i \in Tokens :
         sorted_ids[side][p] = i => p = Position(i)

AlignIInv ==
  /\ CacheInv /\ IdsOK
  /\ Cleared /\ Counted /\ Climbed /\ Named /\ Drawing /\ AllLaid /\ InOrder

(* What is said of the tokens stays true while ids and table stay.         *)
LEMMA Retained ==
  ASSUME UNCHANGED <<table, ids>>
  PROVE  /\ MK' = MK /\ Tokens' = Tokens /\ L' = L /\ NB' = NB /\ Sentinel' = Sentinel
         /\ \A side, b : In(side, b)' = In(side, b)
         /\ IdsOK <=> IdsOK'
<1>1. MK' = MK
  BY DEF MK
<1>2. /\ Tokens' = Tokens /\ L' = L /\ NB' = NB /\ Sentinel' = Sentinel
  BY <1>1 DEF Tokens, L, NB, Sentinel
<1>3. \A side, b : In(side, b)' = In(side, b)
  BY <1>2 DEF In, Valid, SideOf, BucketOf, Expert
<1>4. IdsOK <=> IdsOK'
  BY DEF IdsOK
<1> QED BY <1>1, <1>2, <1>3, <1>4

LEMMA CacheRetained == ASSUME CacheInv, UNCHANGED lruVars PROVE CacheInv' /\ UNCHANGED table
BY DEF lruVars, CacheInv, TypeOK, Complementary, TableInverse, AlwaysFull, StampsPast

LEMMA AlignStarts == AlignInit => AlignIInv
<1> SUFFICES ASSUME AlignInit PROVE AlignIInv
  OBVIOUS
<1>1. CacheInv /\ phase = "idle"
  BY InitCacheInv DEF AlignInit
<1>2. PICK a \in TopkIds : ids = [i \in 1 .. Len(a) |-> 0]
  BY DEF AlignInit
<1>3. IdsOK
  <2>1. a \in Seq(Int) /\ a # <<>>
    BY AlignAssumption
  <2>2. Len(a) \in Nat /\ Len(a) # 0
    BY <2>1
  <2>3. ids \in Seq(Int) /\ Len(ids) = Len(a)
    BY <1>2, <2>2
  <2> QED BY <2>2, <2>3 DEF IdsOK
<1> QED
  BY <1>1, <1>3 DEF AlignIInv, Cleared, Counted, Climbed, Named, Drawing, AllLaid, InOrder

LEMMA ManageAligns == ASSUME AlignIInv, RunManager PROVE AlignIInv'
<1>1. PICK R \in SUBSET Experts : Launch(R)
  BY DEF RunManager
<1>2. CacheInv'
  BY <1>1, QuietInv, InsertInv DEF AlignIInv, Launch
<1>3. IdsOK'
  BY AlignAssumption DEF RunManager, IdsOK
<1>4. phase' = "clear"
  BY DEF RunManager
<1> QED
  BY <1>2, <1>3, <1>4 DEF AlignIInv, Cleared, Counted, Climbed, Named, Drawing, AllLaid, InOrder

LEMMA ClearAligns == ASSUME AlignIInv, Clear PROVE AlignIInv'
<1>1. CacheInv' /\ UNCHANGED <<table, ids>> /\ phase' = "count"
  BY CacheRetained DEF AlignIInv, Clear
<1>2. IdsOK'
  BY <1>1, Retained DEF AlignIInv
<1>3. Cleared'
  BY <1>1, Retained DEF Clear, Cleared
<1> QED
  BY <1>1, <1>2, <1>3 DEF AlignIInv, Counted, Climbed, Named, Drawing, AllLaid, InOrder

LEMMA CountAligns == ASSUME AlignIInv, CountTokens PROVE AlignIInv'
<1>1. CacheInv' /\ UNCHANGED <<table, ids>> /\ phase = "count" /\ phase' = "scan"
  BY CacheRetained DEF AlignIInv, CountTokens
<1>2. IdsOK'
  BY <1>1, Retained DEF AlignIInv
<1>3. Cleared'
  BY <1>1, Retained DEF AlignIInv, CountTokens, Cleared
<1>4. Counted'
  BY <1>1, Retained DEF CountTokens, Counted
<1> QED
  BY <1>1, <1>2, <1>3, <1>4 DEF AlignIInv, Climbed, Named, Drawing, AllLaid, InOrder

(* The scan adds up the padded counts of the buckets before.               *)
LEMMA ScanClimbs ==
  ASSUME TypeOK, IdsOK, NEW side \in Sides,
         cnt = [d \in Sides |-> [b \in Buckets[d] |-> Cardinality(In(d, b))]]
  PROVE  /\ PaddedBefore(side, 0) = 0
         /\ \A b \in Buckets[side] :
              /\ PaddedBefore(side, b) \in Nat
              /\ PaddedBefore(side, b + 1)
                   = PaddedBefore(side, b) + Padded(Cardinality(In(side, b)))
<1> DEFINE g == [c \in Buckets[side] |-> Padded(cnt[side][c])]
           Below(b) == {c \in Buckets[side] : c < b}
<1>1. \A b : PaddedBefore(side, b) = SumFunctionOnSet(g, Below(b))
  BY DEF PaddedBefore
<1>2. IsFiniteSet(Buckets[side]) /\ Buckets[side] = 0 .. Size(side)-1 /\ Size(side) \in Nat
  BY SideSizes
<1>3. \A b \in Buckets[side] : g[b] = Padded(Cardinality(In(side, b))) /\ g[b] \in Nat
  <2>1. \A b : Cardinality(In(side, b)) \in Nat
    BY TokenSets, Belonging
  <2> QED BY <2>1, PaddedWhole
<1>4. Below(0) = {}
  BY <1>2
<1>5. ASSUME NEW b \in Buckets[side]
      PROVE  /\ IsFiniteSet(Below(b)) /\ IsFiniteSet({b}) /\ b \notin Below(b)
             /\ Below(b + 1) = Below(b) \cup {b} /\ Below(b) \cup {b} \subseteq Buckets[side]
  BY <1>2, FS_Subset, FS_Singleton
<1> HIDE DEF g, Below
<1>6. PaddedBefore(side, 0) = 0
  BY <1>1, <1>4, SumOfNone
<1>7. ASSUME NEW b \in Buckets[side]
      PROVE  /\ PaddedBefore(side, b) \in Nat
             /\ PaddedBefore(side, b + 1)
                  = PaddedBefore(side, b) + Padded(Cardinality(In(side, b)))
  <2>1. \A x \in Below(b) \cup {b} : g[x] \in Nat
    BY <1>3, <1>5
  <2>2. SumFunctionOnSet(g, Below(b)) \in Nat
    BY <1>5, <2>1, SumIsSize
  <2>3. SumFunctionOnSet(g, {b}) = g[b]
    BY <1>3, SumOfOne
  <2>4. Below(b) \cap {b} = {}
    BY <1>5
  <2>5. SumFunctionOnSet(g, Below(b) \cup {b})
          = SumFunctionOnSet(g, Below(b)) + SumFunctionOnSet(g, {b})
    BY <1>5, <2>1, <2>4, SumOfBoth
  <2> QED BY <1>1, <1>3, <1>5, <2>2, <2>3, <2>5
<1> QED BY <1>6, <1>7

LEMMA ScanAligns == ASSUME AlignIInv, Scan PROVE AlignIInv'
<1>1. CacheInv' /\ UNCHANGED <<table, ids>> /\ phase = "scan" /\ phase' = "expert_ids"
  BY CacheRetained DEF AlignIInv, Scan
<1>2. IdsOK'
  BY <1>1, Retained DEF AlignIInv
<1>3. Cleared'
  BY <1>1, Retained DEF AlignIInv, Scan, Cleared
<1>4. Climbing'
  <2>1. SUFFICES ASSUME NEW side \in Sides
                 PROVE  /\ cum'[side][0] = 0 /\ npad'[side] = cum'[side][Size(side)]
                        /\ \A b \in Buckets[side] :
                             /\ cum'[side][b] \in Nat
                             /\ cum'[side][b + 1] = cum'[side][b] + Padded(Cardinality(In(side, b)))
    BY <1>1, Retained DEF Climbing
  <2>2. /\ Size(side) \in Nat /\ Buckets[side] = 0 .. Size(side)-1
    BY SideSizes
  <2>3. /\ \A b \in 0 .. Size(side) : cum'[side][b] = PaddedBefore(side, b)
        /\ npad'[side] = PaddedBefore(side, Size(side))
    BY DEF Scan
  <2>4. /\ PaddedBefore(side, 0) = 0
        /\ \A b \in Buckets[side] :
              /\ PaddedBefore(side, b) \in Nat
              /\ PaddedBefore(side, b + 1)
                   = PaddedBefore(side, b) + Padded(Cardinality(In(side, b)))
    BY <1>1, ScanClimbs DEF AlignIInv, CacheInv, Counted
  <2> QED BY <2>2, <2>3, <2>4
<1> QED
  BY <1>1, <1>2, <1>3, <1>4 DEF AlignIInv, Counted, Climbed, Named, Drawing, AllLaid, InOrder

(* A position, or the first one of a block, is of one bucket.              *)
LEMMA OneBucket ==
  ASSUME TypeOK, IdsOK, Climbing, NEW side \in Sides,
         NEW b \in Buckets[side], NEW c \in Buckets[side], NEW p \in Int,
         cum[side][b] <= p, p < cum[side][b + 1], cum[side][c] <= p, p < cum[side][c + 1]
  PROVE  b = c
<1>1. /\ Size(side) \in Nat /\ Stairs(cum[side], Size(side))
      /\ b \in 0 .. Size(side)-1 /\ c \in 0 .. Size(side)-1
  BY Positions, SideSizes
<1> QED BY <1>1, StairsApart

LEMMA FillAligns == ASSUME AlignIInv, FillExpertIds PROVE AlignIInv'
<1>1. /\ CacheInv' /\ UNCHANGED <<table, ids, cum, npad>> /\ phase = "expert_ids"
      /\ phase' = IF MK <= NT THEN "place" ELSE "cursors"
  BY CacheRetained DEF AlignIInv, FillExpertIds
<1>2. IdsOK'
  BY <1>1, Retained DEF AlignIInv
<1>3. Cleared'
  BY <1>1, Retained DEF AlignIInv, FillExpertIds, Cleared
<1>4. Climbing /\ Climbing'
  BY <1>1, Retained DEF AlignIInv, Climbed, Climbing
<1>5. Carried'
  <2>1. SUFFICES ASSUME NEW side \in Sides, NEW k \in 0 .. NB-1
                 PROVE  /\ \A b \in Buckets[side] :
                             cum[side][b] <= k * BS /\ k * BS < cum[side][b + 1]
                             => expert_ids'[side][k] = b
                        /\ npad[side] <= k * BS => expert_ids'[side][k] = None
    BY <1>1, Retained DEF Carried
  <2> DEFINE Has(b) == cum[side][b] <= k * BS /\ k * BS < cum[side][b + 1]
  <2>2. expert_ids'[side][k] = IF \E b \in Buckets[side] : Has(b)
                               THEN CHOOSE b \in Buckets[side] : Has(b)
                               ELSE None
    <3>1. expert_ids = [d \in Sides |-> [l \in 0 .. NB-1 |-> None]]
      BY <1>1 DEF AlignIInv, Cleared
    <3>2. expert_ids'[side][k] = IF \E b \in Buckets[side] : Has(b)
                                 THEN CHOOSE b \in Buckets[side] : Has(b)
                                 ELSE expert_ids[side][k]
      BY DEF FillExpertIds
    <3> QED BY <3>1, <3>2
  <2>3. k * BS \in Int
    BY AlignAssumption
  <2>4. \A b, c \in Buckets[side] : Has(b) /\ Has(c) => b = c
    BY <1>4, <2>3, OneBucket DEF AlignIInv, CacheInv
  <2>5. npad[side] <= k * BS => \A b \in Buckets[side] : ~ Has(b)
    <3>1. \A b \in Buckets[side] : cum[side][b + 1] \in Nat /\ cum[side][b + 1] <= npad[side]
      BY <1>4, Positions DEF AlignIInv, CacheInv
    <3>2. npad[side] \in Nat
      BY <1>4, Positions DEF AlignIInv, CacheInv
    <3> QED BY <2>3, <3>1, <3>2
  <2> HIDE DEF Has
  <2>6. ASSUME NEW b \in Buckets[side], Has(b) PROVE expert_ids'[side][k] = b
    BY <2>2, <2>4, <2>6
  <2>7. ASSUME npad[side] <= k * BS PROVE expert_ids'[side][k] = None
    BY <2>2, <2>5, <2>7
  <2> QED BY <2>6, <2>7 DEF Has
<1>6. InOrder'
  <2>1. MK \in Nat /\ NT \in Nat /\ MK' = MK
    BY <1>1, TokenSets, Retained, AlignAssumption DEF AlignIInv
  <2> QED BY <1>1, <2>1 DEF InOrder
<1> QED
  BY <1>1, <1>2, <1>3, <1>4, <1>5, <1>6
  DEF AlignIInv, Counted, Climbed, Named, Drawing, AllLaid

(* Up to NT tokens: the tokens of a bucket go, in their order, to the      *)
(* first positions of the bucket.                                          *)
LEMMA PositionOf ==
  ASSUME TypeOK, IdsOK, Climbing, NEW side \in Sides, NEW b \in Buckets[side]
  PROVE  /\ \A i \in In(side, b) :
              /\ Position(i) \in 0 .. L-1
              /\ cum[side][b] <= Position(i)
              /\ Position(i) < cum[side][b] + Cardinality(In(side, b))
         /\ \A i, j \in In(side, b) : i < j => Position(i) < Position(j)
         /\ \A p \in Int : cum[side][b] <= p /\ p < cum[side][b] + Cardinality(In(side, b))
                           => \E i \in In(side, b) : Position(i) = p
<1> DEFINE V == In(side, b)  key == [j \in V |-> j]
<1>1. IsFiniteSet(V) /\ V \in SUBSET Tokens
  BY TokenSets, Belonging
<1>2. \A j \in V : j \in Int
  BY <1>1, TokenSets DEF Tokens
<1>3. KeyOf(V, key)
  BY <1>2 DEF KeyOf
<1>4. ASSUME NEW i \in V PROVE Position(i) = cum[side][b] + Rank(V, key, i)
  <2>1. SideOf(i) = side /\ BucketOf(i) = b
    BY Belonging
  <2>2. {j \in V : j < i} = {j \in V : key[j] < key[i]}
    OBVIOUS
  <2> QED BY <2>1, <2>2 DEF Position, Rank
<1>5. /\ Cardinality(V) \in Nat /\ cum[side][b] \in Nat /\ npad[side] \in Nat
      /\ cum[side][b] + Cardinality(V) <= cum[side][b + 1]
      /\ cum[side][b + 1] \in Nat
      /\ cum[side][b + 1] <= npad[side] /\ npad[side] <= L
  BY Positions
<1> HIDE DEF key, V
<1>6. \A i \in V : Rank(V, key, i) \in 0 .. Cardinality(V)-1
  BY <1>1, <1>3, RankBijective
<1>7. ASSUME NEW i \in V, NEW j \in V, i < j
      PROVE  Rank(V, key, i) < Rank(V, key, j)
  <2>1. key[i] < key[j]
    BY <1>7 DEF key
  <2> QED BY <1>1, <1>3, <2>1, RankMonotone
<1>8. L \in Int
  BY TokenSets, CacheAssumption, AlignAssumption DEF L, Lesser
<1>9. ASSUME NEW i \in V
      PROVE  /\ Position(i) \in 0 .. L-1 /\ cum[side][b] <= Position(i)
             /\ Position(i) < cum[side][b] + Cardinality(V)
  <2>1. /\ Rank(V, key, i) \in 0 .. Cardinality(V)-1
        /\ Position(i) = cum[side][b] + Rank(V, key, i)
    BY <1>4, <1>6
  <2> QED BY <1>5, <1>8, <2>1
<1>10. ASSUME NEW i \in V, NEW j \in V, i < j PROVE Position(i) < Position(j)
  <2>1. /\ Rank(V, key, i) \in 0 .. Cardinality(V)-1 /\ Rank(V, key, j) \in 0 .. Cardinality(V)-1
        /\ Rank(V, key, i) < Rank(V, key, j)
    BY <1>6, <1>7, <1>10
  <2> QED BY <1>4, <1>5, <2>1
<1>11. ASSUME NEW p \in Int, cum[side][b] <= p, p < cum[side][b] + Cardinality(V)
       PROVE  \E i \in V : Position(i) = p
  <2> DEFINE i == Nth(V, key, p - cum[side][b])
  <2>1. p - cum[side][b] \in 0 .. Cardinality(V)-1
    BY <1>5, <1>11
  <2>2. i \in V /\ Rank(V, key, i) = p - cum[side][b]
    BY <1>1, <1>3, <2>1, RankBijective
  <2> HIDE DEF i
  <2>3. Position(i) = p
    BY <1>4, <1>5, <2>2
  <2> QED BY <2>2, <2>3
<1> QED BY <1>9, <1>10, <1>11 DEF V

LEMMA PositionsApart ==
  ASSUME TypeOK, IdsOK, Climbing, NEW i \in Tokens, NEW j \in Tokens,
         Valid(i), Valid(j), SideOf(i) = SideOf(j), Position(i) = Position(j)
  PROVE  i = j
<1> DEFINE side == SideOf(i)  b == BucketOf(i)  c == BucketOf(j)
<1>1. /\ side \in Sides /\ b \in Buckets[side] /\ c \in Buckets[side]
      /\ i \in In(side, b) /\ j \in In(side, c)
  BY Belonging
<1> HIDE DEF side, b, c
<1>2. /\ Position(i) \in Int
      /\ cum[side][b] <= Position(i) /\ Position(i) < cum[side][b] + Cardinality(In(side, b))
      /\ cum[side][c] <= Position(i) /\ Position(i) < cum[side][c] + Cardinality(In(side, c))
  BY <1>1, PositionOf
<1>3. /\ cum[side][b] + Cardinality(In(side, b)) <= cum[side][b + 1]
      /\ cum[side][c] + Cardinality(In(side, c)) <= cum[side][c + 1]
      /\ cum[side][b] \in Nat /\ cum[side][b + 1] \in Nat /\ Cardinality(In(side, b)) \in Nat
      /\ cum[side][c] \in Nat /\ cum[side][c + 1] \in Nat /\ Cardinality(In(side, c)) \in Nat
  BY <1>1, Positions
<1>4. b = c
  <2>1. Position(i) < cum[side][b + 1] /\ Position(i) < cum[side][c + 1]
    BY <1>2, <1>3
  <2> QED BY <1>1, <1>2, <2>1, OneBucket
<1>5. /\ i < j => Position(i) < Position(j)
      /\ j < i => Position(j) < Position(i)
  BY <1>1, <1>4, PositionOf
<1>6. i \in Int /\ j \in Int
  BY TokenSets DEF Tokens
<1> QED BY <1>2, <1>5, <1>6

LEMMA PlaceAligns == ASSUME AlignIInv, Place PROVE AlignIInv'
<1>1. /\ CacheInv' /\ UNCHANGED <<table, ids, cum, npad, expert_ids>>
      /\ phase = "place" /\ phase' = "retired"
  BY CacheRetained DEF AlignIInv, Place
<1>2. IdsOK' /\ IdsOK /\ TypeOK
  BY <1>1, Retained DEF AlignIInv, CacheInv
<1>3. Climbing /\ Climbing'
  BY <1>1, Retained DEF AlignIInv, Climbed, Climbing
<1>4. Carried'
  BY <1>1, Retained DEF AlignIInv, Named, Carried
<1> DEFINE Mine(side, i) == Valid(i) /\ SideOf(i) = side
           Goes(side, i, p) == Mine(side, i) /\ Position(i) = p
<1>5. \A side \in Sides : \A p \in 0 .. L-1 :
        sorted_ids'[side][p] = IF \E i \in Tokens : Goes(side, i, p)
                               THEN CHOOSE i \in Tokens : Goes(side, i, p)
                               ELSE Sentinel
  <2>1. sorted_ids = [side \in Sides |-> [p \in 0 .. L-1 |-> Sentinel]]
    BY <1>1 DEF AlignIInv, Cleared
  <2>2. \A side \in Sides : \A p \in 0 .. L-1 :
          sorted_ids'[side][p] = IF \E i \in Tokens : Goes(side, i, p)
                                 THEN CHOOSE i \in Tokens : Goes(side, i, p)
                                 ELSE sorted_ids[side][p]
    BY DEF Place
  <2> QED BY <2>1, <2>2
<1>6. ASSUME NEW side \in Sides, NEW p \in 0 .. L-1, sorted_ids'[side][p] # Sentinel
      PROVE  sorted_ids'[side][p] \in Tokens /\ Goes(side, sorted_ids'[side][p], p)
  BY <1>5, <1>6
<1>7. ASSUME NEW side \in Sides, NEW i \in Tokens, Mine(side, i)
      PROVE  Position(i) \in 0 .. L-1 /\ sorted_ids'[side][Position(i)] = i
  <2>1. Position(i) \in 0 .. L-1
    BY <1>2, <1>3, <1>7, Belonging, PositionOf
  <2>2. Goes(side, i, Position(i))
    BY <1>7
  <2>3. \A j \in Tokens : Goes(side, j, Position(i)) => j = i
    BY <1>2, <1>3, <1>7, PositionsApart
  <2> HIDE DEF Goes, Mine
  <2> QED BY <1>5, <2>1, <2>2, <2>3
<1>8. Laid(Tokens)'
  <2>1. SUFFICES ASSUME NEW side \in Sides
                 PROVE  /\ \A p \in 0 .. L-1 : sorted_ids'[side][p] # Sentinel =>
                             \E b \in Buckets[side] :
                               /\ sorted_ids'[side][p] \in In(side, b)
                               /\ cum[side][b] <= p
                               /\ p < cum[side][b] + Cardinality(In(side, b))
                        /\ \A b \in Buckets[side] : \A i \in In(side, b) :
                             \E p \in 0 .. L-1 : sorted_ids'[side][p] = i
                        /\ \A p, q \in 0 .. L-1 :
                             sorted_ids'[side][p] # Sentinel
                             /\ sorted_ids'[side][p] = sorted_ids'[side][q] => p = q
    <3>1. \A side, b : (In(side, b) \cap Tokens)' = In(side, b)
      <4>1. \A side, b : In(side, b) \cap Tokens = In(side, b)
        BY <1>2, Belonging
      <4> QED BY <1>1, <4>1, Retained
    <3> QED BY <1>1, <3>1, Retained DEF Laid
  <2>2. ASSUME NEW p \in 0 .. L-1, sorted_ids'[side][p] # Sentinel
        PROVE  \E b \in Buckets[side] :
                 /\ sorted_ids'[side][p] \in In(side, b)
                 /\ cum[side][b] <= p
                 /\ p < cum[side][b] + Cardinality(In(side, b))
    <3> DEFINE i == sorted_ids'[side][p]
    <3>1. i \in Tokens /\ Valid(i) /\ SideOf(i) = side /\ Position(i) = p
      BY <1>6, <2>2
    <3> HIDE DEF i
    <3>2. BucketOf(i) \in Buckets[side] /\ i \in In(side, BucketOf(i))
      BY <1>2, <3>1, Belonging
    <3>3. cum[side][BucketOf(i)] <= p /\ p < cum[side][BucketOf(i)] + Cardinality(In(side, BucketOf(i)))
      BY <1>2, <1>3, <3>1, <3>2, PositionOf
    <3> QED BY <3>2, <3>3 DEF i
  <2>3. ASSUME NEW b \in Buckets[side], NEW i \in In(side, b)
        PROVE  \E p \in 0 .. L-1 : sorted_ids'[side][p] = i
    <3>1. i \in Tokens /\ Mine(side, i)
      BY <1>2, Belonging
    <3> QED BY <1>7, <3>1
  <2>4. ASSUME NEW p \in 0 .. L-1, NEW q \in 0 .. L-1, sorted_ids'[side][p] # Sentinel,
               sorted_ids'[side][p] = sorted_ids'[side][q]
        PROVE  p = q
    BY <1>6, <2>4
  <2> HIDE DEF Mine, Goes
  <2> QED BY <2>2, <2>3, <2>4
<1>9. InOrder'
  <2>1. ASSUME NEW side \in Sides, NEW p \in 0 .. L-1, NEW i \in Tokens,
               sorted_ids'[side][p] = i
        PROVE  p = Position(i)
    <3>1. i # Sentinel
      BY <1>2, TokenSets DEF Tokens, Sentinel
    <3> QED BY <1>6, <2>1, <3>1
  <2>2. \A i : Position(i)' = Position(i)
    BY <1>1, Retained DEF Position, SideOf, BucketOf, Expert
  <2> HIDE DEF Mine, Goes
  <2> QED BY <1>1, <2>1, <2>2, Retained DEF InOrder
<1> QED
  BY <1>1, <1>2, <1>3, <1>4, <1>8, <1>9
  DEF AlignIInv, Cleared, Counted, Climbed, Named, Drawing, AllLaid

LEMMA SetCursorsAligns == ASSUME AlignIInv, SetCursors PROVE AlignIInv'
<1>1. /\ CacheInv' /\ UNCHANGED <<table, ids, cum, npad, expert_ids, sorted_ids, placed>>
      /\ phase = "cursors" /\ phase' = "draw"
  BY CacheRetained DEF AlignIInv, SetCursors
<1>2. IdsOK' /\ IdsOK /\ TypeOK
  BY <1>1, Retained DEF AlignIInv, CacheInv
<1>3. Climbing /\ Climbing'
  BY <1>1, Retained DEF AlignIInv, Climbed, Climbing
<1>4. Carried'
  BY <1>1, Retained DEF AlignIInv, Named, Carried
<1>5. placed = {} /\ sorted_ids = [side \in Sides |-> [p \in 0 .. L-1 |-> Sentinel]]
  BY <1>1 DEF AlignIInv, Cleared
<1>6. Laid(placed)'
  <2>1. \A side \in Sides : \A p \in 0 .. L-1 : sorted_ids'[side][p] = Sentinel'
    BY <1>1, <1>5, Retained
  <2>2. L' = L /\ placed' = {}
    BY <1>1, <1>5, Retained
  <2> QED BY <2>1, <2>2 DEF Laid
<1>7. sorted_ids' \in [Sides -> [0 .. L-1 -> Int]]
  <2>1. Sentinel \in Int
    BY <1>2, TokenSets DEF Sentinel
  <2> QED BY <1>1, <1>5, <2>1
<1>8. cnt' = [side \in Sides |-> [b \in Buckets[side] |->
                cum[side][b] + Cardinality(In(side, b) \cap placed)]]
  <2>1. ASSUME NEW side \in Sides, NEW b \in Buckets[side]
        PROVE  cum[side][b] + Cardinality(In(side, b) \cap placed) = cum[side][b]
    <3>1. In(side, b) \cap placed = {} /\ cum[side][b] \in Nat
      BY <1>2, <1>3, <1>5, Positions
    <3>2. Cardinality(In(side, b) \cap placed) = 0
      BY <3>1, FS_EmptySet
    <3> QED BY <3>1, <3>2
  <2> QED BY <2>1 DEF SetCursors
<1>9. Drawing'
  BY <1>1, <1>5, <1>6, <1>7, <1>8, Retained DEF Drawing
<1>10. InOrder'
  BY <1>1, Retained DEF AlignIInv, InOrder
<1> QED
  BY <1>1, <1>2, <1>3, <1>4, <1>9, <1>10
  DEF AlignIInv, Cleared, Counted, Climbed, Named, AllLaid

(* The tokens placed after a step in which only sorted_ids and placed may  *)
(* change.                                                                 *)
LEMMA LaidNext ==
  ASSUME UNCHANGED <<table, ids, cum>>,
         \A side \in Sides :
           /\ \A p \in 0 .. L-1 : sorted_ids'[side][p] # Sentinel =>
                \E b \in Buckets[side] :
                  /\ sorted_ids'[side][p] \in In(side, b) \cap placed'
                  /\ cum[side][b] <= p
                  /\ p < cum[side][b] + Cardinality(In(side, b) \cap placed')
           /\ \A b \in Buckets[side] : \A j \in In(side, b) \cap placed' :
                \E p \in 0 .. L-1 : sorted_ids'[side][p] = j
           /\ \A p, q \in 0 .. L-1 :
                sorted_ids'[side][p] # Sentinel /\ sorted_ids'[side][p] = sorted_ids'[side][q]
                => p = q
  PROVE  Laid(placed)'
<1>1. (\A side \in Sides :
        /\ \A p \in 0 .. L'-1 : sorted_ids'[side][p] # Sentinel' =>
             \E b \in Buckets[side] :
               /\ sorted_ids'[side][p] \in In(side, b)' \cap placed'
               /\ cum'[side][b] <= p
               /\ p < cum'[side][b] + Cardinality(In(side, b)' \cap placed')
        /\ \A b \in Buckets[side] : \A j \in In(side, b)' \cap placed' :
             \E p \in 0 .. L'-1 : sorted_ids'[side][p] = j
        /\ \A p, q \in 0 .. L'-1 :
             sorted_ids'[side][p] # Sentinel'
             /\ sorted_ids'[side][p] = sorted_ids'[side][q] => p = q)
      => Laid(placed)'
  BY DEF Laid
<1>2. \A side, b : In(side, b)' = In(side, b)
  BY Retained
<1>3. L' = L /\ Sentinel' = Sentinel /\ cum' = cum
  BY Retained
<1> QED BY <1>1, <1>2, <1>3

LEMMA LaidSame ==
  ASSUME UNCHANGED <<table, ids, cum, sorted_ids>>, Laid(placed),
         \A side, b : In(side, b) \cap placed' = In(side, b) \cap placed
  PROVE  Laid(placed)'
<1>1. \A side \in Sides :
        /\ \A p \in 0 .. L-1 : sorted_ids[side][p] # Sentinel =>
             \E b \in Buckets[side] :
               /\ sorted_ids[side][p] \in In(side, b) \cap placed
               /\ cum[side][b] <= p
               /\ p < cum[side][b] + Cardinality(In(side, b) \cap placed)
        /\ \A b \in Buckets[side] : \A j \in In(side, b) \cap placed :
             \E p \in 0 .. L-1 : sorted_ids[side][p] = j
        /\ \A p, q \in 0 .. L-1 :
             sorted_ids[side][p] # Sentinel /\ sorted_ids[side][p] = sorted_ids[side][q]
             => p = q
  BY DEF Laid
<1> QED BY <1>1, LaidNext

(* A token that is drawn for goes right behind those of its bucket that    *)
(* were placed before it.                                                  *)
LEMMA DrawLays ==
  ASSUME TypeOK, IdsOK, Climbing, placed \in SUBSET Tokens, Laid(placed),
         sorted_ids \in [Sides -> [0 .. L-1 -> Int]],
         NEW i \in Tokens, i \notin placed, Valid(i),
         sorted_ids' = [sorted_ids EXCEPT ![SideOf(i)][
                          cum[SideOf(i)][BucketOf(i)]
                            + Cardinality(In(SideOf(i), BucketOf(i)) \cap placed)] = i],
         UNCHANGED <<table, ids, cum>>, placed' = placed \cup {i}
  PROVE  /\ Laid(placed)'
         /\ sorted_ids' \in [Sides -> [0 .. L-1 -> Int]]
         /\ \A side, b : Cardinality(In(side, b) \cap placed')
              = Cardinality(In(side, b) \cap placed)
                  + (IF side = SideOf(i) /\ b = BucketOf(i) THEN 1 ELSE 0)
<1> DEFINE d == SideOf(i)  a == BucketOf(i)
           had(side, b) == Cardinality(In(side, b) \cap placed)
           has(side, b) == Cardinality(In(side, b) \cap placed')
           at == cum[d][a] + had(d, a)
<1>1. d \in Sides /\ a \in Buckets[d] /\ i \in In(d, a)
  BY Belonging
<1>2. \A side, b : i \in In(side, b) => side = d /\ b = a
  BY Belonging
<1>3. ASSUME NEW side, NEW b
      PROVE  /\ had(side, b) \in Nat
             /\ has(side, b) = had(side, b) + (IF side = d /\ b = a THEN 1 ELSE 0)
  <2>1. In(side, b) \cap placed \in SUBSET Tokens
    BY Belonging
  <2>2. IsFiniteSet(In(side, b) \cap placed) /\ had(side, b) \in Nat
    BY <2>1, TokenSets
  <2>3. CASE side = d /\ b = a
    <3>1. /\ In(side, b) \cap placed' = (In(side, b) \cap placed) \cup {i}
          /\ i \notin In(side, b) \cap placed
      BY <1>1, <2>3
    <3>2. has(side, b) = had(side, b) + 1
      BY <2>2, <3>1, FS_AddElement
    <3> HIDE DEF had, has
    <3> QED BY <2>2, <2>3, <3>2
  <2>4. CASE ~ (side = d /\ b = a)
    <3>1. In(side, b) \cap placed' = In(side, b) \cap placed
      BY <1>2, <2>4
    <3>2. has(side, b) = had(side, b)
      BY <3>1
    <3> HIDE DEF had, has
    <3>3. has(side, b) = had(side, b) + 0
      BY <2>2, <3>2
    <3> QED BY <2>2, <2>4, <3>3
  <2> QED BY <2>3, <2>4
<1>4. /\ Cardinality(In(d, a)) \in Nat /\ cum[d][a] \in Nat /\ cum[d][a + 1] \in Nat
      /\ cum[d][a] + Cardinality(In(d, a)) <= cum[d][a + 1]
      /\ cum[d][a + 1] <= npad[d] /\ npad[d] \in Nat /\ npad[d] <= L
  BY <1>1, Positions
<1>5. had(d, a) + 1 <= Cardinality(In(d, a))
  <2>1. In(d, a) \cap placed' \subseteq In(d, a) /\ IsFiniteSet(In(d, a))
    BY TokenSets, Belonging
  <2>2. has(d, a) <= Cardinality(In(d, a))
    BY <2>1, FS_Subset
  <2> QED BY <1>3, <2>2
<1>6. L \in Int
  BY TokenSets, CacheAssumption, AlignAssumption DEF L, Lesser
<1>7. at \in 0 .. L-1 /\ cum[d][a] <= at /\ at < cum[d][a + 1] /\ at \in Int
  <2>1. had(d, a) \in Nat
    BY <1>3
  <2> HIDE DEF had
  <2> QED BY <1>4, <1>5, <1>6, <2>1
<1>8. i \in Int /\ i # Sentinel
  BY TokenSets DEF Tokens, Sentinel
<1>9. sorted_ids' = [sorted_ids EXCEPT ![d][at] = i]
  OBVIOUS
<1> HIDE DEF d, at, a
<1>10. sorted_ids' \in [Sides -> [0 .. L-1 -> Int]]
  <2>1. [sorted_ids[d] EXCEPT ![at] = i] \in [0 .. L-1 -> Int]
    BY <1>1, <1>7, <1>8
  <2> QED BY <1>9, <2>1
<1>11. \A side \in Sides : \A p \in 0 .. L-1 :
         sorted_ids'[side][p] = IF side = d /\ p = at THEN i ELSE sorted_ids[side][p]
  <2>1. sorted_ids' = [sorted_ids EXCEPT ![d] = [sorted_ids[d] EXCEPT ![at] = i]]
    BY <1>9
  <2>2. \A side \in Sides : sorted_ids[side] \in [0 .. L-1 -> Int]
    OBVIOUS
  <2>3. ASSUME NEW side \in Sides, NEW p \in 0 .. L-1
        PROVE  sorted_ids'[side][p] = IF side = d /\ p = at THEN i ELSE sorted_ids[side][p]
    <3>1. CASE side = d
      <4>1. sorted_ids'[side] = [sorted_ids[d] EXCEPT ![at] = i]
        BY <2>1, <3>1
      <4> QED BY <2>2, <3>1, <4>1
    <3>2. CASE side # d
      <4>1. sorted_ids'[side] = sorted_ids[side]
        BY <2>1, <3>2
      <4> QED BY <3>2, <4>1
    <3> QED BY <3>1, <3>2
  <2> QED BY <2>3
<1> DEFINE Within(side, b, p) == cum[side][b] <= p /\ p < cum[side][b] + had(side, b)
<1>12. ASSUME NEW side \in Sides, NEW b \in Buckets[side], NEW p \in 0 .. L-1,
              Within(side, b, p)
       PROVE  /\ ~ (side = d /\ p = at)
              /\ p < cum[side][b] + has(side, b)
  <2>1. /\ Cardinality(In(side, b)) \in Nat /\ cum[side][b] \in Nat /\ cum[side][b + 1] \in Nat
        /\ cum[side][b] + Cardinality(In(side, b)) <= cum[side][b + 1]
    BY Positions
  <2>2. had(side, b) \in Nat /\ had(side, b) <= has(side, b) /\ has(side, b) \in Nat
    <3>1. /\ had(side, b) \in Nat
          /\ has(side, b) = had(side, b) + (IF side = d /\ b = a THEN 1 ELSE 0)
      BY <1>3 DEF d, a
    <3> HIDE DEF had, has
    <3> QED BY <3>1
  <2>3. had(side, b) <= Cardinality(In(side, b))
    <3>1. In(side, b) \cap placed \subseteq In(side, b) /\ IsFiniteSet(In(side, b))
      BY TokenSets, Belonging
    <3> QED BY <3>1, FS_Subset
  <2>4. p \in Int
    OBVIOUS
  <2> HIDE DEF had, has
  <2>5. p < cum[side][b + 1] /\ cum[side][b] <= p
    BY <1>12, <2>1, <2>2, <2>3, <2>4
  <2>6. side = d /\ p = at => b = a
    BY <1>1, <1>7, <2>4, <2>5, OneBucket
  <2>7. side = d /\ b = a => p # at
    BY <1>12 DEF at, had, d, a
  <2>8. p < cum[side][b] + has(side, b)
    BY <1>12, <2>1, <2>2, <2>4
  <2> QED BY <2>6, <2>7, <2>8
<1>13. ASSUME NEW side \in Sides, NEW p \in 0 .. L-1, sorted_ids[side][p] # Sentinel
       PROVE  \E b \in Buckets[side] :
                sorted_ids[side][p] \in In(side, b) \cap placed /\ Within(side, b, p)
  BY <1>13 DEF Laid
<1>14. ASSUME NEW side \in Sides
       PROVE  /\ \A p \in 0 .. L-1 : sorted_ids'[side][p] # Sentinel =>
                   \E b \in Buckets[side] :
                     /\ sorted_ids'[side][p] \in In(side, b) \cap placed'
                     /\ cum[side][b] <= p /\ p < cum[side][b] + has(side, b)
              /\ \A b \in Buckets[side] : \A j \in In(side, b) \cap placed' :
                   \E p \in 0 .. L-1 : sorted_ids'[side][p] = j
              /\ \A p, q \in 0 .. L-1 :
                   sorted_ids'[side][p] # Sentinel /\ sorted_ids'[side][p] = sorted_ids'[side][q]
                   => p = q
  <2>1. ASSUME NEW p \in 0 .. L-1, sorted_ids'[side][p] # Sentinel
        PROVE  \E b \in Buckets[side] :
                 /\ sorted_ids'[side][p] \in In(side, b) \cap placed'
                 /\ cum[side][b] <= p /\ p < cum[side][b] + has(side, b)
    <3>1. CASE side = d /\ p = at
      <4>1. sorted_ids'[side][p] = i
        BY <1>11, <3>1
      <4>2. at < cum[d][a] + has(d, a)
        <5>1. has(d, a) = had(d, a) + 1 /\ had(d, a) \in Nat
          BY <1>3
        <5> QED BY <1>4, <5>1 DEF at, had, has, d, a
      <4> QED BY <1>1, <1>7, <3>1, <4>1, <4>2
    <3>2. CASE ~ (side = d /\ p = at)
      <4>1. sorted_ids'[side][p] = sorted_ids[side][p]
        BY <1>11, <3>2
      <4>2. PICK b \in Buckets[side] :
              sorted_ids[side][p] \in In(side, b) \cap placed /\ Within(side, b, p)
        BY <1>13, <2>1, <4>1
      <4>3. p < cum[side][b] + has(side, b) /\ cum[side][b] <= p
        BY <1>12, <4>2
      <4> QED BY <4>1, <4>2, <4>3
    <3> QED BY <3>1, <3>2
  <2>2. ASSUME NEW b \in Buckets[side], NEW j \in In(side, b) \cap placed'
        PROVE  \E p \in 0 .. L-1 : sorted_ids'[side][p] = j
    <3>1. CASE j = i
      <4>1. side = d
        BY <1>2, <3>1
      <4> QED BY <1>7, <1>11, <3>1, <4>1
    <3>2. CASE j # i
      <4>1. j \in placed /\ j # Sentinel
        BY <3>2, TokenSets DEF Tokens, Sentinel
      <4>2. PICK p \in 0 .. L-1 : sorted_ids[side][p] = j
        BY <4>1 DEF Laid
      <4>3. \E c \in Buckets[side] : Within(side, c, p)
        BY <1>13, <4>1, <4>2
      <4>4. ~ (side = d /\ p = at)
        BY <1>12, <4>3
      <4> QED BY <1>11, <4>2, <4>4
    <3> QED BY <3>1, <3>2
  <2>3. ASSUME NEW p \in 0 .. L-1, NEW q \in 0 .. L-1, sorted_ids'[side][p] # Sentinel,
               sorted_ids'[side][p] = sorted_ids'[side][q]
        PROVE  p = q
    <3>1. ASSUME NEW r \in 0 .. L-1, sorted_ids[side][r] = i PROVE FALSE
      <4>1. i \in placed
        BY <1>8, <1>13, <3>1
      <4> QED BY <4>1
    <3>2. sorted_ids[side][p] # Sentinel /\ sorted_ids[side][p] = sorted_ids[side][q] => p = q
      BY DEF Laid
    <3> QED BY <1>11, <2>3, <3>1, <3>2
  <2> QED BY <2>1, <2>2, <2>3
<1>15. Laid(placed)'
  <2> HIDE DEF Within
  <2> QED BY <1>14, LaidNext
<1> QED BY <1>3, <1>10, <1>15 DEF d, a

LEMMA DrawAligns == ASSUME AlignIInv, NEW i \in Tokens, Draw(i) PROVE AlignIInv'
<1>1. /\ CacheInv' /\ UNCHANGED <<table, ids, cum, npad, expert_ids>>
      /\ phase = "draw" /\ i \notin placed /\ placed' = placed \cup {i}
      /\ phase' = IF placed' = Tokens THEN "retired" ELSE "draw"
  BY CacheRetained DEF AlignIInv, Draw
<1>2. IdsOK' /\ IdsOK /\ TypeOK
  BY <1>1, Retained DEF AlignIInv, CacheInv
<1>3. Climbing /\ Climbing'
  BY <1>1, Retained DEF AlignIInv, Climbed, Climbing
<1>4. Carried'
  BY <1>1, Retained DEF AlignIInv, Named, Carried
<1>5. /\ placed \in SUBSET Tokens /\ Laid(placed)
      /\ sorted_ids \in [Sides -> [0 .. L-1 -> Int]]
      /\ cnt = [side \in Sides |-> [b \in Buckets[side] |->
                  cum[side][b] + Cardinality(In(side, b) \cap placed)]]
  BY <1>1 DEF AlignIInv, Drawing
<1> DEFINE Counts(P) == [side \in Sides |-> [b \in Buckets[side] |->
                           cum[side][b] + Cardinality(In(side, b) \cap P)]]
<1>6. /\ Laid(placed)' /\ sorted_ids' \in [Sides -> [0 .. L-1 -> Int]]
      /\ cnt' = Counts(placed')
  <2>1. CASE Valid(i)
    <3> DEFINE d == SideOf(i)  a == BucketOf(i)
    <3>1. d \in Sides /\ a \in Buckets[d]
      BY <1>2, <2>1, Belonging
    <3>2. cnt[d][a] = cum[d][a] + Cardinality(In(d, a) \cap placed)
      BY <1>5, <3>1
    <3>3. /\ sorted_ids' = [sorted_ids EXCEPT ![d][cnt[d][a]] = i]
          /\ cnt' = [cnt EXCEPT ![d][a] = @ + 1]
      BY <2>1 DEF Draw
    <3>4. sorted_ids' = [sorted_ids EXCEPT
                           ![d][cum[d][a] + Cardinality(In(d, a) \cap placed)] = i]
      BY <3>2, <3>3
    <3>5. /\ Laid(placed)' /\ sorted_ids' \in [Sides -> [0 .. L-1 -> Int]]
          /\ \A side, b : Cardinality(In(side, b) \cap placed')
               = Cardinality(In(side, b) \cap placed)
                   + (IF side = d /\ b = a THEN 1 ELSE 0)
      BY <1>1, <1>2, <1>3, <1>5, <2>1, <3>4, DrawLays
    <3>6. cnt' = Counts(placed')
      <4>1. \A side \in Sides : \A b \in Buckets[side] :
              cum[side][b] \in Nat /\ Cardinality(In(side, b) \cap placed) \in Nat
        BY <1>2, <1>3, <1>5, Positions, TokenSets
      <4>2. cnt' = [cnt EXCEPT ![d] = [cnt[d] EXCEPT ![a] = cnt[d][a] + 1]]
        BY <3>3
      <4> HIDE DEF d, a
      <4>3. ASSUME NEW side \in Sides
            PROVE  cnt'[side] = [b \in Buckets[side] |->
                                   cum[side][b] + Cardinality(In(side, b) \cap placed')]
        <5>1. cnt[side] = [b \in Buckets[side] |->
                             cum[side][b] + Cardinality(In(side, b) \cap placed)]
          BY <1>5
        <5>2. ASSUME NEW b \in Buckets[side], ~ (side = d /\ b = a)
              PROVE  cum[side][b] + Cardinality(In(side, b) \cap placed')
                       = cum[side][b] + Cardinality(In(side, b) \cap placed)
          <6>1. Cardinality(In(side, b) \cap placed')
                  = Cardinality(In(side, b) \cap placed) + 0
            BY <3>5, <5>2
          <6> QED BY <4>1, <6>1
        <5>3. CASE side # d
          <6>1. cnt'[side] = cnt[side]
            BY <1>5, <4>2, <5>3
          <6> QED BY <5>1, <5>2, <5>3, <6>1
        <5>4. CASE side = d
          <6>1. cum[d][a] + Cardinality(In(d, a) \cap placed') = cnt[d][a] + 1
            <7>1. Cardinality(In(d, a) \cap placed') = Cardinality(In(d, a) \cap placed) + 1
              BY <3>5
            <7> QED BY <3>1, <3>2, <4>1, <7>1
          <6>2. cnt'[side] = [cnt[d] EXCEPT ![a] = cnt[d][a] + 1]
            BY <1>5, <4>2, <5>4
          <6>3. ASSUME NEW b \in Buckets[side]
                PROVE  cnt'[side][b] = cum[side][b] + Cardinality(In(side, b) \cap placed')
            <7>1. CASE b = a
              BY <3>1, <5>1, <5>4, <6>1, <6>2, <7>1
            <7>2. CASE b # a
              <8>1. cnt'[side][b] = cnt[side][b]
                BY <5>1, <5>4, <6>2, <7>2
              <8> QED BY <5>1, <5>2, <7>2, <8>1
            <7> QED BY <7>1, <7>2
          <6>4. cnt'[side] = [b \in Buckets[side] |-> cnt'[side][b]]
            BY <5>1, <5>4, <6>2
          <6> QED BY <6>3, <6>4
        <5> QED BY <5>3, <5>4
      <4>4. cnt' = [side \in Sides |-> cnt'[side]]
        BY <1>5, <4>2
      <4> QED BY <4>3, <4>4
    <3> QED BY <3>5, <3>6
  <2>2. CASE ~ Valid(i)
    <3>1. UNCHANGED <<sorted_ids, cnt>>
      BY <2>2 DEF Draw
    <3>2. \A side, b : In(side, b) \cap placed' = In(side, b) \cap placed
      BY <1>1, <1>2, <2>2, Belonging
    <3>3. cnt' = Counts(placed')
      BY <1>5, <3>1, <3>2
    <3>4. Laid(placed)'
      BY <1>1, <1>5, <3>1, <3>2, LaidSame
    <3> QED BY <1>5, <3>1, <3>3, <3>4
  <2> QED BY <2>1, <2>2
<1>7. Drawing'
  <2>1. placed' \in SUBSET Tokens'
    BY <1>1, <1>5, Retained
  <2>2. sorted_ids' \in [Sides -> [0 .. L'-1 -> Int]]
    BY <1>1, <1>6, Retained
  <2>3. cnt' = [side \in Sides |-> [b \in Buckets[side] |->
                  cum'[side][b] + Cardinality(In(side, b)' \cap placed')]]
    BY <1>1, <1>6, Retained
  <2> QED BY <1>6, <2>1, <2>2, <2>3 DEF Drawing
<1>8. AllLaid'
  <2>1. ASSUME phase' = "retired" PROVE Laid(Tokens)'
    <3>1. placed' = Tokens'
      BY <1>1, <2>1, Retained
    <3> QED BY <1>6, <3>1 DEF Laid
  <2> QED BY <2>1 DEF AllLaid
<1>9. InOrder'
  <2>1. MK > NT /\ MK' = MK /\ MK \in Nat /\ NT \in Nat
    BY <1>1, <1>2, Retained, TokenSets, AlignAssumption DEF AlignIInv, InOrder
  <2> QED BY <2>1 DEF InOrder
<1> QED
  BY <1>1, <1>2, <1>3, <1>4, <1>7, <1>8, <1>9
  DEF AlignIInv, Cleared, Counted, Climbed, Named

LEMMA RetireAligns == ASSUME AlignIInv, Retire PROVE AlignIInv'
<1>1. CacheInv' /\ UNCHANGED <<table, ids>> /\ phase' = "idle"
  BY CacheRetained DEF AlignIInv, Retire
<1>2. IdsOK'
  BY <1>1, Retained DEF AlignIInv
<1> QED
  BY <1>1, <1>2 DEF AlignIInv, Cleared, Counted, Climbed, Named, Drawing, AllLaid, InOrder

LEMMA StutterAligns == ASSUME AlignIInv, UNCHANGED alignVars PROVE AlignIInv'
<1>1. CacheInv' /\ UNCHANGED <<table, ids, phase, cnt, cum, sorted_ids, expert_ids, npad, placed>>
  BY CacheRetained DEF AlignIInv, alignVars
<1>2. IdsOK' /\ Cleared' /\ Counted'
  BY <1>1, Retained DEF AlignIInv, Cleared, Counted
<1>3. Climbed' /\ Named'
  BY <1>1, Retained DEF AlignIInv, Climbed, Climbing, Named, Carried
<1>4. Drawing'
  <2>1. SUFFICES ASSUME phase = "draw" PROVE Drawing'
    BY <1>1 DEF Drawing
  <2>2. /\ placed \in SUBSET Tokens /\ Laid(placed)
        /\ sorted_ids \in [Sides -> [0 .. L-1 -> Int]]
        /\ cnt = [side \in Sides |-> [b \in Buckets[side] |->
                    cum[side][b] + Cardinality(In(side, b) \cap placed)]]
    BY <2>1 DEF AlignIInv, Drawing
  <2>3. Laid(placed)'
    BY <1>1, <2>2, LaidSame
  <2>4. placed' \in SUBSET Tokens' /\ sorted_ids' \in [Sides -> [0 .. L'-1 -> Int]]
    BY <1>1, <2>2, Retained
  <2>5. cnt' = [side \in Sides |-> [b \in Buckets[side] |->
                  cum'[side][b] + Cardinality(In(side, b)' \cap placed')]]
    BY <1>1, <2>2, Retained
  <2> QED BY <2>3, <2>4, <2>5 DEF Drawing
<1>5. AllLaid'
  BY <1>1, Retained DEF AlignIInv, AllLaid, Laid
<1>6. InOrder'
  BY <1>1, Retained DEF AlignIInv, InOrder, Position, SideOf, BucketOf, Expert
<1> QED BY <1>1, <1>2, <1>3, <1>4, <1>5, <1>6 DEF AlignIInv

LEMMA AlignKeeps == AlignIInv /\ [AlignNext]_alignVars => AlignIInv'
BY ManageAligns, ClearAligns, CountAligns, ScanAligns, FillAligns, PlaceAligns,
   SetCursorsAligns, DrawAligns, RetireAligns, StutterAligns DEF AlignNext

----------------------------------------------------------------------------
(* The alignments.                                                         *)

(* The outputs are long enough for the blocks of all positions.            *)
LEMMA BlocksFit ==
  ASSUME IdsOK
  PROVE  /\ L \in Nat /\ NB \in Nat /\ L <= NB * BS
         /\ \A p \in 0 .. L-1 : p \div BS \in 0 .. NB-1
<1>1. BS \in Nat \ {0} /\ E \in Nat /\ MK \in Nat
  BY CacheAssumption, AlignAssumption, TokenSets
<1>2. L \in Nat
  <2>1. MK * BS \in Nat /\ MK + E * (BS - 1) \in Nat
    BY <1>1
  <2> QED BY <2>1 DEF L, Lesser
<1>3. NB \in Nat /\ L + BS - 1 < (NB + 1) * BS
  <2>1. L + BS - 1 \in Nat
    BY <1>1, <1>2
  <2> QED BY <1>1, <2>1, QuotientBounds DEF NB
<1>4. (NB + 1) * BS = NB * BS + BS /\ NB * BS \in Nat
  BY <1>1, <1>3
<1>5. L <= NB * BS
  BY <1>1, <1>2, <1>3, <1>4
<1>6. ASSUME NEW p \in 0 .. L-1 PROVE p \div BS \in 0 .. NB-1
  <2>1. p \in Nat /\ p < L
    BY <1>2
  <2>2. p \div BS \in Nat /\ (p \div BS) * BS <= p
    BY <1>1, <2>1, QuotientBounds
  <2>3. (p \div BS) * BS < NB * BS
    <3>1. (p \div BS) * BS \in Nat
      BY <1>1, <2>2
    <3> QED BY <1>2, <1>4, <1>5, <2>1, <2>2, <3>1
  <2>4. p \div BS < NB
    BY <1>1, <1>3, <2>2, <2>3, ProductOrder
  <2> QED BY <1>3, <2>2, <2>4
<1> QED BY <1>2, <1>3, <1>5, <1>6

(* A map that sends the tokens of a side to their buckets, and no others,  *)
(* is the one the side is aligned by.                                      *)
LEMMA SideAligned ==
  ASSUME TypeOK, IdsOK, Climbing, Carried, Laid(Tokens), NEW side \in Sides, NEW map,
         \A i \in Tokens : Valid(i) =>
           /\ map[Expert(i)] # None <=> SideOf(i) = side
           /\ SideOf(i) = side => map[Expert(i)] = BucketOf(i)
  PROVE  Aligned(map, side)
<1> DEFINE mapped == {i \in Tokens : Valid(i) /\ map[Expert(i)] # None}
           blocks == npad[side] \div BS
           at(p)  == sorted_ids[side][p]
           n == Size(side)
<1>1. BS \in Nat \ {0} /\ n \in Nat /\ Buckets[side] = 0 .. n-1 /\ npad[side] = cum[side][n]
  BY AlignAssumption, SideSizes DEF Climbing
<1>2. /\ Stairs(cum[side], n) /\ npad[side] \in Nat /\ npad[side] <= L
      /\ \A b \in 0 .. n : Whole(cum[side][b])
      /\ \A b \in Buckets[side] :
           /\ b \in 0 .. n-1
           /\ Cardinality(In(side, b)) \in Nat
           /\ cum[side][b] \in Nat /\ cum[side][b + 1] \in Nat
           /\ cum[side][b] + Cardinality(In(side, b)) <= cum[side][b + 1]
           /\ cum[side][b + 1] <= npad[side]
  BY Positions
<1>3. Whole(npad[side])
  BY <1>1, <1>2
<1>4. \A b \in Buckets[side] : In(side, b) = {i \in mapped : map[Expert(i)] = b}
  <2>1. \A i \in Tokens : Valid(i) =>
          (map[Expert(i)] # None <=> SideOf(i) = side)
          /\ (SideOf(i) = side => map[Expert(i)] = BucketOf(i))
    OBVIOUS
  <2> QED BY <2>1 DEF In
<1>5. \A i \in mapped : BucketOf(i) \in Buckets[side] /\ i \in In(side, BucketOf(i))
  BY Belonging
<1>6. \A b \in Buckets[side] : In(side, b) \cap Tokens = In(side, b)
  BY Belonging
<1>7. npad[side] % BS = 0 /\ npad[side] <= L
  BY <1>2, <1>3, WholeBlocks
<1>8. \A k \in 0 .. NB-1 :
        /\ \A b \in Buckets[side] :
             cum[side][b] <= k * BS /\ k * BS < cum[side][b + 1] => expert_ids[side][k] = b
        /\ npad[side] <= k * BS => expert_ids[side][k] = None
  BY DEF Carried
<1>9. /\ \A p \in 0 .. L-1 : at(p) # Sentinel =>
           \E b \in Buckets[side] :
             /\ at(p) \in In(side, b)
             /\ cum[side][b] <= p /\ p < cum[side][b] + Cardinality(In(side, b))
      /\ \A b \in Buckets[side] : \A i \in In(side, b) : \E p \in 0 .. L-1 : at(p) = i
      /\ \A p, q \in 0 .. L-1 : at(p) # Sentinel /\ at(p) = at(q) => p = q
  BY <1>6 DEF Laid
<1>10. L \in Nat /\ NB \in Nat /\ L <= NB * BS /\ \A p \in 0 .. L-1 : p \div BS \in 0 .. NB-1
  BY BlocksFit
<1>11. /\ blocks \in Nat /\ blocks * BS = npad[side]
       /\ \A k \in Int : (k < blocks <=> k * BS < npad[side])
                         /\ (k >= blocks <=> npad[side] <= k * BS)
  BY <1>3, WholeBlocks
<1> HIDE DEF mapped, blocks, at, n
<1>12. ASSUME NEW p \in 0 .. L-1, at(p) # Sentinel
       PROVE  /\ at(p) \in mapped /\ p < npad[side]
              /\ map[Expert(at(p))] = expert_ids[side][p \div BS]
  <2>1. PICK b \in Buckets[side] :
          /\ at(p) \in In(side, b)
          /\ cum[side][b] <= p /\ p < cum[side][b] + Cardinality(In(side, b))
    BY <1>9, <1>12
  <2>2. at(p) \in mapped /\ map[Expert(at(p))] = b
    BY <1>4, <2>1
  <2>3. p \in Nat /\ p < cum[side][b + 1] /\ p < npad[side]
    BY <1>2, <2>1
  <2>4. b \in 0 .. n /\ b + 1 \in 0 .. n
    BY <1>1
  <2>5. cum[side][b] <= (p \div BS) * BS /\ (p \div BS) * BS < cum[side][b + 1]
    BY <1>2, <2>1, <2>3, <2>4, WholeBlocks
  <2> QED BY <1>8, <1>10, <2>2, <2>3, <2>5
<1>13. ASSUME NEW i \in mapped
       PROVE  Cardinality({p \in 0 .. L-1 : at(p) = i}) = 1
  <2>1. PICK p \in 0 .. L-1 : at(p) = i
    BY <1>5, <1>9
  <2>2. i # Sentinel
    BY TokenSets DEF mapped, Tokens, Sentinel
  <2>3. {q \in 0 .. L-1 : at(q) = i} = {p}
    BY <1>9, <2>1, <2>2
  <2> QED BY <2>3, FS_Singleton
<1>14. ASSUME NEW k \in 0 .. blocks-1
       PROVE  /\ k \in 0 .. NB-1 /\ k * BS \in Nat /\ expert_ids[side][k] \in Buckets[side]
              /\ \A b \in Buckets[side] :
                   expert_ids[side][k] = b <=> cum[side][b] <= k * BS /\ k * BS < cum[side][b + 1]
  <2>1. k \in Nat /\ k * BS \in Nat /\ k * BS < npad[side]
    BY <1>1, <1>11
  <2>2. k < NB
    <3>1. k * BS < NB * BS
      <4> DEFINE x == NB * BS  y == k * BS
      <4>1. x \in Nat /\ L <= x /\ y \in Nat /\ y < npad[side]
        BY <1>1, <1>10, <2>1
      <4> HIDE DEF x, y
      <4>2. y < x
        BY <1>2, <1>10, <4>1
      <4> QED BY <4>2 DEF x, y
    <3> QED BY <1>1, <1>10, <2>1, <3>1, ProductOrder
  <2>3. k \in 0 .. NB-1
    BY <1>10, <2>1, <2>2
  <2>4. PICK b \in 0 .. n-1 : cum[side][b] <= k * BS /\ k * BS < cum[side][b + 1]
    BY <1>1, <1>2, <2>1, StairsCover
  <2>5. expert_ids[side][k] = b /\ b \in Buckets[side]
    BY <1>1, <1>8, <2>3, <2>4
  <2> QED BY <1>8, <2>1, <2>3, <2>4, <2>5
<1>15. ASSUME NEW k \in 0 .. NB-1
       PROVE  expert_ids[side][k] = None <=> k >= blocks
  <2>1. CASE k >= blocks
    BY <1>8, <1>11, <2>1
  <2>2. CASE k < blocks
    <3>1. k \in 0 .. blocks-1
      BY <1>10, <1>11, <2>2
    <3>2. expert_ids[side][k] \in 0 .. n-1
      BY <1>1, <1>14, <3>1
    <3>3. expert_ids[side][k] # None /\ ~ (k >= blocks)
      BY <1>1, <1>10, <1>11, <2>2, <3>2 DEF None
    <3> QED BY <3>3
  <2> QED BY <1>10, <1>11, <2>1, <2>2
<1>16. ASSUME NEW b \in Buckets[side]
       PROVE  Cardinality({k \in 0 .. blocks-1 : expert_ids[side][k] = b}) * BS
                = Padded(Cardinality({i \in mapped : map[Expert(i)] = b}))
  <2> DEFINE lo == cum[side][b] \div BS  hi == cum[side][b + 1] \div BS
  <2>1. b \in 0 .. n /\ b + 1 \in 0 .. n
    BY <1>1
  <2>2. /\ lo \in Nat /\ lo * BS = cum[side][b]
        /\ \A k \in Int : k >= lo <=> cum[side][b] <= k * BS
    BY <1>2, <2>1, WholeBlocks
  <2>3. /\ hi \in Nat /\ hi * BS = cum[side][b + 1]
        /\ \A k \in Int : k < hi <=> k * BS < cum[side][b + 1]
    BY <1>2, <2>1, WholeBlocks
  <2> HIDE DEF lo, hi
  <2>4. lo <= hi /\ hi <= blocks
    <3>1. lo * BS <= hi * BS
      BY <1>2, <2>2, <2>3
    <3>2. hi * BS <= blocks * BS
      BY <1>2, <1>11, <2>3
    <3> QED BY <1>1, <1>11, <2>2, <2>3, <3>1, <3>2, ProductOrder
  <2>5. {k \in 0 .. blocks-1 : expert_ids[side][k] = b} = lo .. hi-1
    <3>1. ASSUME NEW k \in 0 .. blocks-1
          PROVE  expert_ids[side][k] = b <=> k \in lo .. hi-1
      BY <1>11, <1>14, <2>2, <2>3
    <3>2. lo .. hi-1 \subseteq 0 .. blocks-1
      BY <1>11, <2>2, <2>3, <2>4
    <3> QED BY <3>1, <3>2
  <2>6. Cardinality(lo .. hi-1) = hi - lo
    BY <2>2, <2>3, <2>4, FS_Interval
  <2>7. (hi - lo) * BS = cum[side][b + 1] - cum[side][b]
    <3>1. (hi - lo) * BS = hi * BS - lo * BS
      BY <1>1, <2>2, <2>3
    <3> QED BY <2>2, <2>3, <3>1
  <2>8. cum[side][b + 1] = cum[side][b] + Padded(Cardinality(In(side, b)))
    BY DEF Climbing
  <2>9. Padded(Cardinality(In(side, b))) \in Nat
    BY <1>2, PaddedWhole
  <2>10. (hi - lo) * BS = Padded(Cardinality(In(side, b)))
    BY <1>2, <2>7, <2>8, <2>9
  <2> QED BY <1>4, <2>5, <2>6, <2>10
<1> QED BY <1>7, <1>12, <1>13, <1>15, <1>16 DEF Aligned, mapped, blocks, at

LEMMA RetiredIsDropIn == ASSUME AlignIInv PROVE DropIn
<1>1. SUFFICES ASSUME phase = "retired"
               PROVE  Aligned(table, "hot") /\ Aligned(map_cold, "cold")
  BY DEF DropIn
<1>2. /\ TypeOK /\ Complementary /\ IdsOK /\ Climbing /\ Carried /\ Laid(Tokens)
  BY <1>1 DEF AlignIInv, CacheInv, Climbed, Named, AllLaid
<1>3. ASSUME NEW i \in Tokens, Valid(i)
      PROVE  /\ table[Expert(i)] # None <=> SideOf(i) = "hot"
             /\ SideOf(i) = "hot" => table[Expert(i)] = BucketOf(i)
             /\ map_cold[Expert(i)] # None <=> SideOf(i) = "cold"
             /\ SideOf(i) = "cold" => map_cold[Expert(i)] = BucketOf(i)
  <2>1. Expert(i) \in Experts /\ Expert(i) # None
    BY <1>3 DEF Valid, Expert, Experts, None
  <2>2. /\ table[Expert(i)] \in Slots \cup {None}
        /\ map_cold[Expert(i)] = IF table[Expert(i)] = None THEN Expert(i) ELSE None
    BY <1>2, <2>1 DEF TypeOK, Complementary
  <2>3. None \notin Slots
    BY DEF None, Slots
  <2> QED BY <2>1, <2>2, <2>3 DEF SideOf, BucketOf
<1>4. "hot" \in Sides /\ "cold" \in Sides
  BY DEF Sides
<1> QED BY <1>2, <1>3, <1>4, SideAligned

(* The fused kernel is a drop-in for moe_align_block_size on both sides,   *)
(* whatever the tables, the ids and the order in which threads draw.       *)
THEOREM AlignmentsDropIn == AlignSpec => []DropIn
<1>1. AlignInit => AlignIInv
  BY AlignStarts
<1>2. AlignIInv /\ [AlignNext]_alignVars => AlignIInv'
  BY AlignKeeps
<1>3. AlignIInv => DropIn
  BY RetiredIsDropIn
<1> QED BY <1>1, <1>2, <1>3, PTL DEF AlignSpec

(* Up to NT tokens, the positions in front of a placed token of its block  *)
(* hold tokens that come before it.                                        *)
LEMMA RetiredIsOrdered == ASSUME AlignIInv PROVE Deterministic
<1>1. SUFFICES ASSUME phase = "retired", MK <= NT, NEW side \in Sides,
                      NEW p \in 0 .. L-1, NEW q \in 0 .. L-1, p < q, p \div BS = q \div BS,
                      sorted_ids[side][q] # Sentinel
               PROVE  sorted_ids[side][p] < sorted_ids[side][q]
  BY DEF Deterministic
<1>2. /\ TypeOK /\ IdsOK /\ Climbing /\ Laid(Tokens)
      /\ \A r \in 0 .. L-1 : \A i \in Tokens : sorted_ids[side][r] = i => r = Position(i)
  BY <1>1 DEF AlignIInv, CacheInv, Climbed, AllLaid, InOrder
<1>3. L \in Nat /\ p \in Nat /\ q \in Nat
  BY <1>2, BlocksFit
<1>4. PICK b \in Buckets[side] :
        /\ sorted_ids[side][q] \in In(side, b) \cap Tokens
        /\ cum[side][b] <= q
        /\ q < cum[side][b] + Cardinality(In(side, b) \cap Tokens)
  BY <1>1, <1>2 DEF Laid
<1>5. In(side, b) \cap Tokens = In(side, b)
  BY <1>2, Belonging
<1>6. /\ Whole(cum[side][b]) /\ cum[side][b] \in Nat /\ Cardinality(In(side, b)) \in Nat
  BY <1>2, Positions, SideSizes
<1>7. cum[side][b] <= p
  BY <1>1, <1>3, <1>4, <1>6, WholeBlocks
<1>8. PICK i \in In(side, b) : Position(i) = p
  BY <1>1, <1>2, <1>3, <1>4, <1>5, <1>6, <1>7, PositionOf
<1>9. PICK r \in 0 .. L-1 : sorted_ids[side][r] = i
  BY <1>2, <1>5 DEF Laid
<1>10. sorted_ids[side][p] = i
  BY <1>2, <1>5, <1>8, <1>9
<1> DEFINE j == sorted_ids[side][q]
<1>11. j \in In(side, b) /\ Position(j) = q
  BY <1>2, <1>4, <1>5
<1>12. i \in Int /\ j \in Int
  BY <1>2, <1>4, <1>5, TokenSets DEF Tokens
<1> HIDE DEF j
<1>13. j < i => q < p
  BY <1>2, <1>8, <1>11, PositionOf
<1>14. j # i
  BY <1>1, <1>3, <1>8, <1>11
<1>15. i < j
  BY <1>1, <1>3, <1>12, <1>13, <1>14
<1> QED BY <1>10, <1>15 DEF j

(* A graph of no more slots than threads gets the same bits every time.    *)
THEOREM AlignmentIsDeterministic == AlignSpec => []Deterministic
<1>1. AlignInit => AlignIInv
  BY AlignStarts
<1>2. AlignIInv /\ [AlignNext]_alignVars => AlignIInv'
  BY AlignKeeps
<1>3. AlignIInv => Deterministic
  BY RetiredIsOrdered
<1> QED BY <1>1, <1>2, <1>3, PTL DEF AlignSpec
=============================================================================
