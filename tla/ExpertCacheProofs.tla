------------------------- MODULE ExpertCacheProofs -------------------------
(***************************************************************************)
(* Proofs about ExpertCache, and of its agreement with PreVictim, for      *)
(* every number of experts and slots and every cap.                        *)
(***************************************************************************)
EXTENDS PreVictim, RankingProofs

(* Slots and experts are finite, and there are S slots. *)
LEMMA Finiteness ==
  /\ IsFiniteSet(Slots) /\ Cardinality(Slots) = S
  /\ IsFiniteSet(Experts)
  /\ \A R \in SUBSET Experts : IsFiniteSet(R) /\ Cardinality(R) \in Nat
<1>1. IsFiniteSet(0 .. S-1) /\ Cardinality(0 .. S-1) = S
  BY CacheAssumption, FS_Interval
<1>2. IsFiniteSet(0 .. E-1)
  BY CacheAssumption, FS_Interval
<1>3. \A R \in SUBSET (0 .. E-1) : IsFiniteSet(R) /\ Cardinality(R) \in Nat
  BY <1>2, FS_Subset, FS_CardinalityType
<1> QED
  BY <1>1, <1>2, <1>3 DEF Slots, Experts

(* A slot index below SLOT_BITS bits does not carry into the stamp.        *)
LEMMA KeyArithmetic ==
  ASSUME NEW a \in Int, NEW b \in Int, NEW s \in Int, NEW q \in Int,
         0 <= s, s < 1024, 0 <= q, q < 1024
  PROVE  /\ a < b => a * 1048576 + s < b * 1048576 + q
         /\ a * 1048576 + s = b * 1048576 + q => a = b /\ s = q
<1>1. ASSUME a < b PROVE a * 1048576 + s < b * 1048576 + q
  BY <1>1, SMT
<1>2. ASSUME a * 1048576 + s = b * 1048576 + q PROVE a = b /\ s = q
  BY <1>2, SMT
<1> QED BY <1>1, <1>2

(* The keys tell the evictable slots apart, whatever the stamps: the slot  *)
(* index sits in the low bits.                                             *)
LEMMA KeysDistinct ==
  ASSUME TypeOK, NEW R \in SUBSET Experts
  PROVE  /\ KeyOf(Evictable(R), Key(R)) /\ IsFiniteSet(Evictable(R))
         /\ KeyOf(Misses(R), IdKey(R))  /\ IsFiniteSet(Misses(R))
<1>1. Evictable(R) \in SUBSET Slots /\ Misses(R) \in SUBSET R
  BY DEF Evictable, Misses
<1>2. IsFiniteSet(Evictable(R)) /\ IsFiniteSet(Misses(R))
  BY <1>1, Finiteness, FS_Subset
<1>3. Refreshed(R) \in [Slots -> Nat]
  BY DEF TypeOK, Refreshed
<1>4. \A s \in Evictable(R) : Key(R)[s] = Refreshed(R)[s] * SlotBase + s
  BY DEF Key
<1>5. Key(R) \in [Evictable(R) -> Int]
  <2>1. ASSUME NEW s \in Evictable(R)
        PROVE  Refreshed(R)[s] * SlotBase + s \in Int
    <3>1. Refreshed(R)[s] \in Nat /\ s \in Int
      BY <1>1, <1>3 DEF Slots
    <3> QED BY <3>1 DEF SlotBase
  <2> QED BY <2>1 DEF Key
<1>6. ASSUME NEW s \in Evictable(R), NEW q \in Evictable(R), Key(R)[s] = Key(R)[q]
      PROVE  s = q
  <2>1. Refreshed(R)[s] \in Nat /\ Refreshed(R)[q] \in Nat
    BY <1>1, <1>3
  <2>2. /\ s \in Int /\ 0 <= s /\ s < 1024
        /\ q \in Int /\ 0 <= q /\ q < 1024
    BY <1>1, CacheAssumption DEF Slots, MAXS
  <2>3. Refreshed(R)[s] * 1048576 + s = Refreshed(R)[q] * 1048576 + q
    BY <1>4, <1>6 DEF SlotBase
  <2> QED BY <2>1, <2>2, <2>3, KeyArithmetic
<1>7. KeyOf(Misses(R), IdKey(R))
  <2>1. \A e \in Experts : e \in Int
    BY DEF Experts
  <2>2. \A e \in Misses(R) : e \in Int
    BY <1>1, <2>1
  <2> QED BY <2>2 DEF KeyOf, IdKey
<1> QED
  BY <1>2, <1>5, <1>6, <1>7 DEF KeyOf

(* The inserts of one launch pair the chosen misses and the victims one to *)
(* one: no slot is filled twice, no expert is placed twice.                *)
LEMMA Pairing ==
  ASSUME TypeOK, NEW R \in SUBSET Experts
  PROVE  /\ Nact(R) \in 0 .. MaxInserts
         /\ Nact(R) <= Nins(R) /\ Nins(R) \in 0 .. MaxInserts
         /\ Nins(R) <= Cardinality(Misses(R))
         /\ Inserted(R) \subseteq Misses(R)
         /\ Victims(R) \subseteq Evictable(R)
         /\ \A j \in 0 .. Nins(R)-1 : MissAt(R, j) \in Misses(R)
         /\ \A j \in 0 .. Nact(R)-1 : /\ VictimAt(R, j) \in Victims(R)
                                      /\ MissAt(R, j) \in Inserted(R)
                                      /\ SlotFor(R, MissAt(R, j)) = VictimAt(R, j)
                                      /\ ExpertFor(R, VictimAt(R, j)) = MissAt(R, j)
         /\ \A e \in Inserted(R) : /\ SlotFor(R, e) \in Victims(R)
                                   /\ ExpertFor(R, SlotFor(R, e)) = e
         /\ \A s \in Victims(R) : /\ ExpertFor(R, s) \in Inserted(R)
                                  /\ SlotFor(R, ExpertFor(R, s)) = s
<1> DEFINE M == Misses(R)
           V == Evictable(R)
           k == Nact(R)
<1>1. /\ Cardinality(M) \in Nat
      /\ \A i \in 0 .. Cardinality(M)-1 : Nth(M, IdKey(R), i) \in M
                                          /\ Rank(M, IdKey(R), Nth(M, IdKey(R), i)) = i
  BY KeysDistinct, RankBijective
<1>2. /\ Cardinality(V) \in Nat
      /\ \A i \in 0 .. Cardinality(V)-1 : Nth(V, Key(R), i) \in V
                                          /\ Rank(V, Key(R), Nth(V, Key(R), i)) = i
  BY KeysDistinct, RankBijective
<1>3. /\ Nins(R) \in 0 .. MaxInserts /\ Nins(R) <= Cardinality(M)
      /\ k \in 0 .. MaxInserts /\ k <= Nins(R) /\ k <= Cardinality(V)
  BY <1>1, <1>2, CacheAssumption DEF Nins, Nact, Lesser
<1>4. \A j \in 0 .. Nins(R)-1 : MissAt(R, j) \in M /\ MissRank(R, MissAt(R, j)) = j
  BY <1>1, <1>3 DEF MissAt, MissRank
<1>5. \A j \in 0 .. k-1 : VictimAt(R, j) \in V /\ VictimRank(R, VictimAt(R, j)) = j
  BY <1>2, <1>3 DEF VictimAt, VictimRank
<1>6. \A j \in 0 .. k-1 : j \in 0 .. Nins(R)-1
  BY <1>3
<1>7. \A j \in 0 .. k-1 : /\ VictimAt(R, j) \in Victims(R)
                          /\ MissAt(R, j) \in Inserted(R)
                          /\ SlotFor(R, MissAt(R, j)) = VictimAt(R, j)
                          /\ ExpertFor(R, VictimAt(R, j)) = MissAt(R, j)
  BY <1>4, <1>5, <1>6 DEF Victims, Inserted, SlotFor, ExpertFor
<1>8. /\ \A e \in Inserted(R) : \E j \in 0 .. k-1 : e = MissAt(R, j)
      /\ \A s \in Victims(R) : \E j \in 0 .. k-1 : s = VictimAt(R, j)
  BY DEF Inserted, Victims
<1>9. Inserted(R) \subseteq M /\ Victims(R) \subseteq V
  BY <1>4, <1>5, <1>6, <1>8
<1>10. \A e \in Inserted(R) : SlotFor(R, e) \in Victims(R)
                              /\ ExpertFor(R, SlotFor(R, e)) = e
  BY <1>7, <1>8
<1>11. \A s \in Victims(R) : ExpertFor(R, s) \in Inserted(R)
                             /\ SlotFor(R, ExpertFor(R, s)) = s
  BY <1>7, <1>8
<1> QED
  BY <1>3, <1>4, <1>7, <1>9, <1>10, <1>11

----------------------------------------------------------------------------
(* The inductive invariant.                                                *)

LEMMA InitCacheInv == Init => CacheInv
<1> SUFFICES ASSUME Init PROVE CacheInv
  OBVIOUS
<1> DEFINE at(e) == CHOOSE s \in Slots : slot_expert[s] = e
<1>1. \A e \in Experts : IF \E s \in Slots : slot_expert[s] = e
                           THEN /\ table[e] = at(e) /\ at(e) \in Slots
                                /\ slot_expert[at(e)] = e
                           ELSE table[e] = None
  BY DEF Init
<1>2. \A s, q \in Slots : slot_expert[s] = slot_expert[q] => s = q
  BY DEF Init, Increasing, Slots, Experts
<1>3. slot_expert \in [Slots -> Experts]
  BY DEF Init
<1>4. TypeOK
  <2>1. table \in [Experts -> Slots \cup {None}]
    BY <1>1 DEF Init
  <2>2. map_cold \in [Experts -> Experts \cup {None}]
    BY DEF Init
  <2>3. slot_stamp \in [Slots -> Nat] /\ step \in Nat
    BY CacheAssumption DEF Init
  <2>4. miss \in [Entries -> (Experts \cup {None}) \X (Slots \cup {None})]
    BY DEF Init
  <2>5. n_miss \in 0 .. MaxInserts /\ routed \in SUBSET Experts
    BY CacheAssumption DEF Init
  <2> QED BY <1>3, <2>1, <2>2, <2>3, <2>4, <2>5 DEF TypeOK
<1>5. Complementary
  BY DEF Init, Complementary
<1>6. TableInverse
  BY <1>1, <1>2, <1>3 DEF TableInverse, None, Slots
<1>7. AlwaysFull
  BY <1>3, CacheAssumption DEF AlwaysFull, None, Experts
<1>8. StampsPast
  BY CacheAssumption DEF Init, StampsPast
<1> QED BY <1>4, <1>5, <1>6, <1>7, <1>8 DEF CacheInv

(* A hit slot holds a routed expert, so no victim is a hit.                *)
LEMMA Residency ==
  ASSUME CacheInv, NEW R \in SUBSET Experts
  PROVE  /\ \A e \in Experts : table[e] # None <=> table[e] \in Slots
         /\ \A e \in Experts : table[e] >= 0 <=> table[e] \in Slots
         /\ \A e \in Misses(R) : e \in R /\ table[e] = None
         /\ \A s \in Slots : slot_expert[s] \in Experts
         /\ Evictable(R) = {s \in Slots : slot_expert[s] \notin R}
         /\ HitSlots(R) = {s \in Slots : slot_expert[s] \in R}
<1>1. \A e \in Experts : (table[e] # None <=> table[e] \in Slots)
                         /\ (table[e] >= 0 <=> table[e] \in Slots)
  BY CacheAssumption DEF CacheInv, TypeOK, Slots, None
<1>2. \A e \in Misses(R) : e \in R /\ table[e] = None
  BY <1>1 DEF Misses, CacheInv, TypeOK, Slots
<1>3. \A s \in Slots : slot_expert[s] \in Experts
  BY DEF CacheInv, TypeOK, AlwaysFull
<1>4. Evictable(R) = {s \in Slots : slot_expert[s] \notin R}
  BY <1>3, CacheAssumption DEF Evictable, Experts
<1>5. HitSlots(R) = {s \in Slots : slot_expert[s] \in R}
  BY <1>1, <1>3 DEF HitSlots, Hits, CacheInv, TableInverse, AlwaysFull
<1> QED BY <1>1, <1>2, <1>3, <1>4, <1>5

(* The displaced experts were resident, in the victims' slots, and are not *)
(* among the routed ones.                                                  *)
LEMMA DisplacedFacts ==
  ASSUME CacheInv, NEW R \in SUBSET Experts
  PROVE  /\ \A s \in Victims(R) : /\ s \in Slots /\ slot_expert[s] \in Displaced(R)
                                  /\ slot_expert[s] \in Experts \ R
                                  /\ table[slot_expert[s]] = s
         /\ \A d \in Displaced(R) : /\ d \in Experts \ R
                                    /\ table[d] \in Victims(R)
                                    /\ slot_expert[table[d]] = d
<1>1. \A s \in Victims(R) : s \in Slots /\ slot_expert[s] \in Experts \ R
  BY Pairing, Residency DEF CacheInv
<1>2. \A s \in Victims(R) : table[slot_expert[s]] = s /\ slot_expert[s] \in Displaced(R)
  BY <1>1 DEF CacheInv, TableInverse, AlwaysFull, Displaced
<1>3. \A d \in Displaced(R) : \E s \in Victims(R) : d = slot_expert[s]
  BY DEF Displaced
<1> QED BY <1>1, <1>2, <1>3

LEMMA InsertType ==
  ASSUME CacheInv, NEW R \in SUBSET Experts, Insert(R)
  PROVE  TypeOK'
<1>1. TypeOK
  BY DEF CacheInv
<1>2. Inserted(R) \subseteq R /\ Victims(R) \subseteq Slots
  BY <1>1, Pairing, Residency DEF Evictable
<1>3. table' \in [Experts -> Slots \cup {None}]
  <2>1. \A e \in Inserted(R) : SlotFor(R, e) \in Slots
    BY <1>1, <1>2, Pairing
  <2> QED BY <1>1, <2>1 DEF Insert, TypeOK
<1>4. map_cold' \in [Experts -> Experts \cup {None}]
  BY <1>1 DEF Insert, TypeOK
<1>5. slot_expert' \in [Slots -> Experts \cup {None}]
  <2>1. \A s \in Victims(R) : ExpertFor(R, s) \in Experts
    BY <1>1, <1>2, Pairing
  <2> QED BY <1>1, <2>1 DEF Insert, TypeOK
<1>6. slot_stamp' \in [Slots -> Nat] /\ step' \in Nat
  BY <1>1 DEF Insert, Begin, TypeOK, Refreshed
<1>7. miss' \in [Entries -> (Experts \cup {None}) \X (Slots \cup {None})]
  <2>1. \A j \in 0 .. Nins(R)-1 : MissAt(R, j) \in Experts
    BY <1>1, Pairing, Residency
  <2>2. \A j \in 0 .. Nact(R)-1 : VictimAt(R, j) \in Slots
    BY <1>1, <1>2, Pairing
  <2>3. ASSUME NEW j \in Entries
        PROVE  /\ (IF j < Nins(R) THEN MissAt(R, j) ELSE miss[j][1]) \in Experts \cup {None}
               /\ (IF j < Nact(R) THEN VictimAt(R, j) ELSE miss[j][2]) \in Slots \cup {None}
    <3>1. /\ j \in Nat /\ Nins(R) \in Int /\ Nact(R) \in Int
          /\ (j < Nins(R) => j \in 0 .. Nins(R)-1)
          /\ (j < Nact(R) => j \in 0 .. Nact(R)-1)
      BY <1>1, Pairing, CacheAssumption DEF Entries
    <3>2. miss[j] \in (Experts \cup {None}) \X (Slots \cup {None})
      BY <1>1 DEF TypeOK
    <3> QED BY <2>1, <2>2, <3>1, <3>2
  <2> QED BY <2>3 DEF Insert, MissAfter
<1>8. n_miss' \in 0 .. MaxInserts /\ routed' \in SUBSET Experts
  BY <1>1, Pairing DEF Insert, Begin
<1> QED BY <1>3, <1>4, <1>5, <1>6, <1>7, <1>8 DEF TypeOK

LEMMA InsertInv ==
  ASSUME CacheInv, NEW R \in SUBSET Experts, Insert(R)
  PROVE  CacheInv'
<1>0. TypeOK /\ Complementary /\ TableInverse /\ AlwaysFull /\ StampsPast
  BY DEF CacheInv
<1>1. TypeOK'
  BY InsertType
<1>2. /\ \A e \in Experts : table'[e] = IF e \in Inserted(R) THEN SlotFor(R, e)
                                        ELSE IF e \in Displaced(R) THEN None ELSE table[e]
      /\ \A e \in Experts : map_cold'[e] = IF e \in Inserted(R) THEN None
                                           ELSE IF e \in Displaced(R) THEN e ELSE map_cold[e]
      /\ \A s \in Slots : slot_expert'[s] = IF s \in Victims(R) THEN ExpertFor(R, s)
                                            ELSE slot_expert[s]
  BY DEF Insert
<1>3. /\ \A e \in Inserted(R) : SlotFor(R, e) \in Victims(R) /\ ExpertFor(R, SlotFor(R, e)) = e
      /\ \A s \in Victims(R) : ExpertFor(R, s) \in Inserted(R) /\ SlotFor(R, ExpertFor(R, s)) = s
      /\ \A e \in Inserted(R) : e \in Experts /\ table[e] = None
  BY <1>0, Pairing, Residency
<1>4. None \notin Slots /\ None \notin Experts
  BY CacheAssumption DEF None, Slots, Experts
<1>5. Complementary'
  <2>1. \A e \in Inserted(R) : SlotFor(R, e) # None
    BY <1>3, <1>4, DisplacedFacts
  <2> QED BY <1>0, <1>2, <2>1 DEF Complementary
<1>6. TableInverse'
  <2>1. ASSUME NEW e \in Experts, table'[e] # None
        PROVE  slot_expert'[table'[e]] = e
    <3>1. CASE e \in Inserted(R)
      BY <1>2, <1>3, <3>1, DisplacedFacts
    <3>2. CASE e \notin Inserted(R)
      <4>1. e \notin Displaced(R) /\ table'[e] = table[e] /\ table[e] # None
        BY <1>2, <2>1, <3>2
      <4>2. slot_expert[table[e]] = e /\ table[e] \in Slots
        BY <1>0, <4>1, Residency DEF TableInverse
      <4>3. table[e] \notin Victims(R)
        BY <4>1, <4>2, DisplacedFacts
      <4> QED BY <1>2, <4>1, <4>2, <4>3
    <3> QED BY <3>1, <3>2
  <2>2. ASSUME NEW s \in Slots, slot_expert'[s] # None
        PROVE  table'[slot_expert'[s]] = s
    <3>1. CASE s \in Victims(R)
      BY <1>2, <1>3, <3>1
    <3>2. CASE s \notin Victims(R)
      <4>1. slot_expert'[s] = slot_expert[s] /\ slot_expert[s] \in Experts
        BY <1>2, <3>2, Residency
      <4>2. table[slot_expert[s]] = s
        BY <1>0 DEF TableInverse, AlwaysFull
      <4>3. slot_expert[s] \notin Inserted(R)
        BY <1>3, <1>4, <4>2
      <4>4. slot_expert[s] \notin Displaced(R)
        BY <3>2, <4>2, DisplacedFacts
      <4> QED BY <1>2, <4>1, <4>2, <4>3, <4>4
    <3> QED BY <3>1, <3>2
  <2> QED BY <2>1, <2>2 DEF TableInverse
<1>7. AlwaysFull'
  BY <1>0, <1>2, <1>3, <1>4 DEF AlwaysFull
<1>8. StampsPast'
  BY <1>0 DEF StampsPast, Insert, Begin, Refreshed, TypeOK
<1> QED BY <1>1, <1>5, <1>6, <1>7, <1>8 DEF CacheInv

(* Launches that insert nothing touch only the stamps and the scratch.     *)
LEMMA QuietInv ==
  ASSUME CacheInv, NEW R \in SUBSET Experts, ReadThrough(R) \/ Refresh(R)
  PROVE  CacheInv'
<1>1. /\ table' = table /\ map_cold' = map_cold
      /\ slot_expert' = slot_expert /\ miss' = miss
      /\ step' = step + 1 /\ routed' = R /\ n_miss' = 0
      /\ slot_stamp' = slot_stamp \/ slot_stamp' = Refreshed(R)
  BY DEF ReadThrough, Refresh, Begin
<1>2. TypeOK'
  BY <1>1, CacheAssumption DEF CacheInv, TypeOK, Refreshed
<1>3. Complementary' /\ TableInverse' /\ AlwaysFull'
  BY <1>1 DEF CacheInv, Complementary, TableInverse, AlwaysFull
<1>4. StampsPast'
  BY <1>1 DEF CacheInv, StampsPast, Refreshed, TypeOK
<1> QED BY <1>2, <1>3, <1>4 DEF CacheInv

LEMMA NextInv == CacheInv /\ [Next]_vars => CacheInv'
<1> SUFFICES ASSUME CacheInv, [Next]_vars PROVE CacheInv'
  OBVIOUS
<1>1. CASE Next
  <2>1. PICK R \in SUBSET Experts : ReadThrough(R) \/ Refresh(R) \/ Insert(R)
    BY <1>1 DEF Next, Launch, RoutedSets
  <2> QED BY <2>1, QuietInv, InsertInv
<1>2. CASE UNCHANGED vars
  BY <1>2 DEF vars, CacheInv, TypeOK, Complementary, TableInverse, AlwaysFull, StampsPast
<1> QED BY <1>1, <1>2

(* The cache's bookkeeping stays consistent through every sequence of      *)
(* launches, for every E, S and cap.                                       *)
THEOREM CacheInvariant == Spec => []CacheInv
<1>1. Init => CacheInv
  BY InitCacheInv
<1>2. CacheInv /\ [Next]_vars => CacheInv'
  BY NextInv
<1> QED BY <1>1, <1>2, PTL DEF Spec

----------------------------------------------------------------------------
(* What a launch does to the routed experts.                               *)

(* An expert that is resident and routed keeps its slot.                   *)
LEMMA StepKeepsRouted ==
  ASSUME CacheInv, [Next]_vars, ~ UNCHANGED vars
  PROVE  \A e \in routed' : table[e] # None => table'[e] = table[e]
<1>1. PICK R \in SUBSET Experts : Launch(R)
  BY DEF Next, RoutedSets
<1>2. routed' = R
  BY <1>1 DEF Launch, ReadThrough, Refresh, Insert, Begin
<1>3. CASE table' = table
  BY <1>3
<1>4. CASE Insert(R)
  <2>1. SUFFICES ASSUME NEW e \in R, table[e] # None
                 PROVE  table'[e] = table[e]
    BY <1>2
  <2>2. e \in Experts /\ e \notin Inserted(R)
    BY <2>1, Pairing, Residency DEF CacheInv
  <2>3. e \notin Displaced(R)
    BY DisplacedFacts
  <2> QED BY <1>4, <2>2, <2>3 DEF Insert
<1> QED
  BY <1>1, <1>3, <1>4 DEF Launch, ReadThrough, Refresh

(* No launch evicts or moves an expert it routes.                          *)
THEOREM RoutedStay == Spec => KeepsRouted
<1>1. CacheInv /\ [Next]_vars =>
        [\A e \in routed' : table[e] # None => table'[e] = table[e]]_vars
  BY StepKeepsRouted
<1> QED BY <1>1, CacheInvariant, PTL DEF Spec, KeepsRouted

(* The miss list names exactly the experts that moved in.                  *)
LEMMA StepMissList ==
  ASSUME CacheInv, [Next]_vars, ~ UNCHANGED vars
  PROVE  {miss'[j] : j \in 0 .. n_miss'-1} =
           {<<e, table'[e]>> : e \in {x \in Experts : table'[x] # None
                                                     /\ table'[x] # table[x]}}
<1>1. PICK R \in SUBSET Experts : Launch(R)
  BY DEF Next, RoutedSets
<1>2. CASE ReadThrough(R) \/ Refresh(R)
  BY <1>2 DEF ReadThrough, Refresh
<1>3. CASE Insert(R)
  <2> DEFINE moved == {x \in Experts : table'[x] # None /\ table'[x] # table[x]}
  <2>0. /\ Nact(R) \in 0 .. MaxInserts /\ Nins(R) \in 0 .. MaxInserts
        /\ Nact(R) <= Nins(R)
        /\ \A j \in 0 .. Nact(R)-1 : /\ MissAt(R, j) \in Inserted(R)
                                     /\ SlotFor(R, MissAt(R, j)) = VictimAt(R, j)
        /\ \A e \in Inserted(R) : SlotFor(R, e) \in Victims(R)
        /\ \A e \in Inserted(R) : e \in Experts /\ table[e] = None
    BY Pairing, Residency DEF CacheInv
  <2>1. moved = Inserted(R)
    <3>1. \A e \in Inserted(R) : SlotFor(R, e) # None
      BY <2>0, DisplacedFacts DEF Slots, None
    <3>2. \A e \in Inserted(R) : table'[e] = SlotFor(R, e)
      BY <1>3, <2>0 DEF Insert
    <3>3. \A e \in Experts \ Inserted(R) : table'[e] = None \/ table'[e] = table[e]
      BY <1>3 DEF Insert
    <3> QED BY <2>0, <3>1, <3>2, <3>3
  <2>2. \A j \in 0 .. Nact(R)-1 :
           miss'[j] = <<MissAt(R, j), table'[MissAt(R, j)]>>
    <3>1. SUFFICES ASSUME NEW j \in 0 .. Nact(R)-1
                   PROVE  miss'[j] = <<MissAt(R, j), table'[MissAt(R, j)]>>
      OBVIOUS
    <3>2. j \in Entries /\ j < Nins(R) /\ j < Nact(R)
      BY <2>0, CacheAssumption DEF Entries
    <3>3. miss'[j] = <<MissAt(R, j), VictimAt(R, j)>>
      BY <1>3, <3>2 DEF Insert, MissAfter
    <3>4. table'[MissAt(R, j)] = VictimAt(R, j)
      BY <1>3, <2>0 DEF Insert
    <3> QED BY <3>3, <3>4
  <2>3. n_miss' = Nact(R)
    BY <1>3 DEF Insert
  <2>4. {miss'[j] : j \in 0 .. Nact(R)-1} = {<<e, table'[e]>> : e \in Inserted(R)}
    <3>1. Inserted(R) = {MissAt(R, j) : j \in 0 .. Nact(R)-1}
      BY DEF Inserted
    <3> QED BY <2>2, <3>1, Zenon
  <2> QED BY <2>1, <2>3, <2>4
<1> QED BY <1>1, <1>2, <1>3 DEF Launch

(* The gather is told of every expert that moved in and of nothing else.   *)
THEOREM MissListIsExact == Spec => MissListExact
<1>1. CacheInv /\ [Next]_vars =>
        [{miss'[j] : j \in 0 .. n_miss'-1} =
           {<<e, table'[e]>> : e \in {x \in Experts : table'[x] # None
                                                     /\ table'[x] # table[x]}}]_vars
  BY StepMissList
<1> QED BY <1>1, CacheInvariant, PTL DEF Spec, MissListExact

----------------------------------------------------------------------------
(* Why the cold GEMM may be skipped for small batches.                     *)

(* The slots a launch must not evict are at most as many as its hits, so   *)
(* there are enough victims for every miss as long as the distinct routed  *)
(* experts do not outnumber the slots.                                     *)
LEMMA EnoughVictims ==
  ASSUME CacheInv, NEW R \in SUBSET Experts, Cardinality(R) <= S
  PROVE  Cardinality(Misses(R)) <= Cardinality(Evictable(R))
<1> DEFINE kept == Slots \ Evictable(R)
           f == [s \in kept |-> slot_expert[s]]
<1>1. Hits(R) \cup Misses(R) = R /\ Hits(R) \cap Misses(R) = {}
  <2>1. \A e \in Experts : table[e] >= 0 \/ table[e] < 0
    BY DEF CacheInv, TypeOK, Slots, None
  <2>2. \A e \in Experts : ~ (table[e] >= 0 /\ table[e] < 0)
    BY DEF CacheInv, TypeOK, Slots, None
  <2> QED BY <2>1, <2>2 DEF Hits, Misses
<1>2. /\ IsFiniteSet(Hits(R)) /\ IsFiniteSet(Misses(R))
      /\ Cardinality(R) = Cardinality(Hits(R)) + Cardinality(Misses(R))
  <2>1. Hits(R) \in SUBSET R /\ Misses(R) \in SUBSET R /\ IsFiniteSet(R)
    BY Finiteness DEF Hits, Misses
  <2> QED BY <1>1, <2>1, SplitSize
<1>3. f \in Injection(kept, Hits(R))
  <2>1. \A s \in kept : slot_expert[s] \in R /\ table[slot_expert[s]] = s /\ s \in Slots
    BY Residency DEF CacheInv, TableInverse, AlwaysFull
  <2>2. \A s \in kept : slot_expert[s] \in Hits(R)
    BY <2>1, Residency DEF Hits
  <2>3. f \in [kept -> Hits(R)]
    BY <2>2
  <2>4. \A a, b \in kept : f[a] = f[b] => a = b
    BY <2>1
  <2> QED BY <2>3, <2>4, Fun_IsInj
<1>4. IsFiniteSet(kept) /\ Cardinality(kept) <= Cardinality(Hits(R))
  BY <1>2, <1>3, FS_Injection
<1>5. Cardinality(Evictable(R)) + Cardinality(kept) = S
  <2>1. Evictable(R) \cup kept = Slots /\ Evictable(R) \cap kept = {}
    BY DEF Evictable
  <2>2. Evictable(R) \in SUBSET Slots /\ kept \in SUBSET Slots /\ IsFiniteSet(Slots)
    BY Finiteness DEF Evictable
  <2>3. Cardinality(Slots) = Cardinality(Evictable(R)) + Cardinality(kept)
    <3> HIDE DEF kept
    <3> QED BY <2>1, <2>2, SplitSize
  <2> QED BY <2>3, Finiteness
<1>6. /\ Cardinality(Hits(R)) \in Nat /\ Cardinality(Misses(R)) \in Nat
      /\ Cardinality(kept) \in Nat /\ Cardinality(Evictable(R)) \in Nat
  BY <1>2, <1>4, FS_CardinalityType, FS_Subset, Finiteness DEF Evictable
<1> QED
  <2> HIDE DEF kept, f
  <2> QED BY <1>2, <1>4, <1>5, <1>6, CacheAssumption

(* Within both caps every miss is inserted.                                *)
LEMMA AllMissesInserted ==
  ASSUME CacheInv, NEW R \in SUBSET Experts, Cardinality(R) <= MaxInserts
  PROVE  /\ Nins(R) = Cardinality(Misses(R))
         /\ Nact(R) = Cardinality(Misses(R))
         /\ Inserted(R) = Misses(R)
<1>1. /\ Misses(R) \in SUBSET R /\ IsFiniteSet(R) /\ Cardinality(R) \in Nat
  BY Finiteness DEF Misses
<1>2. /\ Cardinality(Misses(R)) <= Cardinality(R)
      /\ Cardinality(Misses(R)) \in Nat
  BY <1>1, FS_Subset, FS_CardinalityType
<1>3. Cardinality(R) <= S /\ Cardinality(Misses(R)) <= MaxInserts
  BY <1>1, <1>2, CacheAssumption
<1>4. Cardinality(Misses(R)) <= Cardinality(Evictable(R))
  BY <1>3, EnoughVictims
<1>5. Nins(R) = Cardinality(Misses(R)) /\ Nact(R) = Cardinality(Misses(R))
  BY <1>2, <1>3, <1>4 DEF Nins, Nact, Lesser
<1>6. \A e \in Misses(R) : /\ MissRank(R, e) \in 0 .. Cardinality(Misses(R))-1
                           /\ MissAt(R, MissRank(R, e)) = e
  BY KeysDistinct, RankBijective DEF MissRank, MissAt, CacheInv
<1>7. Misses(R) \subseteq Inserted(R)
  BY <1>5, <1>6 DEF Inserted
<1>8. Inserted(R) \subseteq Misses(R)
  BY Pairing DEF CacheInv
<1> QED BY <1>5, <1>7, <1>8

LEMMA StepFewAreAllResident ==
  ASSUME CacheInv, [Next]_vars, ~ UNCHANGED vars,
         Cardinality(routed') <= Lesser(MaxInserts, MaxDistinct)
  PROVE  \A e \in routed' : table'[e] # None /\ map_cold'[e] = None
<1>1. PICK R \in SUBSET Experts : Launch(R)
  BY DEF Next, RoutedSets
<1>2. routed' = R
  BY <1>1 DEF Launch, ReadThrough, Refresh, Insert, Begin
<1>3. Cardinality(R) <= MaxInserts /\ Cardinality(R) <= MaxDistinct
  BY <1>2, Finiteness, CacheAssumption DEF Lesser
<1>4. CacheInv'
  BY NextInv
<1>5. SUFFICES ASSUME NEW e \in R
               PROVE  table'[e] # None
  BY <1>2, <1>4 DEF CacheInv, Complementary
<1>6. table[e] # None \/ e \in Misses(R)
  BY Residency DEF Misses, CacheInv, TypeOK, None, Slots
<1>7. CASE ReadThrough(R)
  BY <1>3, <1>7, Finiteness, CacheAssumption DEF ReadThrough
<1>8. CASE Refresh(R)
  <2>1. Cardinality(Misses(R)) = 0
    BY <1>3, <1>8, AllMissesInserted DEF Refresh
  <2>2. Misses(R) = {}
    BY <2>1, KeysDistinct, FS_EmptySet DEF CacheInv
  <2> QED BY <1>6, <1>8, <2>2 DEF Refresh
<1>9. CASE Insert(R)
  <2>1. CASE e \in Misses(R)
    <3>1. e \in Inserted(R)
      BY <1>3, <2>1, AllMissesInserted
    <3>2. SlotFor(R, e) \in Slots
      BY <3>1, Pairing, DisplacedFacts DEF CacheInv
    <3> QED BY <1>9, <3>1, <3>2 DEF Insert, Slots, None
  <2>2. CASE table[e] # None
    BY <1>2, <2>2, StepKeepsRouted
  <2> QED BY <1>6, <2>1, <2>2
<1> QED BY <1>1, <1>7, <1>8, <1>9 DEF Launch

(* A batch with at most min(max_inserts, max_distinct) routing slots       *)
(* leaves no routed expert cold, whatever the number of slots: skip_cold   *)
(* drops only empty work.                                                  *)
THEOREM FewAreResident == Spec => FewAreAllResident
<1>1. CacheInv /\ [Next]_vars =>
        [Cardinality(routed') <= Lesser(MaxInserts, MaxDistinct) =>
           \A e \in routed' : table'[e] # None /\ map_cold'[e] = None]_vars
  BY StepFewAreAllResident
<1> QED BY <1>1, CacheInvariant, PTL DEF Spec, FewAreAllResident

----------------------------------------------------------------------------
(* The cache implements the LRU contract: seen by expert, each launch is  *)
(* one request of LruContract.                                             *)

(* A launch that is not read through, whether or not it inserts, moves the *)
(* inserted experts in, the displaced ones out and stamps the routed ones. *)
LEMMA NarrowLaunch ==
  ASSUME CacheInv, NEW R \in SUBSET Experts, Refresh(R) \/ Insert(R)
  PROVE  /\ \A e \in Experts : table'[e] = IF e \in Inserted(R) THEN SlotFor(R, e)
                                           ELSE IF e \in Displaced(R) THEN None
                                           ELSE table[e]
         /\ \A s \in Slots : slot_stamp'[s] = IF s \in Victims(R) THEN step + 1
                                              ELSE Refreshed(R)[s]
<1>1. CASE Insert(R)
  BY <1>1 DEF Insert
<1>2. CASE Refresh(R)
  <2>1. Nact(R) = 0
    BY <1>2, Pairing DEF Refresh, CacheInv
  <2>2. Inserted(R) = {} /\ Victims(R) = {} /\ Displaced(R) = {}
    BY <2>1 DEF Inserted, Victims, Displaced
  <2> QED BY <1>2, <2>2 DEF Refresh
<1> QED BY <1>1, <1>2

(* As many experts leave as come in, Nact of each.                         *)
LEMMA InsertSizes ==
  ASSUME CacheInv, NEW R \in SUBSET Experts
  PROVE  /\ IsFiniteSet(Inserted(R)) /\ IsFiniteSet(Victims(R))
         /\ Cardinality(Inserted(R)) = Nact(R)
         /\ Cardinality(Victims(R)) = Nact(R)
         /\ Cardinality(Displaced(R)) = Nact(R)
<1> DEFINE I == Inserted(R)
           V == Victims(R)
           D == Displaced(R)
           ranks == 0 .. Nact(R)-1
<1>1. IsFiniteSet(ranks) /\ Cardinality(ranks) = Nact(R)
  BY Pairing, FS_Interval DEF CacheInv
<1>2. /\ \A j \in ranks : VictimAt(R, j) \in V /\ MissAt(R, j) \in I
      /\ \A i, j \in ranks : VictimAt(R, i) = VictimAt(R, j) => i = j
      /\ \A i, j \in ranks : MissAt(R, i) = MissAt(R, j) => i = j
  <2>1. \A j \in ranks : j \in 0 .. Cardinality(Misses(R))-1
                         /\ j \in 0 .. Cardinality(Evictable(R))-1
    BY Pairing, KeysDistinct, RankBijective DEF CacheInv, Nact, Lesser
  <2>2. \A j \in ranks : MissRank(R, MissAt(R, j)) = j
    BY <2>1, KeysDistinct, RankBijective DEF CacheInv, MissRank, MissAt
  <2>3. \A j \in ranks : VictimRank(R, VictimAt(R, j)) = j
    BY <2>1, KeysDistinct, RankBijective DEF CacheInv, VictimRank, VictimAt
  <2> QED BY <2>2, <2>3, Pairing DEF CacheInv
<1>3. IsFiniteSet(I) /\ Cardinality(I) = Nact(R)
  <2> DEFINE f == [j \in ranks |-> MissAt(R, j)]
  <2>1. f \in Bijection(ranks, I)
    <3>1. f \in [ranks -> I] /\ \A i, j \in ranks : f[i] = f[j] => i = j
      BY <1>2
    <3>2. \A e \in I : \E j \in ranks : f[j] = e
      BY DEF Inserted
    <3> QED BY <3>1, <3>2, Fun_IsBij
  <2>2. ExistsBijection(ranks, I)
    BY <2>1, Fun_ExistsBij
  <2> HIDE DEF ranks, I
  <2> QED BY <1>1, <2>2, FS_Bijection
<1>4. IsFiniteSet(V) /\ Cardinality(V) = Nact(R)
  <2> DEFINE f == [j \in ranks |-> VictimAt(R, j)]
  <2>1. f \in Bijection(ranks, V)
    <3>1. f \in [ranks -> V] /\ \A i, j \in ranks : f[i] = f[j] => i = j
      BY <1>2
    <3>2. \A s \in V : \E j \in ranks : f[j] = s
      BY DEF Victims
    <3> QED BY <3>1, <3>2, Fun_IsBij
  <2>2. ExistsBijection(ranks, V)
    BY <2>1, Fun_ExistsBij
  <2> HIDE DEF ranks, V
  <2> QED BY <1>1, <2>2, FS_Bijection
<1>5. Cardinality(D) = Nact(R)
  <2> DEFINE f == [s \in V |-> slot_expert[s]]
  <2>1. f \in Bijection(V, D)
    <3>1. f \in [V -> D] /\ \A a, b \in V : f[a] = f[b] => a = b
      BY DisplacedFacts
    <3>2. \A d \in D : \E s \in V : f[s] = d
      BY DEF Displaced
    <3> QED BY <3>1, <3>2, Fun_IsBij
  <2>2. ExistsBijection(V, D)
    BY <2>1, Fun_ExistsBij
  <2> HIDE DEF V, D
  <2> QED BY <1>4, <2>2, FS_Bijection
<1> QED BY <1>3, <1>4, <1>5

(* A displaced expert was routed no later than an unrouted one that stays. *)
LEMMA OldestLeave ==
  ASSUME CacheInv, NEW R \in SUBSET Experts,
         NEW v \in Displaced(R), NEW k \in (Resident \ R) \ Displaced(R)
  PROVE  slot_stamp[table[v]] <= slot_stamp[table[k]]
<1> DEFINE a == table[v]
           b == table[k]
<1>1. a \in Victims(R) /\ a \in Evictable(R) /\ a \in Slots
  BY DisplacedFacts, Pairing DEF CacheInv
<1>2. k \in Experts /\ k \notin R /\ b \in Slots /\ slot_expert[b] = k
  BY Residency DEF Resident, CacheInv, TableInverse
<1>3. b \in Evictable(R) /\ b \notin Victims(R)
  BY <1>2, Residency DEF Displaced
<1>4. /\ \A s \in Evictable(R) : VictimRank(R, s) \in 0 .. Cardinality(Evictable(R))-1
                                 /\ VictimAt(R, VictimRank(R, s)) = s
      /\ Cardinality(Evictable(R)) \in Nat
  BY KeysDistinct, RankBijective DEF VictimRank, VictimAt, CacheInv
<1>5. VictimRank(R, a) < Nact(R)
  <2>1. PICK j \in 0 .. Nact(R)-1 : a = VictimAt(R, j)
    BY <1>1 DEF Victims
  <2>2. j \in 0 .. Cardinality(Evictable(R))-1 /\ j < Nact(R)
    BY <2>1, <1>4, Pairing DEF CacheInv, Nact, Lesser
  <2>3. VictimRank(R, a) = j
    BY <2>1, <2>2, KeysDistinct, RankBijective DEF VictimRank, VictimAt, CacheInv
  <2> QED BY <2>2, <2>3
<1>6. ~ (VictimRank(R, b) < Nact(R))
  <2> SUFFICES ASSUME VictimRank(R, b) < Nact(R) PROVE FALSE
    OBVIOUS
  <2>1. VictimRank(R, b) \in 0 .. Nact(R)-1
    BY <1>3, <1>4, Pairing DEF CacheInv
  <2> QED BY <1>3, <1>4, <2>1 DEF Victims
<1>7. ~ (Key(R)[b] < Key(R)[a])
  <2> SUFFICES ASSUME Key(R)[b] < Key(R)[a] PROVE FALSE
    OBVIOUS
  <2>1. VictimRank(R, b) < VictimRank(R, a)
    BY <1>1, <1>3, KeysDistinct, RankMonotone DEF VictimRank, CacheInv
  <2>2. VictimRank(R, a) \in Int /\ VictimRank(R, b) \in Int /\ Nact(R) \in Int
    BY <1>1, <1>3, <1>4, Pairing DEF CacheInv
  <2> QED BY <1>5, <1>6, <2>1, <2>2
<1>8. Refreshed(R)[a] = slot_stamp[a] /\ Refreshed(R)[b] = slot_stamp[b]
  BY <1>1, <1>2, <1>3, Residency DEF Refreshed
<1>9. slot_stamp[a] \in Nat /\ slot_stamp[b] \in Nat
  BY <1>1, <1>2 DEF CacheInv, TypeOK
<1>10. /\ a \in Int /\ 0 <= a /\ a < 1024
       /\ b \in Int /\ 0 <= b /\ b < 1024
  BY <1>1, <1>2, CacheAssumption DEF Slots, MAXS
<1>11. /\ Key(R)[a] = slot_stamp[a] * 1048576 + a
       /\ Key(R)[b] = slot_stamp[b] * 1048576 + b
  BY <1>1, <1>3, <1>8 DEF Key, SlotBase
<1>12. slot_stamp[b] < slot_stamp[a] =>
         slot_stamp[b] * 1048576 + b < slot_stamp[a] * 1048576 + a
  BY <1>9, <1>10, KeyArithmetic
<1>13. ~ (slot_stamp[b] < slot_stamp[a])
  BY <1>7, <1>11, <1>12
<1> QED BY <1>9, <1>13

(* The contract counts as the cache does.                                  *)
LEMMA SameCardinality == \A X : Contract!Cardinality(X) = Cardinality(X)
  BY DEF Contract!Cardinality, Cardinality

(* The warm start is a full contract cache.                                *)
LEMMA InitContract == Init => Contract!Init
<1> SUFFICES ASSUME Init PROVE Contract!Init
  OBVIOUS
<1>0. CacheInv
  BY InitCacheInv
<1>1. Resident \in SUBSET Experts
  BY DEF Resident
<1>2. Cardinality(Resident) = S
  <2> DEFINE f == [s \in Slots |-> slot_expert[s]]
  <2>1. f \in Bijection(Slots, Resident)
    <3>1. \A s \in Slots : slot_expert[s] \in Resident /\ table[slot_expert[s]] = s
      BY <1>0, Residency DEF CacheInv, TableInverse, AlwaysFull, Resident
    <3>2. f \in [Slots -> Resident] /\ \A a, b \in Slots : f[a] = f[b] => a = b
      BY <3>1
    <3>3. \A e \in Resident : table[e] \in Slots /\ f[table[e]] = e
      BY <1>0, Residency DEF CacheInv, TableInverse, Resident
    <3> QED BY <3>2, <3>3, Fun_IsBij
  <2>2. ExistsBijection(Slots, Resident)
    BY <2>1, Fun_ExistsBij
  <2> QED BY <2>2, Finiteness, FS_Bijection
<1>3. [e \in Resident |-> slot_stamp[table[e]]] \in [Resident -> 0 .. S]
  <2>1. \A e \in Resident : table[e] \in Slots
    BY <1>0, Residency DEF Resident
  <2>2. slot_stamp \in [Slots -> 0 .. S]
    BY DEF Init
  <2> QED BY <2>1, <2>2
<1>4. step = S /\ routed = {}
  BY DEF Init
<1> QED
  BY <1>1, <1>2, <1>3, <1>4, SameCardinality DEF Contract!Init, Contract!Universe, Experts

(* A launch that is not read through serves its request.                   *)
LEMMA NarrowServes ==
  ASSUME CacheInv, NEW R \in SUBSET Experts, Refresh(R) \/ Insert(R)
  PROVE  Contract!Serve(R)
<1> DEFINE ins == Inserted(R)
           vic == Displaced(R)
           stay == (Resident \ vic) \cup ins
<1>0. CacheInv'
  BY QuietInv, InsertInv
<1>1. /\ Cardinality(R) <= MaxDistinct
      /\ step' = step + 1 /\ routed' = R
  BY DEF Refresh, Insert, Begin
<1>2. /\ ins \in SUBSET (R \ Resident)
      /\ vic \in SUBSET (Resident \ R)
  <2>1. ins \subseteq R /\ \A e \in ins : table[e] = None
    BY Pairing, Residency DEF CacheInv
  <2>2. \A d \in vic : d \in Experts \ R /\ table[d] \in Slots
    BY DisplacedFacts
  <2> QED BY <2>1, <2>2, Residency DEF Resident
<1>3. Cardinality(vic) = Cardinality(ins)
  BY InsertSizes
<1>4. \/ ins = R \ Resident
      \/ Cardinality(ins) = MaxInserts
      \/ vic = Resident \ R
  <2>1. R \ Resident = Misses(R)
    <3>1. \A e \in Experts : table[e] # None <=> ~ (table[e] < 0)
      BY DEF CacheInv, TypeOK, Slots, None
    <3> QED BY <3>1 DEF Resident, Misses
  <2>2. \/ Nact(R) = Cardinality(Misses(R))
        \/ Nact(R) = MaxInserts
        \/ Nact(R) = Cardinality(Evictable(R))
    BY DEF Nact, Nins, Lesser
  <2>3. CASE Nact(R) = Cardinality(Misses(R))
    <3>1. Cardinality(ins) = Cardinality(Misses(R)) /\ ins \in SUBSET Misses(R)
      BY <2>3, InsertSizes, Pairing DEF CacheInv
    <3>2. ins = Misses(R)
      BY <3>1, KeysDistinct, FS_Subset DEF CacheInv
    <3> QED BY <2>1, <3>2
  <2>4. CASE Nact(R) = MaxInserts
    BY <2>4, InsertSizes
  <2>5. CASE Nact(R) = Cardinality(Evictable(R))
    <3>1. Cardinality(Victims(R)) = Cardinality(Evictable(R))
          /\ Victims(R) \in SUBSET Evictable(R)
      BY <2>5, InsertSizes, Pairing DEF CacheInv
    <3>2. Victims(R) = Evictable(R)
      BY <3>1, KeysDistinct, FS_Subset DEF CacheInv
    <3>3. \A e \in Resident \ R : table[e] \in Evictable(R) /\ slot_expert[table[e]] = e
      BY Residency DEF Resident, CacheInv, TableInverse
    <3>4. Resident \ R \subseteq vic
      BY <3>2, <3>3 DEF Displaced
    <3> QED BY <1>2, <3>4
  <2> QED BY <2>2, <2>3, <2>4, <2>5
<1>5. \A v \in vic, k \in (Resident \ R) \ vic :
         [e \in Resident |-> slot_stamp[table[e]]][v]
            <= [e \in Resident |-> slot_stamp[table[e]]][k]
  BY <1>2, OldestLeave
<1>6. \A e \in ins : /\ e \in Experts /\ e \in R /\ e \notin vic
                     /\ table'[e] = SlotFor(R, e)
                     /\ table'[e] \in Victims(R) /\ table'[e] \in Slots
  BY <1>2, Pairing, NarrowLaunch, DisplacedFacts, Residency DEF CacheInv
<1>7. \A e \in Experts \ ins : table'[e] = IF e \in vic THEN None ELSE table[e]
  BY NarrowLaunch
<1>8. Resident' = stay
  <2>1. \A e \in Experts : table'[e] # None <=> e \in stay
    <3>1. \A e \in ins : table'[e] # None
      BY <1>6 DEF Slots, None
    <3> QED BY <1>2, <1>6, <1>7, <3>1 DEF Resident
  <2>2. stay \in SUBSET Experts
    BY <1>6 DEF Resident
  <2> QED BY <2>1, <2>2 DEF Resident
<1>9. ASSUME NEW e \in stay
      PROVE  slot_stamp'[table'[e]] =
               IF e \in R THEN step + 1
               ELSE [x \in Resident |-> slot_stamp[table[x]]][e]
  <2>1. CASE e \in ins
    BY <1>6, <2>1, NarrowLaunch
  <2>2. CASE e \notin ins
    <3>1. e \in Resident /\ e \in Experts /\ e \notin vic
      BY <2>2 DEF Resident
    <3>2. table'[e] = table[e] /\ table[e] \in Slots /\ slot_expert[table[e]] = e
      BY <1>7, <2>2, <3>1, Residency DEF Resident, CacheInv, TableInverse
    <3>3. table[e] \notin Victims(R)
      BY <3>1, <3>2, DisplacedFacts
    <3>4. slot_stamp'[table'[e]] = Refreshed(R)[table[e]]
      BY <3>2, <3>3, NarrowLaunch
    <3>5. table[e] \in HitSlots(R) <=> e \in R
      BY <3>2, Residency
    <3> QED BY <3>1, <3>2, <3>4, <3>5 DEF Refreshed
  <2> QED BY <2>1, <2>2
<1>10. [e \in Resident' |-> slot_stamp'[table'[e]]] =
         [e \in stay |-> IF e \in R THEN step + 1
                         ELSE [x \in Resident |-> slot_stamp[table[x]]][e]]
  BY <1>8, <1>9
<1> QED
  <2> HIDE DEF ins, vic
  <2> QED
    BY <1>1, <1>2, <1>3, <1>4, <1>5, <1>8, <1>10, SameCardinality DEF Contract!Serve

(* Every step of the cache is a step of the contract or leaves it alone.   *)
LEMMA StepContract ==
  ASSUME CacheInv, [Next]_vars
  PROVE  [Contract!Next]_(Contract!contractVars)
<1>1. CASE UNCHANGED vars
  BY <1>1 DEF vars, Contract!contractVars, Resident
<1>2. CASE Next
  <2>1. PICK R \in (SUBSET Experts) \ {{}} : Launch(R)
    BY <1>2 DEF Next, RoutedSets
  <2>2. CASE ReadThrough(R)
    <3>1. Contract!ReadThrough(R)
      BY <2>2, SameCardinality DEF ReadThrough, Begin, Contract!ReadThrough, Resident
    <3> QED BY <3>1 DEF Contract!Next, Contract!Universe, Experts
  <2>3. CASE Refresh(R) \/ Insert(R)
    <3>1. Contract!Serve(R)
      BY <2>3, NarrowServes
    <3> QED BY <3>1 DEF Contract!Next, Contract!Universe, Experts
  <2> QED BY <2>1, <2>2, <2>3 DEF Launch
<1> QED BY <1>1, <1>2

(* The cache is an LRU cache: the slots, tables, stamps and ranks of the   *)
(* kernel implement the contract for every E, S and cap.                   *)
THEOREM CacheImplementsLru == Spec => ImplementsLru
<1>1. Init => Contract!Init
  BY InitContract
<1>2. CacheInv /\ [Next]_vars => [Contract!Next]_(Contract!contractVars)
  BY StepContract
<1> QED
  BY <1>1, <1>2, CacheInvariant, PTL DEF Spec, ImplementsLru, Contract!Spec

----------------------------------------------------------------------------
(* The serial kernel before it.  Each round finds the next victim of the   *)
(* ranking: what it filled holds a routed expert and is not open again     *)
(* (OpenAfter), so the smallest key left is that of the next rank          *)
(* (FoundIsNext); when no slot is open, the ranking has none left either   *)
(* (RoundIsIdle).  So the rounds run through After(R, 0), After(R, 1), ... *)
(* and stay there, which is what the launch does at once (RoundsAreAfter). *)

(* The state of the serial loop when m slots have been filled. *)
First(R, m)    == {MissAt(R, j)   : j \in 0 .. m-1}
Refilled(R, m) == {VictimAt(R, j) : j \in 0 .. m-1}
Ousted(R, m)   == {slot_expert[s] : s \in Refilled(R, m)}
After(R, m) ==
  [table |-> [x \in Experts |-> IF x \in First(R, m) THEN SlotFor(R, x)
                                ELSE IF x \in Ousted(R, m) THEN None ELSE table[x]],
   map_cold |-> [x \in Experts |-> IF x \in First(R, m) THEN None
                                   ELSE IF x \in Ousted(R, m) THEN x ELSE map_cold[x]],
   s_se |-> [s \in Slots |-> IF s \in Refilled(R, m) THEN ExpertFor(R, s) ELSE slot_expert[s]],
   s_st |-> [s \in Slots |-> IF s \in Refilled(R, m) THEN step + 1 ELSE Refreshed(R)[s]],
   miss |-> [j \in Entries |-> <<IF j < Nins(R) THEN MissAt(R, j) ELSE miss[j][1],
                                 IF j < m THEN VictimAt(R, j) ELSE miss[j][2]>>],
   s_nins |-> m]

(* Who is filled when: the m-th victim is new, and ranks tell the others. *)
LEMMA RoundFacts ==
  ASSUME CacheInv, NEW R \in SUBSET Experts, NEW m \in 0 .. Nact(R)
  PROVE  /\ Nact(R) \in Nat /\ m \in Nat /\ Nact(R) <= Cardinality(Evictable(R))
         /\ Cardinality(Evictable(R)) \in Nat
         /\ Refilled(R, m) \subseteq Victims(R) /\ First(R, m) \subseteq Inserted(R)
         /\ \A s \in Evictable(R) : VictimRank(R, s) \in 0 .. Cardinality(Evictable(R)) - 1
                                    /\ (s \in Refilled(R, m) <=> VictimRank(R, s) < m)
<1> DEFINE V == Evictable(R)
<1>1. TypeOK
  BY DEF CacheInv
<1>2. /\ Cardinality(V) \in Nat
      /\ \A i \in 0 .. Cardinality(V)-1 : Nth(V, Key(R), i) \in V
                                          /\ Rank(V, Key(R), Nth(V, Key(R), i)) = i
      /\ \A s \in V : Rank(V, Key(R), s) \in 0 .. Cardinality(V)-1
                      /\ Nth(V, Key(R), Rank(V, Key(R), s)) = s
  BY <1>1, KeysDistinct, RankBijective
<1>3. Nact(R) \in Nat /\ Nins(R) \in Nat /\ Nact(R) <= Cardinality(V)
  BY <1>1, <1>2, Pairing DEF Nact, Lesser
<1>4. m \in Nat /\ m <= Nact(R) /\ \A j \in 0 .. m-1 : j \in 0 .. Nact(R)-1 /\ j \in 0 .. Cardinality(V)-1
  <2> HIDE DEF V
  <2>1. m \in Nat /\ m <= Nact(R) /\ Cardinality(V) \in Nat
    BY <1>2, <1>3
  <2>2. ASSUME NEW j \in 0 .. m-1 PROVE j \in 0 .. Nact(R)-1 /\ j \in 0 .. Cardinality(V)-1
    BY <1>3, <2>1
  <2> QED BY <2>1, <2>2
<1>5. Refilled(R, m) \subseteq Victims(R) /\ First(R, m) \subseteq Inserted(R)
  BY <1>4 DEF Refilled, First, Victims, Inserted
<1>6. ASSUME NEW s \in V
      PROVE  VictimRank(R, s) \in 0 .. Cardinality(V) - 1 /\ (s \in Refilled(R, m) <=> VictimRank(R, s) < m)
  <2>1. VictimRank(R, s) \in 0 .. Cardinality(V) - 1 /\ VictimAt(R, VictimRank(R, s)) = s
    BY <1>2 DEF VictimRank, VictimAt
  <2>2. ASSUME s \in Refilled(R, m) PROVE VictimRank(R, s) < m
    <3>1. PICK j \in 0 .. m-1 : s = VictimAt(R, j)
      BY <2>2 DEF Refilled
    <3>2. VictimRank(R, s) = j
      BY <1>2, <1>4, <3>1 DEF VictimRank, VictimAt
    <3> QED BY <1>4, <3>2
  <2>3. ASSUME VictimRank(R, s) < m PROVE s \in Refilled(R, m)
    <3>1. VictimRank(R, s) \in 0 .. m-1
      BY <1>2, <1>4, <2>1, <2>3
    <3> QED BY <2>1, <3>1 DEF Refilled
  <2> QED BY <2>1, <2>2, <2>3
<1> QED BY <1>2, <1>3, <1>4, <1>5, <1>6

(* A filled slot holds an expert of this launch, and is not open again. *)
LEMMA OpenAfter ==
  ASSUME CacheInv, NEW R \in SUBSET Experts, NEW m \in 0 .. Nact(R)
  PROVE  Open(R, After(R, m)) = Evictable(R) \ Refilled(R, m)
<1>1. TypeOK
  BY DEF CacheInv
<1>2. Refilled(R, m) \subseteq Victims(R)
  BY RoundFacts
<1>3. \A s \in Refilled(R, m) : ExpertFor(R, s) \in Misses(R)
  BY <1>1, <1>2, Pairing
<1>4. \A s \in Refilled(R, m) : ExpertFor(R, s) \in R /\ ExpertFor(R, s) >= 0
  <2>1. \A x \in Experts : x >= 0
    BY DEF Experts
  <2>2. Misses(R) \subseteq R
    BY DEF Misses
  <2> QED BY <1>3, <2>1, <2>2
<1>5. \A s \in Slots : After(R, m).s_se[s] = IF s \in Refilled(R, m) THEN ExpertFor(R, s) ELSE slot_expert[s]
  BY DEF After
<1>6. \A s \in Slots : s \in Open(R, After(R, m)) <=> s \in Evictable(R) \ Refilled(R, m)
  BY <1>4, <1>5 DEF Open, Evictable
<1> QED BY <1>6 DEF Open, Evictable

(* The slot the next round finds is the next victim of the ranking. *)
LEMMA FoundIsNext ==
  ASSUME CacheInv, NEW R \in SUBSET Experts, NEW m \in 0 .. Nact(R), m < Nact(R)
  PROVE  /\ ArgMin(R, After(R, m)) = VictimAt(R, m)
         /\ VictimAt(R, m) \in Evictable(R) \ Refilled(R, m)
<1> DEFINE v == VictimAt(R, m)
           w == After(R, m)
           key == [s \in Slots |-> w.s_st[s] * SlotBase + s]
<1>1. TypeOK
  BY DEF CacheInv
<1>2. /\ KeyOf(Evictable(R), Key(R)) /\ IsFiniteSet(Evictable(R)) /\ Evictable(R) \subseteq Slots
  BY <1>1, KeysDistinct DEF Evictable
<1>3. m \in 0 .. Cardinality(Evictable(R)) - 1 /\ m \in Nat
  BY RoundFacts
<1>4. v \in Evictable(R) /\ VictimRank(R, v) = m
  BY <1>2, <1>3, RankBijective DEF VictimRank, VictimAt
<1>5. v \in Evictable(R) \ Refilled(R, m)
  BY <1>3, <1>4, RoundFacts
<1>6. \A s \in Open(R, w) : s \in Evictable(R) /\ s \in Slots /\ s \notin Refilled(R, m) /\ key[s] = Key(R)[s]
  BY <1>2, OpenAfter DEF After, Key
<1>7. ASSUME NEW q \in Open(R, w) PROVE Key(R)[v] <= Key(R)[q]
  <2>1. q \in Evictable(R) /\ ~ (VictimRank(R, q) < m) /\ VictimRank(R, q) \in Nat
    <3>1. q \in Evictable(R) /\ q \notin Refilled(R, m) /\ Cardinality(Evictable(R)) \in Nat
      BY <1>6, RoundFacts
    <3>2. VictimRank(R, q) \in 0 .. Cardinality(Evictable(R)) - 1 /\ ~ (VictimRank(R, q) < m)
      BY <3>1, RoundFacts
    <3> QED BY <3>1, <3>2
  <2>2. Key(R)[v] \in Int /\ Key(R)[q] \in Int
    BY <1>2, <1>4, <2>1 DEF KeyOf
  <2>3. ~ (Key(R)[q] < Key(R)[v])
    BY <1>2, <1>4, <2>1, RankMonotone DEF VictimRank
  <2> QED BY <2>2, <2>3
<1>8. v \in Open(R, w)
  BY <1>5, OpenAfter
<1>9. ASSUME NEW s \in Open(R, w), \A q \in Open(R, w) : key[s] <= key[q] PROVE s = v
  <2>1. Key(R)[s] <= Key(R)[v] /\ Key(R)[v] <= Key(R)[s]
    BY <1>6, <1>7, <1>8, <1>9
  <2>2. Key(R)[s] \in Int /\ Key(R)[v] \in Int
    BY <1>2, <1>6, <1>8 DEF KeyOf
  <2>3. Key(R)[s] = Key(R)[v]
    BY <2>1, <2>2
  <2> QED BY <1>2, <1>4, <1>6, <2>3 DEF KeyOf
<1>10. \A q \in Open(R, w) : key[v] <= key[q]
  BY <1>6, <1>7, <1>8
<1>11. ArgMin(R, w) = v
  <2> HIDE DEF v, w
  <2>1. ArgMin(R, w) = CHOOSE s \in Open(R, w) : \A q \in Open(R, w) : key[s] <= key[q]
    BY DEF ArgMin
  <2> HIDE DEF key
  <2> QED BY <1>8, <1>9, <1>10, <2>1
<1> QED BY <1>5, <1>11

(* The loop starts with nothing filled. *)
LEMMA StartIsAfter ==
  ASSUME CacheInv, NEW R \in SUBSET Experts
  PROVE  LoopStart(R) = After(R, 0)
<1>1. First(R, 0) = {} /\ Refilled(R, 0) = {} /\ Ousted(R, 0) = {}
  BY DEF First, Refilled, Ousted
<1>2. /\ table = [x \in Experts |-> table[x]] /\ map_cold = [x \in Experts |-> map_cold[x]]
      /\ slot_expert = [s \in Slots |-> slot_expert[s]]
      /\ \A j \in Entries : miss[j] = <<miss[j][1], miss[j][2]>> /\ ~ (j < 0)
  BY DEF CacheInv, TypeOK, Entries
<1>3. Refreshed(R) = [s \in Slots |-> Refreshed(R)[s]]
  BY DEF Refreshed
<1>4. [j \in Entries |-> IF j < Nins(R) THEN <<MissAt(R, j), miss[j][2]>> ELSE miss[j]]
        = [j \in Entries |-> <<IF j < Nins(R) THEN MissAt(R, j) ELSE miss[j][1],
                                IF j < 0 THEN VictimAt(R, j) ELSE miss[j][2]>>]
  BY <1>2
<1> QED BY <1>1, <1>2, <1>3, <1>4 DEF LoopStart, After

(* One more round, one more slot filled, its expert ousted. *)
LEMMA RoundIsAfter ==
  ASSUME CacheInv, NEW R \in SUBSET Experts, NEW m \in 0 .. Nact(R), m < Nact(R)
  PROVE  Round(R, After(R, m), MissAt(R, m)) = After(R, m + 1)
<1> DEFINE v == VictimAt(R, m)
           e == MissAt(R, m)
           old == slot_expert[v]
           w == After(R, m)
<1>1. TypeOK /\ TableInverse /\ AlwaysFull
  BY DEF CacheInv
<1>2. m \in Nat /\ Nact(R) \in Nat /\ m \in 0 .. Nact(R)-1 /\ m + 1 \in 0 .. Nact(R)
  BY RoundFacts
<1>3. /\ First(R, m + 1) = First(R, m) \cup {e} /\ Refilled(R, m + 1) = Refilled(R, m) \cup {v}
      /\ Ousted(R, m + 1) = Ousted(R, m) \cup {old}
  <2>1. \A j : j \in 0 .. (m + 1) - 1 <=> j \in 0 .. m-1 \/ j = m
    BY <1>2
  <2> QED BY <2>1 DEF First, Refilled, Ousted
<1>4. ArgMin(R, w) = v /\ v \in Evictable(R) \ Refilled(R, m) /\ v \in Slots /\ Open(R, w) # {}
  BY FoundIsNext, OpenAfter DEF Evictable
<1>5. w.s_se[v] = old
  BY <1>4 DEF After
<1>6. e \in Misses(R) /\ SlotFor(R, e) = v /\ ExpertFor(R, v) = e /\ e \in Experts
  BY <1>1, <1>2, Pairing DEF Misses
<1>7. old \in Experts /\ old \notin R
  <2>1. old \in Experts
    BY <1>1, <1>4 DEF TypeOK, AlwaysFull
  <2>2. old >= 0
    BY <2>1 DEF Experts
  <2> QED BY <1>4, <2>1, <2>2 DEF Evictable
<1>8. First(R, m + 1) \subseteq R
  BY <1>1, <1>2, RoundFacts, Pairing DEF Misses
<1>9. old \notin First(R, m + 1) /\ e # old
  BY <1>3, <1>7, <1>8
<1> HIDE DEF v, e, old
<1>10. [x \in Experts |-> IF x = e THEN v ELSE IF x = old THEN None ELSE w.table[x]]
         = After(R, m + 1).table
  <2>1. \A x \in Experts : w.table[x] = IF x \in First(R, m) THEN SlotFor(R, x)
                                        ELSE IF x \in Ousted(R, m) THEN None ELSE table[x]
    BY DEF After
  <2>2. \A x \in Experts : (IF x = e THEN v ELSE IF x = old THEN None ELSE w.table[x])
          = IF x \in First(R, m + 1) THEN SlotFor(R, x)
            ELSE IF x \in Ousted(R, m + 1) THEN None ELSE table[x]
    BY <1>3, <1>6, <1>9, <2>1
  <2>3. After(R, m + 1).table = [x \in Experts |-> IF x \in First(R, m + 1) THEN SlotFor(R, x)
                                 ELSE IF x \in Ousted(R, m + 1) THEN None ELSE table[x]]
    BY DEF After
  <2> QED BY <2>2, <2>3
<1>11. [x \in Experts |-> IF x = e THEN None ELSE IF x = old THEN x ELSE w.map_cold[x]]
         = After(R, m + 1).map_cold
  <2>1. \A x \in Experts : w.map_cold[x] = IF x \in First(R, m) THEN None
                                           ELSE IF x \in Ousted(R, m) THEN x ELSE map_cold[x]
    BY DEF After
  <2>2. \A x \in Experts : (IF x = e THEN None ELSE IF x = old THEN x ELSE w.map_cold[x])
          = IF x \in First(R, m + 1) THEN None
            ELSE IF x \in Ousted(R, m + 1) THEN x ELSE map_cold[x]
    BY <1>3, <1>9, <2>1
  <2>3. After(R, m + 1).map_cold = [x \in Experts |-> IF x \in First(R, m + 1) THEN None
                                    ELSE IF x \in Ousted(R, m + 1) THEN x ELSE map_cold[x]]
    BY DEF After
  <2> QED BY <2>2, <2>3
<1>12. [w.s_se EXCEPT ![v] = e] = After(R, m + 1).s_se
  <2>1. w.s_se = [s \in Slots |-> IF s \in Refilled(R, m) THEN ExpertFor(R, s) ELSE slot_expert[s]]
    BY DEF After
  <2>2. After(R, m + 1).s_se
          = [s \in Slots |-> IF s \in Refilled(R, m + 1) THEN ExpertFor(R, s) ELSE slot_expert[s]]
    BY DEF After
  <2> QED BY <1>3, <1>6, <2>1, <2>2
<1>13. [w.s_st EXCEPT ![v] = step + 1] = After(R, m + 1).s_st
  <2>1. w.s_st = [s \in Slots |-> IF s \in Refilled(R, m) THEN step + 1 ELSE Refreshed(R)[s]]
    BY DEF After
  <2>2. After(R, m + 1).s_st
          = [s \in Slots |-> IF s \in Refilled(R, m + 1) THEN step + 1 ELSE Refreshed(R)[s]]
    BY DEF After
  <2> QED BY <1>3, <2>1, <2>2
<1>14. [j \in Entries |-> IF j = m THEN <<w.miss[j][1], v>> ELSE w.miss[j]] = After(R, m + 1).miss
  <2>1. \A j \in Entries : w.miss[j] = <<IF j < Nins(R) THEN MissAt(R, j) ELSE miss[j][1],
                                         IF j < m THEN VictimAt(R, j) ELSE miss[j][2]>>
    BY DEF After
  <2>2. \A j \in Entries : (j < m + 1 <=> j < m \/ j = m) /\ (j = m => ~ (j < m))
    BY <1>2 DEF Entries
  <2>3. ASSUME NEW j \in Entries
        PROVE  (IF j = m THEN <<w.miss[j][1], v>> ELSE w.miss[j])
                 = <<IF j < Nins(R) THEN MissAt(R, j) ELSE miss[j][1],
                     IF j < m + 1 THEN VictimAt(R, j) ELSE miss[j][2]>>
    BY <2>1, <2>2 DEF v
  <2>4. After(R, m + 1).miss
          = [j \in Entries |-> <<IF j < Nins(R) THEN MissAt(R, j) ELSE miss[j][1],
                                  IF j < m + 1 THEN VictimAt(R, j) ELSE miss[j][2]>>]
    BY DEF After
  <2> QED BY <2>3, <2>4
<1>15. w.s_nins = m /\ After(R, m + 1).s_nins = m + 1
  BY DEF After
<1>16. Round(R, w, e) =
         [table    |-> [x \in Experts |-> IF x = e THEN v ELSE IF x = old THEN None ELSE w.table[x]],
          map_cold |-> [x \in Experts |-> IF x = e THEN None ELSE IF x = old THEN x ELSE w.map_cold[x]],
          s_se     |-> [w.s_se EXCEPT ![v] = e],
          s_st     |-> [w.s_st EXCEPT ![v] = step + 1],
          miss     |-> [j \in Entries |-> IF j = m THEN <<w.miss[j][1], v>> ELSE w.miss[j]],
          s_nins   |-> m + 1]
  <2> HIDE DEF w
  <2> QED BY <1>4, <1>5, <1>15 DEF Round
<1>17. After(R, m + 1) =
         [table    |-> After(R, m + 1).table,
          map_cold |-> After(R, m + 1).map_cold,
          s_se     |-> After(R, m + 1).s_se,
          s_st     |-> After(R, m + 1).s_st,
          miss     |-> After(R, m + 1).miss,
          s_nins   |-> After(R, m + 1).s_nins]
  BY DEF After
<1>18. Round(R, w, e) = After(R, m + 1)
  <2> HIDE DEF w
  <2> QED BY <1>10, <1>11, <1>12, <1>13, <1>14, <1>15, <1>16, <1>17
<1> QED BY <1>18 DEF e

(* When no slot is open, nothing is done. *)
LEMMA RoundIsIdle ==
  ASSUME CacheInv, NEW R \in SUBSET Experts, Nact(R) < Nins(R), NEW e
  PROVE  Round(R, After(R, Nact(R)), e) = After(R, Nact(R))
<1>1. TypeOK
  BY DEF CacheInv
<1>2. Nact(R) \in Nat /\ Nact(R) \in 0 .. Nact(R) /\ Nins(R) \in Nat
  BY <1>1, Pairing
<1>3. Nact(R) = Cardinality(Evictable(R)) /\ Cardinality(Evictable(R)) \in Nat
  BY <1>2, RoundFacts DEF Nact, Lesser
<1>4. \A s \in Evictable(R) : VictimRank(R, s) < Nact(R)
  <2> TAKE s \in Evictable(R)
  <2>1. VictimRank(R, s) \in 0 .. Cardinality(Evictable(R)) - 1
    BY <1>2, RoundFacts
  <2> QED BY <1>3, <2>1
<1>5. Evictable(R) \ Refilled(R, Nact(R)) = {}
  BY <1>2, <1>4, RoundFacts
<1>6. Open(R, After(R, Nact(R))) = {}
  BY <1>2, <1>5, OpenAfter
<1> QED BY <1>6 DEF Round

(* The rounds one by one. *)
LEMMA RoundsAreAfter ==
  ASSUME CacheInv, NEW R \in SUBSET Experts
  PROVE  SerialLoop(R) = After(R, Nact(R))
<1> DEFINE n == Nins(R)
           D == 0 .. n
           w == Rounds(R)
           c == [r \in D |-> After(R, Lesser(r, Nact(R)))]
           Def(f) == f = [r \in D |-> IF r = 0 THEN LoopStart(R) ELSE Round(R, f[r - 1], MissAt(R, r - 1))]
<1>1. TypeOK
  BY DEF CacheInv
<1>2. n \in Nat /\ Nact(R) \in 0 .. n /\ Nact(R) \in Nat
  BY <1>1, Pairing
<1> HIDE DEF n
<1>3. \A r \in D : Lesser(r, Nact(R)) \in 0 .. Nact(R)
  BY <1>2 DEF Lesser
<1>4. ASSUME NEW r \in D
      PROVE  c[r] = IF r = 0 THEN LoopStart(R) ELSE Round(R, c[r - 1], MissAt(R, r - 1))
  <2>1. CASE r = 0
    <3>1. Lesser(0, Nact(R)) = 0
      BY <1>2 DEF Lesser
    <3> QED BY <2>1, <3>1, StartIsAfter
  <2>2. CASE r # 0 /\ r <= Nact(R)
    <3>1. Lesser(r, Nact(R)) = (r - 1) + 1 /\ Lesser(r - 1, Nact(R)) = r - 1 /\ r - 1 \in D
          /\ r - 1 \in 0 .. Nact(R) /\ r - 1 < Nact(R)
      BY <1>2, <2>2 DEF Lesser
    <3>2. Round(R, After(R, r - 1), MissAt(R, r - 1)) = After(R, (r - 1) + 1)
      BY <3>1, RoundIsAfter
    <3> QED BY <2>2, <3>1, <3>2
  <2>3. CASE r # 0 /\ ~ (r <= Nact(R))
    <3>1. Lesser(r, Nact(R)) = Nact(R) /\ Lesser(r - 1, Nact(R)) = Nact(R) /\ r - 1 \in D
          /\ Nact(R) < n
      BY <1>2, <2>3 DEF Lesser
    <3>2. Round(R, After(R, Nact(R)), MissAt(R, r - 1)) = After(R, Nact(R))
      BY <3>1, RoundIsIdle DEF n
    <3> QED BY <2>3, <3>1, <3>2
  <2> QED BY <2>1, <2>2, <2>3
<1>5. w = CHOOSE f : Def(f)
  BY DEF Rounds, n
<1>6. Def(c)
  BY <1>4
<1> HIDE DEF c
<1>7. Def(w)
  <2> HIDE DEF w, Def
  <2> QED BY <1>5, <1>6
<1> HIDE DEF w
<1>8. \A r \in D : r = 0 \/ r - 1 \in D
  BY <1>2
<1>9. \A r \in D : /\ w[r] = IF r = 0 THEN LoopStart(R) ELSE Round(R, w[r - 1], MissAt(R, r - 1))
                   /\ c[r] = IF r = 0 THEN LoopStart(R) ELSE Round(R, c[r - 1], MissAt(R, r - 1))
  BY <1>6, <1>7
<1> DEFINE A == {r \in Nat : r \in D => w[r] = c[r]}
<1>10. 0 \in A
  BY <1>9
<1>11. ASSUME NEW r \in A PROVE r + 1 \in A
  <2>1. r \in Nat /\ (r \in D => w[r] = c[r]) /\ r + 1 # 0 /\ (r + 1) - 1 = r
    BY <1>11
  <2>2. r + 1 \in D => r \in D
    BY <1>2, <2>1
  <2>3. r + 1 \in D => w[r + 1] = c[r + 1]
    BY <1>9, <2>1, <2>2
  <2> QED BY <2>1, <2>3
<1>12. n \in A /\ n \in D
  <2>1. A \in SUBSET Nat
    OBVIOUS
  <2> HIDE DEF A
  <2> QED BY <1>2, <1>10, <1>11, <2>1, NatSetInduction
<1>13. w[n] = c[n] /\ Lesser(n, Nact(R)) = Nact(R)
  BY <1>2, <1>12 DEF Lesser
<1> QED BY <1>12, <1>13 DEF SerialLoop, w, c, n

(* What is left when all rounds are done is what a launch leaves. *)
LEMMA StepSerial ==
  ASSUME CacheInv, NEW R \in RoutedSets, Launch(R), Cardinality(R) <= MaxDistinct
  PROVE  SerialLoop(R) =
           [table |-> table', map_cold |-> map_cold', s_se |-> slot_expert',
            s_st |-> slot_stamp', miss |-> miss', s_nins |-> n_miss']
<1>1. TypeOK /\ R \in SUBSET Experts /\ Cardinality(R) \in Nat
  BY Finiteness DEF CacheInv, RoutedSets
<1>2. SerialLoop(R) = After(R, Nact(R))
  BY <1>1, RoundsAreAfter
<1>3. ~ ReadThrough(R)
  BY <1>1, CacheAssumption DEF ReadThrough
<1>4. ASSUME Refresh(R)
      PROVE  After(R, Nact(R)) = [table |-> table', map_cold |-> map_cold', s_se |-> slot_expert',
                                  s_st |-> slot_stamp', miss |-> miss', s_nins |-> n_miss']
  <2>1. Nact(R) = 0 /\ Nins(R) = 0
    BY <1>1, <1>4, Pairing DEF Refresh
  <2>2. After(R, 0) = LoopStart(R)
    BY <1>1, StartIsAfter
  <2>3. [j \in Entries |-> IF j < Nins(R) THEN <<MissAt(R, j), miss[j][2]>> ELSE miss[j]] = miss
    BY <1>1, <2>1 DEF TypeOK, Entries
  <2> QED BY <1>4, <2>1, <2>2, <2>3 DEF Refresh, LoopStart
<1>5. ASSUME Insert(R)
      PROVE  After(R, Nact(R)) = [table |-> table', map_cold |-> map_cold', s_se |-> slot_expert',
                                  s_st |-> slot_stamp', miss |-> miss', s_nins |-> n_miss']
  <2>1. First(R, Nact(R)) = Inserted(R) /\ Refilled(R, Nact(R)) = Victims(R)
        /\ Ousted(R, Nact(R)) = Displaced(R)
    BY DEF First, Refilled, Ousted, Inserted, Victims, Displaced
  <2> QED BY <1>5, <2>1 DEF Insert, After, MissAfter
<1> QED BY <1>2, <1>3, <1>4, <1>5 DEF Launch

(* Every launch that is not read through leaves each table, stamp and miss *)
(* entry as the serial loop of r4d_lru_pre_victim.hip would have: "the     *)
(* same answer, not an approximation" (pickVictims).                       *)
THEOREM SerialIsTheSame == Spec => SerialAgrees
<1>1. CacheInv /\ [Next]_vars =>
        [Cardinality(routed') <= MaxDistinct =>
           SerialLoop(routed') =
             [table |-> table', map_cold |-> map_cold', s_se |-> slot_expert',
              s_st |-> slot_stamp', miss |-> miss', s_nins |-> n_miss']]_vars
  <2> SUFFICES ASSUME CacheInv, Next, Cardinality(routed') <= MaxDistinct
               PROVE  SerialLoop(routed') =
                        [table |-> table', map_cold |-> map_cold', s_se |-> slot_expert',
                         s_st |-> slot_stamp', miss |-> miss', s_nins |-> n_miss']
    OBVIOUS
  <2>1. PICK R \in RoutedSets : Launch(R)
    BY DEF Next
  <2>2. routed' = R
    BY <2>1 DEF Launch, ReadThrough, Refresh, Insert, Begin
  <2> QED BY <2>1, <2>2, StepSerial
<1> QED BY <1>1, CacheInvariant, PTL DEF Spec, SerialAgrees
=============================================================================
