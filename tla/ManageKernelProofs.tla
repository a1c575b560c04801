------------------------- MODULE ManageKernelProofs -------------------------
(***************************************************************************)
(* Proofs about ManageKernel, for every size of the table and of the       *)
(* workgroup: the threads of a launch never meet at one location, and the  *)
(* launch as a whole is one step of ExpertCache.                           *)
(*                                                                         *)
(* What a launch is going to compute is fixed when it starts, by the cache *)
(* as the last launch left it and by topk_ids.  The plan of the launch is  *)
(* that outcome, in the terms of ExpertCache; the inductive invariant says *)
(* for every interval how much of the plan the threads that have finished  *)
(* the interval have carried out.                                          *)
(***************************************************************************)
EXTENDS ManageKernel, RankingProofs

(* The facts proved of the cache, about the state between two launches.    *)
CP == INSTANCE ExpertCacheProofs WITH
  table <- settled.table, map_cold <- settled.map_cold,
  slot_expert <- settled.slot_expert, slot_stamp <- settled.slot_stamp,
  step <- settled.step, miss <- settled.miss, n_miss <- settled.n_miss,
  routed <- settled.routed

----------------------------------------------------------------------------
(* The plan of a launch.                                                   *)

Picked == {e \in Experts : \E i \in DOMAIN ids : ids[i] = e}

Plan ==
  [R |-> Picked,
   table |-> settled.table, map_cold |-> settled.map_cold,
   slot_expert |-> settled.slot_expert, slot_stamp |-> settled.slot_stamp,
   step |-> settled.step, miss |-> settled.miss,
   M |-> CP!Misses(Picked), V |-> CP!Evictable(Picked),
   refreshed |-> CP!Refreshed(Picked),
   key |-> [s \in Slots |-> CP!Refreshed(Picked)[s] * SlotBase + s],
   missAt |-> [j \in 0 .. Cardinality(CP!Misses(Picked))-1 |-> CP!MissAt(Picked, j)],
   missRank |-> [e \in CP!Misses(Picked) |-> CP!MissRank(Picked, e)],
   victimAt |-> [j \in 0 .. Cardinality(CP!Evictable(Picked))-1 |-> CP!VictimAt(Picked, j)],
   victimRank |-> [s \in CP!Evictable(Picked) |-> CP!VictimRank(Picked, s)],
   nins |-> CP!Nins(Picked), nact |-> CP!Nact(Picked)]

(* The cache the launch finds.                                             *)
FoundOK(p) ==
  /\ p.R \in SUBSET Experts
  /\ p.table \in [Experts -> Slots \cup {None}]
  /\ p.map_cold \in [Experts -> Experts \cup {None}]
  /\ p.slot_expert \in [Slots -> Experts]
  /\ p.slot_stamp \in [Slots -> Nat] /\ p.step \in Nat
  /\ p.miss \in [Entries -> (Experts \cup {None}) \X (Slots \cup {None})]
  /\ \A e \in Experts : p.table[e] # None => p.slot_expert[p.table[e]] = e
  /\ \A s \in Slots : p.table[p.slot_expert[s]] = s

(* Its misses, in ascending order.                                         *)
MissesOK(p) ==
  /\ p.M = {e \in p.R : p.table[e] = None}
  /\ Cardinality(p.M) \in Nat
  /\ \A e \in p.M : /\ p.missRank[e] \in 0 .. Cardinality(p.M)-1
                    /\ p.missAt[p.missRank[e]] = e
                    /\ p.missRank[e] = Cardinality({f \in p.M : f < e})
  /\ \A j \in 0 .. Cardinality(p.M)-1 : p.missAt[j] \in p.M
                                        /\ p.missRank[p.missAt[j]] = j

(* The stamps after the hits, and the keys they make.                      *)
KeysOK(p) ==
  /\ p.refreshed = [s \in Slots |-> IF p.slot_expert[s] \in p.R THEN p.step + 1
                                    ELSE p.slot_stamp[s]]
  /\ p.key = [s \in Slots |-> p.refreshed[s] * SlotBase + s]
  /\ \A s \in Slots : p.key[s] \in 0 .. Parked-1 /\ p.key[s] % SlotBase = s

(* The slots it may evict, by ascending key.                               *)
VictimsOK(p) ==
  /\ p.V = {s \in Slots : p.slot_expert[s] \notin p.R}
  /\ Cardinality(p.V) \in Nat
  /\ \A s \in p.V : /\ p.victimRank[s] \in 0 .. Cardinality(p.V)-1
                    /\ p.victimAt[p.victimRank[s]] = s
                    /\ p.victimRank[s] = Cardinality({q \in p.V : p.key[q] < p.key[s]})
  /\ \A s, q \in p.V : p.key[s] <= p.key[q] <=> p.victimRank[s] <= p.victimRank[q]
  /\ \A j \in 0 .. Cardinality(p.V)-1 : p.victimAt[j] \in p.V
                                        /\ p.victimRank[p.victimAt[j]] = j

(* The inserts.                                                            *)
InsertsOK(p) ==
  /\ p.nins = (IF Cardinality(p.M) <= MaxInserts THEN Cardinality(p.M) ELSE MaxInserts)
  /\ p.nact = (IF p.nins <= Cardinality(p.V) THEN p.nins ELSE Cardinality(p.V))

(* What the steps of the kernel need to know of a plan.                    *)
PlanOK(p) == FoundOK(p) /\ MissesOK(p) /\ KeysOK(p) /\ VictimsOK(p) /\ InsertsOK(p)

----------------------------------------------------------------------------
(* The accesses an interval may show in the log: rd[t] and wr[t] are what  *)
(* thread t may read and write in it.                                      *)

Logged(rd, wr) ==
  \A a \in log : /\ a[1] \in Threads
                 /\ \/ a[2] = "r" /\ a[3] \in rd[a[1]]
                    \/ a[2] = "w" /\ a[3] \in wr[a[1]]

Separate(rd, wr) ==
  \A t, u \in Threads : t # u => wr[t] \cap (rd[u] \cup wr[u]) = {}

Nothing == [t \in Threads |-> {}]

OfThreadZero(t, x) == IF t = 0 THEN x ELSE {}

ClearWr == [t \in Threads |->
              At("routed", Strided(t, E))
                \cup OfThreadZero(t, {<<"step", 0>>, <<"n_miss", 0>>})]
CountRd == [t \in Threads |-> At("routed", Experts)]
HitsRd  == [t \in Threads |-> At("routed", Experts) \cup At("table", Experts)]
HitsWr(p) == [t \in Threads |->
                At("slot_stamp", {p.table[e] : e \in (Chunk(t) \cap p.R) \ p.M})]
ListRd == [t \in Threads |->
             At("routed", Experts) \cup At("table", Experts)
               \cup At("slot_expert", Slots) \cup At("slot_stamp", Slots)]
ListWr(p) == [t \in Threads |->
                At("miss_expert", {p.missRank[e] : e \in Chunk(t) \cap p.M})
                  \cup At("s_se", Strided(t, S)) \cup At("s_st", Strided(t, S))]
KeysRd == [t \in Threads |-> At("s_se", Slots) \cup At("s_st", Slots)
                             \cup At("routed", Experts)]
KeysWr(p) == [t \in Threads |-> At("s_key", Strided(t, S))
                                \cup At("s_vic", Strided(t, p.nins))]
KeyRd  == [t \in Threads |-> At("s_key", Slots)]
RankWr(p) == [t \in Threads |->
                At("s_vic", {p.victimRank[s] : s \in Strided(t, S) \cap p.V})]
PairRd == [t \in Threads |-> At("miss_expert", Entries) \cup At("s_vic", Entries)]

(* What the rounds in D move: experts in, experts out, slots.              *)
ComeIn(p, D) == {p.missAt[j] : j \in D}
Refilled(p, D) == {p.victimAt[j] : j \in D}
GoOut(p, D) == {p.slot_expert[s] : s \in Refilled(p, D)}

RoundWr(p, D) ==
  At("table", ComeIn(p, D) \cup GoOut(p, D))
    \cup At("map_cold", ComeIn(p, D) \cup GoOut(p, D))
    \cup At("s_se", Refilled(p, D)) \cup At("s_st", Refilled(p, D))
    \cup At("miss_slot", D)
InstallWr(p) == [t \in Threads |-> RoundWr(p, Strided(t, p.nact))]
StoreRd == [t \in Threads |-> At("s_se", Strided(t, S)) \cup At("s_st", Strided(t, S))]
StoreWr == [t \in Threads |->
              At("slot_expert", Strided(t, S)) \cup At("slot_stamp", Strided(t, S))
                \cup OfThreadZero(t, {<<"n_miss", 0>>})]

----------------------------------------------------------------------------
(* How far the launch has come.                                            *)

(* Position i of a strided loop is done; expert e of the chunked ones.     *)
Done(i) == i % NT \in ran
Seen(e) == \E t \in ran : e \in Chunk(t)

Unmoved(p) == /\ table = p.table /\ map_cold = p.map_cold
              /\ slot_expert = p.slot_expert /\ miss = p.miss
Begun(p) == step = p.step + 1 /\ n_miss = 0
Marked(p) == \A e \in Experts : routed[e] = IF e \in p.R THEN 1 ELSE 0
Narrow(p) == Cardinality(p.R) <= MaxDistinct

(* The rounds in D are installed, the others are not.                      *)
Moved(p, D) ==
  /\ table = [e \in Experts |-> IF e \in ComeIn(p, D) THEN p.victimAt[p.missRank[e]]
                                ELSE IF e \in GoOut(p, D) THEN None ELSE p.table[e]]
  /\ map_cold = [e \in Experts |-> IF e \in ComeIn(p, D) THEN None
                                   ELSE IF e \in GoOut(p, D) THEN e ELSE p.map_cold[e]]
  /\ miss = [j \in Entries |-> <<IF j < p.nins THEN p.missAt[j] ELSE p.miss[j][1],
                                 IF j \in D THEN p.victimAt[j] ELSE p.miss[j][2]>>]

ExpertAfter(p, D) ==
  [s \in Slots |-> IF s \in Refilled(p, D) THEN p.missAt[p.victimRank[s]] ELSE p.slot_expert[s]]
StampAfter(p, D) ==
  [s \in Slots |-> IF s \in Refilled(p, D) THEN p.step + 1 ELSE p.refreshed[s]]

Installed(p, D) ==
  /\ Moved(p, D)
  /\ \A s \in Slots : s_se[s] = ExpertAfter(p, D)[s] /\ s_st[s] = StampAfter(p, D)[s]

(* The launch has something to insert, and nothing is stored yet.          *)
Inserting(p) ==
  /\ Begun(p) /\ Marked(p) /\ Narrow(p)
  /\ slot_expert = p.slot_expert /\ slot_stamp = p.refreshed
  /\ nins = p.nins /\ nins > 0

(* The keys when the first k victims are taken.                            *)
Keyed(p, s, k) ==
  s_key[s] = IF s \in p.V /\ p.victimRank[s] >= k THEN p.key[s] ELSE Parked

InClear(p) ==
  /\ Unmoved(p) /\ slot_stamp = p.slot_stamp
  /\ \A e \in Experts : Done(e) => routed[e] = 0
  /\ step = IF 0 \in ran THEN p.step + 1 ELSE p.step
  /\ 0 \in ran => n_miss = 0
  /\ Logged(Nothing, ClearWr)

InMark(p) ==
  /\ Unmoved(p) /\ slot_stamp = p.slot_stamp /\ Begun(p)
  /\ \A e \in Experts : routed[e] = IF \E i \in 0 .. Len(ids)-1 : Done(i) /\ ids[i + 1] = e
                                      THEN 1 ELSE 0
  /\ \A a \in log : \/ a[2] = "r" /\ a[3] = <<"step", 0>>
                    \/ a[2] = "m" /\ a[3] \in At("routed", Experts)

InCount(p) ==
  /\ Unmoved(p) /\ slot_stamp = p.slot_stamp /\ Begun(p) /\ Marked(p)
  /\ \A t \in ran : part[t] = Cardinality(Strided(t, E) \cap p.R)
  /\ Logged(CountRd, Nothing)

InHits(p) ==
  /\ Unmoved(p) /\ Begun(p) /\ Marked(p) /\ Narrow(p)
  /\ slot_stamp = [s \in Slots |-> IF p.slot_expert[s] \in p.R /\ Seen(p.slot_expert[s])
                                     THEN p.step + 1 ELSE p.slot_stamp[s]]
  /\ \A t \in ran : part[t] = Cardinality(Chunk(t) \cap p.M)
  /\ Logged(HitsRd, HitsWr(p))

InList(p) ==
  /\ Inserting(p) /\ table = p.table /\ map_cold = p.map_cold
  /\ \A t \in Threads : part[t] = Cardinality(Chunk(t) \cap p.M)
  /\ miss = [j \in Entries |-> <<IF j < nins /\ Seen(p.missAt[j]) THEN p.missAt[j]
                                 ELSE p.miss[j][1], p.miss[j][2]>>]
  /\ \A s \in Slots : Done(s) => s_se[s] = p.slot_expert[s] /\ s_st[s] = p.refreshed[s]
  /\ Logged(ListRd, ListWr(p))

InKeys(p) ==
  /\ Inserting(p) /\ Installed(p, {})
  /\ \A s \in Slots : Done(s) => Keyed(p, s, 0)
  /\ \A j \in 0 .. nins-1 : Done(j) => s_vic[j] = None
  /\ Logged(KeysRd, KeysWr(p))

InArgMin(p) ==
  /\ Inserting(p) /\ Installed(p, 0 .. r-1)
  /\ r \in 0 .. nins-1 /\ r <= Cardinality(p.V) /\ nact = r
  /\ \A s \in Slots : Keyed(p, s, r)
  /\ \A t \in ran : part[t] = Min({s_key[s] : s \in Strided(t, S)} \cup {Parked})
  /\ Logged(KeyRd, Nothing)

InInstallOne(p) ==
  LET k == IF 0 \in ran THEN r + 1 ELSE r
  IN
  /\ Inserting(p) /\ Installed(p, 0 .. k-1)
  /\ r \in 0 .. nins-1 /\ r < Cardinality(p.V)
  /\ \A s \in Slots : Keyed(p, s, k)
  /\ Best = p.key[p.victimAt[r]]
  /\ \A a \in log : a[1] = 0

InRank(p) ==
  /\ Inserting(p) /\ Installed(p, {})
  /\ \A s \in Slots : Keyed(p, s, 0)
  /\ \A j \in 0 .. nins-1 :
       s_vic[j] = IF j < Cardinality(p.V) /\ Done(p.victimAt[j]) THEN p.victimAt[j] ELSE None
  /\ Logged(KeyRd, RankWr(p))

InInstall(p) ==
  /\ Inserting(p) /\ Installed(p, {j \in 0 .. nact-1 : Done(j)})
  /\ nact = p.nact
  /\ \A j \in 0 .. nact-1 : s_vic[j] = p.victimAt[j]
  /\ Logged(PairRd, InstallWr(p))

InStore(p) ==
  /\ step = p.step + 1 /\ Marked(p) /\ Narrow(p) /\ p.nins > 0
  /\ Installed(p, 0 .. p.nact-1) /\ nact = p.nact
  /\ slot_expert = [s \in Slots |-> IF Done(s) THEN s_se[s] ELSE p.slot_expert[s]]
  /\ slot_stamp = [s \in Slots |-> IF Done(s) THEN s_st[s] ELSE p.refreshed[s]]
  /\ n_miss = IF 0 \in ran THEN nact ELSE 0
  /\ Logged(StoreRd, StoreWr)

(* The three ways a launch ends, as in ExpertCache.                        *)
Wide(p)  == ~ Narrow(p) /\ Unmoved(p) /\ slot_stamp = p.slot_stamp /\ n_miss = 0
Quiet(p) == Narrow(p) /\ p.nins = 0 /\ Unmoved(p) /\ slot_stamp = p.refreshed /\ n_miss = 0
Full(p)  == /\ Narrow(p) /\ p.nins > 0 /\ Moved(p, 0 .. p.nact-1)
            /\ slot_expert = ExpertAfter(p, 0 .. p.nact-1)
            /\ slot_stamp = StampAfter(p, 0 .. p.nact-1) /\ n_miss = p.nact

InExit(p) ==
  /\ step = p.step + 1 /\ Marked(p) /\ log = {}
  /\ Wide(p) \/ Quiet(p) \/ Full(p)

AtPhase(p) ==
  \/ phase = "clear" /\ InClear(p)
  \/ phase = "mark" /\ InMark(p)
  \/ phase = "count" /\ InCount(p)
  \/ phase = "hits" /\ InHits(p)
  \/ phase = "list" /\ InList(p)
  \/ phase = "keys" /\ InKeys(p)
  \/ phase = "argmin" /\ InArgMin(p)
  \/ phase = "install_one" /\ InInstallOne(p)
  \/ phase = "rank" /\ InRank(p)
  \/ phase = "install" /\ InInstall(p)
  \/ phase = "store" /\ InStore(p)
  \/ phase = "exit" /\ InExit(p)

(* The inductive invariant.                                                *)
Shapes ==
  ran \in SUBSET Threads /\ DOMAIN part = Threads /\ DOMAIN s_key = Slots

Launched == ids \in RoutedIds /\ settled.step < MaxStep

IInv ==
  /\ CP!CacheInv /\ Shapes
  /\ \/ phase = "idle" /\ settled = Memory /\ ran = {} /\ log = {}
     \/ Launched /\ \E p \in {Plan} : AtPhase(p)

PlanSound == phase # "idle" => PlanOK(Plan)

----------------------------------------------------------------------------
(* Sharing the work.                                                       *)

(* Every index of a strided loop belongs to one thread.                    *)
LEMMA StridedOwner == \A i \in Nat : i % NT \in Threads
BY KernelAssumption DEF Threads

(* The chunks of the threads cover the experts, one thread each.           *)
LEMMA ChunksPartition ==
  /\ \A e \in Experts : \E t \in Threads : e \in Chunk(t)
  /\ \A t, u \in Threads : t # u => Chunk(t) \cap Chunk(u) = {}
<1> DEFINE c == ChunkSize
<1>1. c \in Nat /\ E <= NT * c
  <2>1. E + NT - 1 \in Nat /\ NT \in Nat \ {0}
    BY KernelAssumption
  <2>2. c \in Nat /\ E + NT - 1 < (c + 1) * NT
    BY <2>1, QuotientBounds DEF ChunkSize
  <2>3. (c + 1) * NT = NT * c + NT
    BY <2>1, <2>2
  <2>4. NT * c \in Nat
    BY <2>1, <2>2
  <2> HIDE DEF c
  <2> QED BY <2>1, <2>2, <2>3, <2>4, KernelAssumption
<1> HIDE DEF c
<1>2. c # 0
  <2>1. SUFFICES ASSUME c = 0 PROVE FALSE
    OBVIOUS
  <2>2. NT * c = 0
    BY <2>1, KernelAssumption
  <2> QED BY <1>1, <2>2, KernelAssumption
<1>3. ASSUME NEW e \in Experts PROVE \E t \in Threads : e \in Chunk(t)
  <2> DEFINE t == e \div c
  <2>1. e \in Nat /\ e < E
    BY <1>3, KernelAssumption DEF Experts
  <2>2. t \in Nat /\ t * c <= e /\ e < (t + 1) * c
    BY <1>1, <1>2, <2>1, QuotientBounds
  <2> HIDE DEF t
  <2>3. t < NT
    <3>1. SUFFICES ASSUME NT <= t PROVE FALSE
      BY <2>2, KernelAssumption
    <3>2. NT * c <= t * c
      BY <1>1, <2>2, <3>1, ProductMonotone, KernelAssumption
    <3>3. NT * c \in Nat /\ t * c \in Nat
      BY <1>1, <2>2, KernelAssumption
    <3> QED BY <1>1, <2>1, <2>2, <3>2, <3>3, KernelAssumption
  <2>4. t \in Threads
    BY <2>2, <2>3, KernelAssumption DEF Threads
  <2>5. e \in Chunk(t)
    BY <2>2 DEF Chunk, c
  <2> QED BY <2>4, <2>5
<1>4. ASSUME NEW t \in Threads, NEW u \in Threads, NEW e \in Chunk(t), e \in Chunk(u), t < u
      PROVE  FALSE
  <2>1. e \in Int /\ t \in Nat /\ u \in Nat
    BY KernelAssumption DEF Chunk, Experts, Threads
  <2>2. e < (t + 1) * c /\ u * c <= e
    BY <1>4 DEF Chunk, c
  <2>3. (t + 1) * c <= u * c
    BY <1>1, <1>4, <2>1, ProductMonotone
  <2>4. (t + 1) * c \in Nat /\ u * c \in Nat
    BY <1>1, <2>1
  <2> QED BY <2>1, <2>2, <2>3, <2>4
<1>5. \A t, u \in Threads : t # u => t < u \/ u < t
  BY KernelAssumption DEF Threads
<1> QED BY <1>3, <1>4, <1>5

----------------------------------------------------------------------------
(* The plan is what ExpertCache computes.                                  *)

(* The two modules speak of the same experts and slots.                    *)
LEMMA SameConstants ==
  /\ CP!CacheAssumption
  /\ CP!Experts = Experts /\ CP!Slots = Slots /\ CP!Entries = Entries
  /\ CP!None = None /\ CP!SlotBase = SlotBase
BY KernelAssumption DEF CP!CacheAssumption, CP!MAXS, MAXS, CP!Experts, Experts, CP!Slots, Slots,
   CP!Entries, Entries, CP!None, None, CP!SlotBase, SlotBase

(* The instance counts and ranks as this module does.                     *)
LEMMA SameCounts ==
  /\ \A X : CP!IsFiniteSet(X) <=> IsFiniteSet(X)
  /\ \A X : CP!Cardinality(X) = Cardinality(X)
<1>1. \A X : CP!IsFiniteSet(X) <=> IsFiniteSet(X)
  BY DEF CP!IsFiniteSet, IsFiniteSet
<1>2. \A X : CP!Cardinality(X) = Cardinality(X)
  BY <1>1 DEF CP!Cardinality, Cardinality
<1> QED BY <1>1, <1>2

LEMMA SameRanks ==
  /\ \A V, k, j : CP!Nth(V, k, j) = Nth(V, k, j)
  /\ \A V, k, x : CP!Rank(V, k, x) = Rank(V, k, x)
  /\ \A V, k : CP!KeyOf(V, k) <=> KeyOf(V, k)
<1>1. \A V, k, x : CP!Rank(V, k, x) = Rank(V, k, x)
  BY SameCounts DEF CP!Rank, Rank
<1>2. \A V, k, j : CP!Nth(V, k, j) = Nth(V, k, j)
  BY <1>1 DEF CP!Nth, Nth
<1>3. \A V, k : CP!KeyOf(V, k) <=> KeyOf(V, k)
  BY DEF CP!KeyOf, KeyOf
<1> QED BY <1>1, <1>2, <1>3

LEMMA PlanMisses ==
  ASSUME CP!CacheInv
  PROVE  MissesOK(Plan)
<1> SUFFICES ASSUME NEW p, p = Plan PROVE MissesOK(p)
  OBVIOUS
<1> DEFINE R == Picked  M == CP!Misses(R)  k == CP!IdKey(R)
<1>1. R \in SUBSET CP!Experts /\ CP!TypeOK
  BY SameConstants DEF Picked, CP!CacheInv
<1>2. KeyOf(M, k) /\ IsFiniteSet(M)
  BY <1>1, SameConstants, SameCounts, SameRanks, CP!KeysDistinct
<1>3. /\ \A j : CP!MissAt(R, j) = Nth(M, k, j)
      /\ \A e : CP!MissRank(R, e) = Rank(M, k, e)
  BY SameRanks DEF CP!MissAt, CP!MissRank
<1>4. /\ p.M = M /\ p.R = R /\ p.table = settled.table
      /\ \A j \in 0 .. Cardinality(M)-1 : p.missAt[j] = Nth(M, k, j)
      /\ \A e \in M : p.missRank[e] = Rank(M, k, e)
  BY <1>3 DEF Plan
<1>5. \A e \in M : Rank(M, k, e) = Cardinality({f \in M : f < e})
  BY DEF Rank, CP!IdKey
<1>6. M = {e \in R : settled.table[e] = None}
  BY <1>1, SameConstants, KernelAssumption DEF CP!Misses, CP!TypeOK, Slots, None
<1> HIDE DEF M, k, R
<1>7. /\ Cardinality(M) \in Nat
      /\ \A x \in M : Rank(M, k, x) \in 0 .. Cardinality(M)-1
      /\ \A i \in 0 .. Cardinality(M)-1 : Nth(M, k, i) \in M /\ Rank(M, k, Nth(M, k, i)) = i
      /\ \A x \in M : Nth(M, k, Rank(M, k, x)) = x
  BY <1>2, RankBijective
<1>8. /\ \A e \in M : /\ p.missRank[e] \in 0 .. Cardinality(M)-1
                      /\ p.missAt[p.missRank[e]] = e
                      /\ p.missRank[e] = Cardinality({f \in M : f < e})
      /\ \A j \in 0 .. Cardinality(M)-1 : p.missAt[j] \in M /\ p.missRank[p.missAt[j]] = j
  BY <1>4, <1>5, <1>7
<1>9. p.M = M
  BY <1>4
<1>10. \A e \in p.M : p.missRank[e] = Cardinality({f \in p.M : f < e})
  BY <1>8, <1>9
<1>11. p.M = {e \in p.R : p.table[e] = None}
  BY <1>4, <1>6
<1> QED BY <1>7, <1>8, <1>9, <1>10, <1>11 DEF MissesOK

LEMMA PlanVictims ==
  ASSUME CP!CacheInv, settled.step < MaxStep
  PROVE  KeysOK(Plan) /\ VictimsOK(Plan)
<1> SUFFICES ASSUME NEW p, p = Plan PROVE KeysOK(p) /\ VictimsOK(p)
  OBVIOUS
<1> DEFINE R == Picked  V == CP!Evictable(R)  k == CP!Key(R)  ref == CP!Refreshed(R)
<1>1. R \in SUBSET CP!Experts /\ CP!TypeOK
  BY SameConstants DEF Picked, CP!CacheInv
<1>2. KeyOf(V, k) /\ IsFiniteSet(V)
  BY <1>1, SameConstants, SameCounts, SameRanks, CP!KeysDistinct
<1>3. /\ \A j : CP!VictimAt(R, j) = Nth(V, k, j)
      /\ \A s : CP!VictimRank(R, s) = Rank(V, k, s)
  BY SameRanks DEF CP!VictimAt, CP!VictimRank
<1>4. /\ p.V = V /\ p.R = R /\ p.slot_expert = settled.slot_expert
      /\ p.slot_stamp = settled.slot_stamp /\ p.step = settled.step
      /\ p.refreshed = ref /\ p.key = [s \in Slots |-> ref[s] * SlotBase + s]
      /\ \A j \in 0 .. Cardinality(V)-1 : p.victimAt[j] = Nth(V, k, j)
      /\ \A s \in V : p.victimRank[s] = Rank(V, k, s)
  BY <1>3 DEF Plan
<1>5. /\ V = {s \in Slots : settled.slot_expert[s] \notin R}
      /\ CP!HitSlots(R) = {s \in Slots : settled.slot_expert[s] \in R}
  BY <1>1, SameConstants, CP!Residency
<1>6. ref = [s \in Slots |-> IF settled.slot_expert[s] \in R THEN settled.step + 1
                             ELSE settled.slot_stamp[s]]
  BY <1>5, SameConstants DEF CP!Refreshed
<1>7. \A s \in V : k[s] = p.key[s]
  BY <1>4, <1>5, SameConstants DEF CP!Key
<1>8. ASSUME NEW s \in Slots
      PROVE  p.key[s] \in 0 .. Parked-1 /\ p.key[s] % SlotBase = s
  <2>1. ref[s] \in Nat /\ ref[s] <= MaxStep
    BY <1>1, <1>6, SameConstants, KernelAssumption DEF CP!TypeOK, CP!CacheInv, CP!StampsPast
  <2>2. s \in Nat /\ s < 1024
    BY KernelAssumption DEF Slots, MAXS
  <2>3. p.key[s] = ref[s] * 1048576 + s
    BY <1>4 DEF SlotBase
  <2>4. (MaxStep + 1) * 1048576 <= Parked /\ MaxStep \in Nat /\ Parked \in Nat
    BY KernelAssumption DEF SlotBase
  <2> HIDE DEF ref
  <2>5. p.key[s] \in Nat /\ p.key[s] < Parked /\ p.key[s] % 1048576 = s
    BY <2>1, <2>2, <2>3, <2>4
  <2> QED BY <2>4, <2>5 DEF SlotBase
<1>9. \A s \in V : Rank(V, k, s) = Cardinality({q \in V : p.key[q] < p.key[s]})
  <2> HIDE DEF k, V
  <2> QED BY <1>7 DEF Rank
<1> HIDE DEF V, k, R, ref
<1>10. /\ Cardinality(V) \in Nat
       /\ \A x \in V : Rank(V, k, x) \in 0 .. Cardinality(V)-1
       /\ \A i \in 0 .. Cardinality(V)-1 : Nth(V, k, i) \in V /\ Rank(V, k, Nth(V, k, i)) = i
       /\ \A x \in V : Nth(V, k, Rank(V, k, x)) = x
  BY <1>2, RankBijective
<1>11. ASSUME NEW s \in V, NEW q \in V
       PROVE  k[s] <= k[q] <=> Rank(V, k, s) <= Rank(V, k, q)
  <2>1. k[s] \in Int /\ k[q] \in Int /\ (k[s] = k[q] => s = q)
    BY <1>2 DEF KeyOf
  <2>2. Rank(V, k, s) \in Int /\ Rank(V, k, q) \in Int
    BY <1>10
  <2>3. k[s] < k[q] => Rank(V, k, s) < Rank(V, k, q)
    BY <1>2, RankMonotone
  <2>4. k[q] < k[s] => Rank(V, k, q) < Rank(V, k, s)
    BY <1>2, RankMonotone
  <2> QED BY <2>1, <2>2, <2>3, <2>4
<1>12. KeysOK(p)
  BY <1>4, <1>6, <1>8 DEF KeysOK
<1>13. p.V = V
  BY <1>4
<1>14. \A s, q \in V : p.key[s] <= p.key[q] <=> p.victimRank[s] <= p.victimRank[q]
  BY <1>4, <1>7, <1>11
<1>15. /\ \A s \in V : /\ p.victimRank[s] \in 0 .. Cardinality(V)-1
                       /\ p.victimAt[p.victimRank[s]] = s
       /\ \A j \in 0 .. Cardinality(V)-1 : p.victimAt[j] \in V /\ p.victimRank[p.victimAt[j]] = j
  BY <1>4, <1>10
<1>16. \A s \in V : p.victimRank[s] = Cardinality({q \in V : p.key[q] < p.key[s]})
  BY <1>4, <1>9
<1>17. \A s \in p.V : p.victimRank[s] = Cardinality({q \in p.V : p.key[q] < p.key[s]})
  BY <1>13, <1>16
<1>18. p.V = {s \in Slots : p.slot_expert[s] \notin p.R}
  BY <1>4, <1>5
<1>19. VictimsOK(p)
  BY <1>10, <1>13, <1>14, <1>15, <1>17, <1>18 DEF VictimsOK
<1> QED BY <1>12, <1>19

LEMMA PlanFacts ==
  ASSUME CP!CacheInv, settled.step < MaxStep
  PROVE  PlanOK(Plan)
<1> SUFFICES ASSUME NEW p, p = Plan PROVE PlanOK(p)
  OBVIOUS
<1>1. CP!TypeOK /\ CP!TableInverse /\ CP!AlwaysFull
  BY DEF CP!CacheInv
<1>2. /\ p.R = Picked /\ p.table = settled.table /\ p.map_cold = settled.map_cold
      /\ p.slot_expert = settled.slot_expert /\ p.slot_stamp = settled.slot_stamp
      /\ p.step = settled.step /\ p.miss = settled.miss
      /\ p.M = CP!Misses(Picked) /\ p.V = CP!Evictable(Picked)
      /\ p.nins = CP!Nins(Picked) /\ p.nact = CP!Nact(Picked)
  BY DEF Plan
<1>3. FoundOK(p)
  <2>1. settled.slot_expert \in [Slots -> Experts]
    BY <1>1, SameConstants DEF CP!TypeOK, CP!AlwaysFull
  <2>2. Picked \in SUBSET Experts
    BY DEF Picked
  <2> QED BY <1>1, <1>2, <2>1, <2>2, SameConstants
          DEF CP!TypeOK, CP!TableInverse, CP!AlwaysFull, FoundOK
<1>4. InsertsOK(p)
  BY <1>2, SameCounts DEF CP!Nins, CP!Nact, CP!Lesser, InsertsOK
<1> QED BY <1>3, <1>4, PlanMisses, PlanVictims DEF PlanOK

(* What a thread touches within its share keeps the log within the shares. *)
LEMMA LoggedTouch ==
  ASSUME NEW rd, NEW wr, NEW t \in Threads, NEW x, NEW y,
         x \subseteq rd[t], y \subseteq wr[t], Touch(t, x, y), Logged(rd, wr)
  PROVE  Logged(rd, wr)'
<1>1. log' = log \cup {<<t, "r", l>> : l \in x} \cup {<<t, "w", l>> : l \in y}
  BY DEF Touch
<1>2. SUFFICES ASSUME NEW a \in log'
               PROVE  /\ a[1] \in Threads
                      /\ \/ a[2] = "r" /\ a[3] \in rd[a[1]]
                         \/ a[2] = "w" /\ a[3] \in wr[a[1]]
  BY DEF Logged
<1>3. CASE a \in log
  BY <1>3 DEF Logged
<1>4. CASE a \in {<<t, "r", l>> : l \in x}
  BY <1>4
<1>5. CASE a \in {<<t, "w", l>> : l \in y}
  BY <1>5
<1> QED BY <1>1, <1>3, <1>4, <1>5

LEMMA LoggedNothing ==
  ASSUME NEW rd, NEW wr, log' = {}
  PROVE  Logged(rd, wr)'
BY DEF Logged

LEMMA LoggedSame ==
  ASSUME NEW rd, NEW wr, Logged(rd, wr), UNCHANGED log
  PROVE  Logged(rd, wr)'
BY DEF Logged

----------------------------------------------------------------------------
(* One thread does its share of an interval.                               *)

LEMMA ClearStep ==
  ASSUME NEW p, PlanOK(p), NEW t \in Threads, InClear(p), Clear(t)
  PROVE  InClear(p)'
<1>1. Unmoved(p)' /\ (slot_stamp = p.slot_stamp)'
  BY DEF InClear, Unmoved, Clear
<1>2. ran' = ran \cup {t}
  BY DEF Clear, Touch
<1>3. (\A e \in Experts : Done(e) => routed[e] = 0)'
  BY <1>2 DEF InClear, Clear, Done, Strided, Experts
<1>4. (step = IF 0 \in ran THEN p.step + 1 ELSE p.step)' /\ (0 \in ran => n_miss = 0)'
  BY <1>2 DEF InClear, Clear, In
<1>5. Logged(Nothing, ClearWr)'
  BY LoggedTouch DEF InClear, Clear, ClearWr, Nothing, OfThreadZero
<1> QED BY <1>1, <1>3, <1>4, <1>5 DEF InClear

LEMMA MarkStep ==
  ASSUME NEW p, PlanOK(p), NEW t \in Threads, InMark(p), Mark(t)
  PROVE  InMark(p)'
<1>1. Unmoved(p)' /\ (slot_stamp = p.slot_stamp)' /\ Begun(p)'
  BY DEF InMark, Unmoved, Begun, Mark
<1>2. ran' = ran \cup {t} /\ ids' = ids
  BY DEF Mark, Keep
<1> DEFINE mine == {ids[i + 1] : i \in {j \in Strided(t, Len(ids)) : Valid(j)}}
           some(e, T) == \E i \in 0 .. Len(ids)-1 : i % NT \in T /\ ids[i + 1] = e
<1>3. \A e \in Experts : e \in mine <=> some(e, {t})
  BY DEF Strided, Valid
<1>4. \A e \in Experts : some(e, ran \cup {t}) <=> some(e, ran) \/ e \in mine
  BY <1>3
<1>5. \A e \in Experts : routed[e] = IF some(e, ran) THEN 1 ELSE 0
  BY DEF InMark, Done
<1>6. \A e \in Experts : routed'[e] = IF e \in mine THEN 1 ELSE routed[e]
  BY DEF Mark
<1>7. \A e \in Experts : routed'[e] = IF some(e, ran \cup {t}) THEN 1 ELSE 0
  <2> HIDE DEF some, mine
  <2> QED BY <1>4, <1>5, <1>6
<1>8. \A a \in log' : \/ a[2] = "r" /\ a[3] = <<"step", 0>>
                      \/ a[2] = "m" /\ a[3] \in At("routed", Experts)
  <2>1. mine \subseteq Experts
    BY DEF Valid
  <2>2. log' = log \cup {<<t, "m", l>> : l \in At("routed", mine)} \cup {<<t, "r", <<"step", 0>> >>}
    BY DEF Mark
  <2> HIDE DEF mine
  <2> QED BY <2>1, <2>2 DEF InMark, At
<1> QED BY <1>1, <1>2, <1>7, <1>8 DEF InMark, Done

LEMMA CountStep ==
  ASSUME NEW p, PlanOK(p), NEW t \in Threads, InCount(p), Count(t), Shapes
  PROVE  InCount(p)'
<1>1. Unmoved(p)' /\ (slot_stamp = p.slot_stamp)' /\ Begun(p)' /\ Marked(p)'
  BY DEF InCount, Unmoved, Begun, Marked, Count, memory
<1>2. ran' = ran \cup {t}
  BY DEF Count, Touch
<1>3. {e \in Strided(t, E) : routed[e] = 1} = Strided(t, E) \cap p.R
  BY DEF InCount, Marked, Strided, Experts, PlanOK, FoundOK
<1>4. \A u \in ran' : part'[u] = Cardinality(Strided(u, E) \cap p.R)
  BY <1>2, <1>3 DEF InCount, Count, Shapes
<1>5. Logged(CountRd, Nothing)'
  <2>1. Strided(t, E) \subseteq Experts
    BY DEF Strided, Experts
  <2> QED BY <2>1, LoggedTouch DEF InCount, Count, CountRd, Nothing, At
<1> QED BY <1>1, <1>4, <1>5 DEF InCount

(* What a thread of a chunked loop sees: the hits and misses of its chunk. *)
LEMMA ChunkFacts ==
  ASSUME NEW p, PlanOK(p), NEW t \in Threads, Marked(p), table = p.table
  PROVE  /\ HitsIn(t) = (Chunk(t) \cap p.R) \ p.M
         /\ MissingIn(t) = Chunk(t) \cap p.M
         /\ \A s \in Slots : s \in {table[e] : e \in HitsIn(t)}
                             <=> p.slot_expert[s] \in p.R /\ p.slot_expert[s] \in Chunk(t)
<1>1. \A e \in Experts : /\ p.table[e] >= 0 <=> p.table[e] # None
                         /\ p.table[e] < 0 <=> p.table[e] = None
                         /\ p.table[e] # None => p.table[e] \in Slots
  BY KernelAssumption DEF PlanOK, FoundOK, Slots, None
<1>2. p.R \in SUBSET Experts /\ Chunk(t) \in SUBSET Experts
  BY DEF Chunk, PlanOK, FoundOK
<1>3. HitsIn(t) = (Chunk(t) \cap p.R) \ p.M /\ MissingIn(t) = Chunk(t) \cap p.M
  BY <1>1, <1>2 DEF HitsIn, MissingIn, Marked, PlanOK, MissesOK
<1>4. None \notin Slots
  BY KernelAssumption DEF None, Slots
<1>5. ASSUME NEW s \in Slots, p.slot_expert[s] \in p.R, p.slot_expert[s] \in Chunk(t)
      PROVE  s \in {table[e] : e \in HitsIn(t)}
  BY <1>3, <1>4, <1>5 DEF PlanOK, FoundOK, MissesOK
<1>6. ASSUME NEW e \in HitsIn(t)
      PROVE  table[e] \in Slots /\ p.slot_expert[table[e]] = e
  BY <1>1, <1>2, <1>3 DEF PlanOK, FoundOK, MissesOK
<1> QED BY <1>3, <1>5, <1>6

LEMMA HitsStep ==
  ASSUME NEW p, PlanOK(p), NEW t \in Threads, InHits(p), HitPhase(t), Shapes
  PROVE  InHits(p)'
<1>1. Unmoved(p)' /\ Begun(p)' /\ Marked(p)' /\ Narrow(p)'
  BY DEF InHits, Unmoved, Begun, Marked, Narrow, HitPhase
<1>2. ran' = ran \cup {t}
  BY DEF HitPhase, Touch
<1> DEFINE hit == {table[e] : e \in HitsIn(t)}
<1>3. /\ HitsIn(t) = (Chunk(t) \cap p.R) \ p.M /\ MissingIn(t) = Chunk(t) \cap p.M
      /\ \A s \in Slots : s \in hit <=> p.slot_expert[s] \in p.R /\ p.slot_expert[s] \in Chunk(t)
  BY ChunkFacts DEF InHits, Unmoved
<1>4. slot_stamp' = [s \in Slots |-> IF s \in hit THEN step ELSE slot_stamp[s]]
  BY DEF HitPhase
<1>5. (slot_stamp = [s \in Slots |-> IF p.slot_expert[s] \in p.R /\ Seen(p.slot_expert[s])
                                       THEN p.step + 1 ELSE p.slot_stamp[s]])'
  <2> HIDE DEF hit
  <2>1. \A s \in Slots : Seen(p.slot_expert[s])'
                         <=> Seen(p.slot_expert[s]) \/ p.slot_expert[s] \in Chunk(t)
    BY <1>2 DEF Seen
  <2> QED BY <1>3, <1>4, <2>1 DEF InHits, Begun
<1>6. \A u \in ran' : part'[u] = Cardinality(Chunk(u) \cap p.M)
  BY <1>2, <1>3 DEF InHits, HitPhase, Shapes
<1>7. Logged(HitsRd, HitsWr(p))'
  <2>1. Chunk(t) \subseteq Experts
    BY DEF Chunk
  <2>2. hit \subseteq {p.table[e] : e \in (Chunk(t) \cap p.R) \ p.M}
    BY <1>3 DEF InHits, Unmoved
  <2>3. At("routed", Chunk(t)) \cup At("table", Chunk(t)) \subseteq HitsRd[t]
    BY <2>1 DEF HitsRd, At
  <2>4. At("slot_stamp", hit) \subseteq HitsWr(p)[t]
    BY <2>2 DEF HitsWr, At
  <2> QED BY <2>3, <2>4, LoggedTouch DEF InHits, HitPhase
<1> QED BY <1>1, <1>5, <1>6, <1>7 DEF InHits

(* The pairing of a plan, round by round.                                  *)
LEMMA PlanRounds ==
  ASSUME NEW p, PlanOK(p)
  PROVE  /\ p.M \in SUBSET Experts /\ p.V \in SUBSET Slots
         /\ Cardinality(p.M) \in Nat /\ Cardinality(p.V) \in Nat
         /\ p.nins \in Nat /\ p.nins <= MaxInserts /\ p.nins <= Cardinality(p.M)
         /\ p.nact \in Nat /\ p.nact <= p.nins /\ p.nact <= Cardinality(p.V)
         /\ p.nact = p.nins \/ p.nact = Cardinality(p.V)
         /\ \A e \in p.M : /\ p.missRank[e] \in Nat
                           /\ p.missRank[e] < Cardinality(p.M)
                           /\ p.missAt[p.missRank[e]] = e
                           /\ p.table[e] = None
         /\ \A s \in p.V : /\ p.victimRank[s] \in Nat
                           /\ p.victimRank[s] < Cardinality(p.V)
                           /\ p.victimAt[p.victimRank[s]] = s
                           /\ p.slot_expert[s] \in Experts \ p.R
                           /\ p.table[p.slot_expert[s]] = s
         /\ \A j \in 0 .. p.nins-1 : p.missAt[j] \in p.M /\ p.missRank[p.missAt[j]] = j
         /\ \A j \in 0 .. p.nact-1 : p.victimAt[j] \in p.V /\ p.victimRank[p.victimAt[j]] = j
         /\ \A j \in Nat : j < Cardinality(p.V) =>
              p.victimAt[j] \in p.V /\ p.victimRank[p.victimAt[j]] = j
<1>1. Cardinality(p.M) \in Nat /\ Cardinality(p.V) \in Nat
  BY DEF PlanOK, MissesOK, VictimsOK
<1>2. /\ \A e \in p.M : /\ p.missRank[e] \in 0 .. Cardinality(p.M)-1
                        /\ p.missAt[p.missRank[e]] = e
      /\ \A j \in 0 .. Cardinality(p.M)-1 : p.missAt[j] \in p.M
                                            /\ p.missRank[p.missAt[j]] = j
  BY DEF PlanOK, MissesOK
<1>3. /\ \A s \in p.V : /\ p.victimRank[s] \in 0 .. Cardinality(p.V)-1
                        /\ p.victimAt[p.victimRank[s]] = s
      /\ \A j \in 0 .. Cardinality(p.V)-1 : p.victimAt[j] \in p.V
                                            /\ p.victimRank[p.victimAt[j]] = j
  BY DEF PlanOK, VictimsOK
<1>4. /\ p.nins \in Nat /\ p.nins <= MaxInserts /\ p.nins <= Cardinality(p.M)
      /\ p.nact \in Nat /\ p.nact <= p.nins /\ p.nact <= Cardinality(p.V)
      /\ p.nact = p.nins \/ p.nact = Cardinality(p.V)
  BY <1>1, KernelAssumption DEF PlanOK, InsertsOK
<1>5. /\ p.M = {e \in p.R : p.table[e] = None} /\ p.R \in SUBSET Experts
      /\ p.V = {s \in Slots : p.slot_expert[s] \notin p.R}
      /\ p.slot_expert \in [Slots -> Experts]
      /\ \A s \in Slots : p.table[p.slot_expert[s]] = s
  BY DEF PlanOK, MissesOK, VictimsOK, FoundOK
<1>6. /\ p.M \in SUBSET Experts /\ p.V \in SUBSET Slots
      /\ \A e \in p.M : p.table[e] = None
      /\ \A s \in p.V : p.slot_expert[s] \in Experts \ p.R /\ p.table[p.slot_expert[s]] = s
  BY <1>5
<1>7. \A e \in p.M : p.missRank[e] \in Nat /\ p.missRank[e] < Cardinality(p.M)
  BY <1>1, <1>2
<1>8. \A s \in p.V : p.victimRank[s] \in Nat /\ p.victimRank[s] < Cardinality(p.V)
  BY <1>1, <1>3
<1>9. \A j \in 0 .. p.nins-1 : p.missAt[j] \in p.M /\ p.missRank[p.missAt[j]] = j
  BY <1>1, <1>2, <1>4
<1>10. \A j \in Nat : j < Cardinality(p.V) =>
         p.victimAt[j] \in p.V /\ p.victimRank[p.victimAt[j]] = j
  BY <1>1, <1>3
<1>11. \A j \in 0 .. p.nact-1 : p.victimAt[j] \in p.V /\ p.victimRank[p.victimAt[j]] = j
  BY <1>1, <1>4, <1>10
<1> QED BY <1>1, <1>2, <1>3, <1>4, <1>6, <1>7, <1>8, <1>9, <1>10, <1>11

(* The chunks lie in the order of the threads.                             *)
LEMMA ChunksOrdered ==
  ASSUME NEW t \in Threads, NEW u \in Threads, t < u,
         NEW e \in Chunk(t), NEW f \in Chunk(u)
  PROVE  e < f
<1> DEFINE c == ChunkSize
<1>1. c \in Nat
  <2>1. E + NT - 1 \in Nat /\ NT \in Nat \ {0}
    BY KernelAssumption
  <2> QED BY <2>1, QuotientBounds DEF ChunkSize
<1>2. e \in Int /\ f \in Int /\ t \in Nat /\ u \in Nat
  BY KernelAssumption DEF Chunk, Experts, Threads
<1>3. e < (t + 1) * c /\ u * c <= f
  BY DEF Chunk
<1> HIDE DEF c
<1>4. (t + 1) * c <= u * c /\ (t + 1) * c \in Nat /\ u * c \in Nat
  BY <1>1, <1>2, ProductMonotone
<1> QED BY <1>2, <1>3, <1>4

(* The position the block scan gives a missing expert is its rank.         *)
LEMMA PlaceIsRank ==
  ASSUME NEW p, PlanOK(p),
         \A u \in Threads : part[u] = Cardinality(Chunk(u) \cap p.M),
         NEW t \in Threads, MissingIn(t) = Chunk(t) \cap p.M, NEW e \in MissingIn(t)
  PROVE  Place(t, e) = p.missRank[e]
<1> DEFINE W == {u \in Threads : u < t}
           A == [u \in Threads |-> Chunk(u) \cap p.M]
           low == UNION {A[u] : u \in W}
           here == {f \in MissingIn(t) : f < e}
<1>1. IsFiniteSet(Experts) /\ IsFiniteSet(Threads) /\ \A i \in Experts : i \in Int
  <2>1. 0 \in Int /\ E - 1 \in Int /\ NT - 1 \in Int
    BY KernelAssumption
  <2> QED BY <2>1, FS_Interval DEF Experts, Threads
<1>2. W \in SUBSET Threads /\ \A u \in Threads : A[u] \in SUBSET Experts
  BY DEF Chunk
<1>3. IsFiniteSet(W) /\ \A u \in W : IsFiniteSet(A[u]) /\ part[u] = Cardinality(A[u])
  <2>1. \A u \in W : IsFiniteSet(A[u])
    BY <1>1, <1>2, FS_Subset
  <2>2. IsFiniteSet(W)
    BY <1>1, <1>2, FS_Subset
  <2> QED BY <2>1, <2>2
<1>4. \A u, v \in W : u # v => A[u] \cap A[v] = {}
  BY ChunksPartition
<1>5. Base(t) = Cardinality(low)
  <2> HIDE DEF A
  <2> QED BY <1>3, <1>4, SumOfSizes DEF Base
<1>6. low \in SUBSET Experts /\ here \in SUBSET Experts
  BY <1>2 DEF MissingIn, Chunk
<1>7. low \cap here = {}
  <2>1. \A u \in W : Chunk(u) \cap Chunk(t) = {}
    BY ChunksPartition, KernelAssumption DEF Threads
  <2> QED BY <2>1
<1>8. {f \in p.M : f < e} = low \cup here
  <2>1. e \in Chunk(t)
    OBVIOUS
  <2>2. \A u \in W : \A f \in Chunk(u) : f < e
    BY <2>1, ChunksOrdered
  <2>3. ASSUME NEW f \in p.M, f < e PROVE f \in low \cup here
    <3>1. f \in Experts
      BY DEF PlanOK, FoundOK, MissesOK
    <3>2. PICK u \in Threads : f \in Chunk(u)
      BY <3>1, ChunksPartition
    <3>3. ~ (t < u)
      <4>1. e \in Int /\ f \in Int
        BY <1>1, <2>1, <3>1 DEF Chunk
      <4> QED BY <2>1, <2>3, <3>2, <4>1, ChunksOrdered
    <3>4. u < t \/ u = t
      BY <3>3, KernelAssumption DEF Threads
    <3> QED BY <2>3, <3>2, <3>4
  <2> QED BY <2>2, <2>3
<1>9. /\ IsFiniteSet(low) /\ IsFiniteSet(here)
      /\ Cardinality(low) \in Nat /\ Cardinality(here) \in Nat
  <2> HIDE DEF low, here
  <2> QED BY <1>1, <1>6, FS_Subset, FS_CardinalityType
<1>10. Cardinality(low \cup here) = Cardinality(low) + Cardinality(here)
  <2> HIDE DEF low, here
  <2>1. Cardinality(low \cap here) = 0
    BY <1>7, FS_EmptySet
  <2> QED BY <1>9, <2>1, FS_Union
<1>11. p.missRank[e] = Cardinality({f \in p.M : f < e})
  BY DEF PlanOK, MissesOK
<1> HIDE DEF low, here
<1> QED BY <1>5, <1>8, <1>10, <1>11 DEF Place, here

(* In a list the misses of thread t are entered at their ranks.            *)
LEMMA ListStep ==
  ASSUME NEW p, PlanOK(p), NEW t \in Threads, InList(p), List(t)
  PROVE  InList(p)'
<1>0. ran' = ran \cup {t} /\ nins' = nins /\ UNCHANGED <<s_key, s_vic, part>>
  BY DEF List, Touch, uniform
<1>1. (Inserting(p) /\ table = p.table /\ map_cold = p.map_cold)'
  BY <1>0 DEF InList, Inserting, Begun, Marked, Narrow, List
<1>2. (\A u \in Threads : part[u] = Cardinality(Chunk(u) \cap p.M))'
  BY <1>0 DEF InList
<1>3. MissingIn(t) = Chunk(t) \cap p.M /\ Chunk(t) \subseteq Experts
  BY ChunkFacts DEF InList, Inserting, Chunk
<1>4. \A e \in MissingIn(t) : Place(t, e) = p.missRank[e]
  BY <1>3, PlaceIsRank DEF InList
<1>5. nins = p.nins /\ nins \in Nat
  BY PlanRounds DEF InList, Inserting
<1>6. \A j \in 0 .. nins-1 : p.missAt[j] \in p.M /\ p.missRank[p.missAt[j]] = j
  BY <1>5, PlanRounds
<1>7. \A e \in p.M : p.missRank[e] \in Nat /\ p.missAt[p.missRank[e]] = e
  BY PlanRounds
<1> DEFINE listed == {e \in MissingIn(t) : Place(t, e) < nins}
<1>8. /\ \A e \in listed : e \in Chunk(t) /\ e \in p.M /\ Place(t, e) = p.missRank[e]
                           /\ p.missRank[e] \in 0 .. nins-1
      /\ \A j \in 0 .. nins-1 : p.missAt[j] \in Chunk(t) => p.missAt[j] \in listed
  BY <1>3, <1>4, <1>5, <1>6, <1>7
<1>9. ASSUME NEW j \in Entries
      PROVE  miss'[j] = <<IF j < nins /\ Seen(p.missAt[j])' THEN p.missAt[j]
                          ELSE p.miss[j][1], p.miss[j][2]>>
  <2>1. miss'[j] = IF \E e \in listed : Place(t, e) = j
                     THEN <<CHOOSE e \in listed : Place(t, e) = j, miss[j][2]>>
                     ELSE miss[j]
    BY DEF List
  <2>2. /\ miss[j][1] = IF j < nins /\ Seen(p.missAt[j]) THEN p.missAt[j] ELSE p.miss[j][1]
        /\ miss[j][2] = p.miss[j][2]
        /\ miss[j] = <<miss[j][1], miss[j][2]>>
    BY DEF InList
  <2>3. j \in Nat
    BY KernelAssumption DEF Entries
  <2>4. Seen(p.missAt[j])' <=> Seen(p.missAt[j]) \/ p.missAt[j] \in Chunk(t)
    BY <1>0 DEF Seen
  <2> HIDE DEF listed
  <2>5. CASE \E e \in listed : Place(t, e) = j
    <3>1. PICK e \in listed : Place(t, e) = j
      BY <2>5
    <3>2. \A f \in listed : Place(t, f) = j => f = p.missAt[j]
      BY <1>7, <1>8
    <3>3. e = p.missAt[j] /\ j < nins /\ p.missAt[j] \in Chunk(t)
      BY <1>5, <1>8, <2>3, <3>1, <3>2
    <3>4. (CHOOSE f \in listed : Place(t, f) = j) = p.missAt[j]
      BY <3>1, <3>2
    <3> QED BY <2>1, <2>2, <2>4, <2>5, <3>3, <3>4
  <2>6. CASE ~ \E e \in listed : Place(t, e) = j
    <3>1. j < nins => ~ (p.missAt[j] \in Chunk(t))
      BY <1>5, <1>6, <1>8, <2>3, <2>6
    <3> QED BY <2>1, <2>2, <2>4, <2>6, <3>1
  <2> QED BY <2>5, <2>6
<1>10. DOMAIN miss' = Entries /\ miss' = [j \in Entries |-> miss'[j]]
  BY DEF List
<1>11. (\A s \in Slots : Done(s) => s_se[s] = p.slot_expert[s] /\ s_st[s] = p.refreshed[s])'
  BY <1>0 DEF List, InList, Inserting, Done, Strided, Slots
<1>12. Logged(ListRd, ListWr(p))'
  <2>1. {Place(t, e) : e \in listed} \subseteq {p.missRank[e] : e \in Chunk(t) \cap p.M}
    BY <1>8
  <2>2. Strided(t, S) \subseteq Slots
    BY DEF Strided, Slots
  <2> HIDE DEF listed
  <2>3. At("miss_expert", {Place(t, e) : e \in listed})
          \cup At("s_se", Strided(t, S)) \cup At("s_st", Strided(t, S)) \subseteq ListWr(p)[t]
    BY <2>1 DEF ListWr, At
  <2>4. At("routed", Chunk(t)) \cup At("table", Chunk(t))
          \cup At("slot_expert", Strided(t, S)) \cup At("slot_stamp", Strided(t, S)) \subseteq ListRd[t]
    BY <1>3, <2>2 DEF ListRd, At
  <2> QED BY <2>3, <2>4, LoggedTouch DEF InList, List, listed
<1>13. (miss = [j \in Entries |-> <<IF j < nins /\ Seen(p.missAt[j]) THEN p.missAt[j]
                                   ELSE p.miss[j][1], p.miss[j][2]>>])'
  BY <1>0, <1>9, <1>10
<1> QED BY <1>1, <1>2, <1>11, <1>12, <1>13 DEF InList

(* Before the first round everything is as the cache was found.            *)
LEMMA NothingInstalled ==
  ASSUME NEW p, PlanOK(p)
  PROVE  /\ ExpertAfter(p, {}) = p.slot_expert /\ StampAfter(p, {}) = p.refreshed
         /\ ComeIn(p, {}) = {} /\ GoOut(p, {}) = {} /\ Refilled(p, {}) = {}
<1>1. ComeIn(p, {}) = {} /\ Refilled(p, {}) = {}
  BY DEF ComeIn, Refilled
<1>2. GoOut(p, {}) = {}
  BY <1>1 DEF GoOut
<1>3. p.slot_expert \in [Slots -> Experts] /\ p.refreshed = [s \in Slots |-> p.refreshed[s]]
  BY DEF PlanOK, FoundOK, KeysOK
<1> QED BY <1>1, <1>2, <1>3 DEF ExpertAfter, StampAfter

LEMMA SameInstalled ==
  ASSUME NEW p, NEW D, Installed(p, D),
         UNCHANGED <<table, map_cold, miss, s_se, s_st>>
  PROVE  Installed(p, D)'
BY DEF Installed, Moved

LEMMA SameInserting ==
  ASSUME NEW p, Inserting(p),
         UNCHANGED <<slot_expert, slot_stamp, step, routed, n_miss, nins>>
  PROVE  Inserting(p)'
BY DEF Inserting, Begun, Marked, Narrow

LEMMA KeysStep ==
  ASSUME NEW p, PlanOK(p), NEW t \in Threads, InKeys(p), Keys(t), Shapes
  PROVE  InKeys(p)'
<1>1. /\ ran' = ran \cup {t}
      /\ UNCHANGED <<memory, s_se, s_st, nins>>
  BY DEF Keys, Touch, uniform
<1>2. Inserting(p)' /\ Installed(p, {})'
  BY <1>1, SameInstalled, SameInserting DEF InKeys, memory
<1>3. ASSUME NEW s \in Slots, s % NT = t
      PROVE  s_key'[s] = IF s \in p.V /\ p.victimRank[s] >= 0 THEN p.key[s] ELSE Parked
  <2>1. s_se[s] = p.slot_expert[s] /\ s_st[s] = p.refreshed[s]
    BY NothingInstalled DEF InKeys, Installed
  <2>2. p.slot_expert[s] \in Experts /\ p.slot_expert[s] >= 0
    BY KernelAssumption DEF PlanOK, FoundOK, Experts
  <2>3. routed[p.slot_expert[s]] = 1 <=> p.slot_expert[s] \in p.R
    BY <2>2 DEF InKeys, Inserting, Marked
  <2>4. s_key'[s] = IF p.slot_expert[s] \in p.R THEN Parked ELSE p.refreshed[s] * SlotBase + s
    BY <1>3, <2>1, <2>2, <2>3 DEF Keys, Strided, Slots
  <2>5. p.refreshed[s] * SlotBase + s = p.key[s] /\ (s \in p.V <=> p.slot_expert[s] \notin p.R)
    BY DEF PlanOK, KeysOK, VictimsOK
  <2>6. s \in p.V => p.victimRank[s] >= 0
    BY PlanRounds
  <2> QED BY <2>4, <2>5, <2>6
<1>4. (\A s \in Slots : Done(s) => Keyed(p, s, 0))'
  <2>1. ASSUME NEW s \in Slots, s % NT \in ran'
        PROVE  s_key'[s] = IF s \in p.V /\ p.victimRank[s] >= 0 THEN p.key[s] ELSE Parked
    <3>1. CASE s % NT = t
      BY <1>3, <3>1
    <3>2. CASE s % NT # t
      <4>1. s_key'[s] = s_key[s]
        BY <3>2 DEF Keys, Strided
      <4> QED BY <1>1, <2>1, <3>2, <4>1 DEF InKeys, Keyed, Done
    <3> QED BY <3>1, <3>2
  <2> QED BY <2>1 DEF Keyed, Done
<1>5. nins = p.nins /\ nins \in Nat /\ nins <= MaxInserts
  BY PlanRounds DEF InKeys, Inserting
<1>6. (\A j \in 0 .. nins-1 : Done(j) => s_vic[j] = None)'
  <2>1. ASSUME NEW j \in 0 .. nins-1, j % NT \in ran' PROVE s_vic'[j] = None
    <3>1. s_vic'[j] = IF j \in Strided(t, nins) THEN None ELSE s_vic[j]
      BY <1>5, KernelAssumption DEF Keys, Entries
    <3>2. j % NT = t => j \in Strided(t, nins)
      BY DEF Strided
    <3>3. j % NT \in ran => s_vic[j] = None
      BY DEF InKeys, Done
    <3> QED BY <1>1, <2>1, <3>1, <3>2, <3>3
  <2> QED BY <1>1, <2>1 DEF Done
<1>7. Logged(KeysRd, KeysWr(p))'
  <2>1. Strided(t, S) \subseteq Slots
    BY DEF Strided, Slots
  <2>2. {s_se[s] : s \in Strided(t, S)} \ {None} \subseteq Experts
    <3>1. \A s \in Slots : s_se[s] \in Experts
      BY NothingInstalled DEF InKeys, Installed, PlanOK, FoundOK
    <3> QED BY <2>1, <3>1
  <2>3. At("s_se", Strided(t, S)) \cup At("s_st", Strided(t, S))
          \cup At("routed", {s_se[s] : s \in Strided(t, S)} \ {None}) \subseteq KeysRd[t]
    BY <2>1, <2>2 DEF KeysRd, At
  <2>4. At("s_key", Strided(t, S)) \cup At("s_vic", Strided(t, nins)) \subseteq KeysWr(p)[t]
    BY <1>5 DEF KeysWr
  <2> QED BY <2>3, <2>4, LoggedTouch DEF InKeys, Keys
<1> QED BY <1>2, <1>4, <1>6, <1>7 DEF InKeys

LEMMA ArgMinStep ==
  ASSUME NEW p, PlanOK(p), NEW t \in Threads, InArgMin(p), ArgMin(t), Shapes
  PROVE  InArgMin(p)'
<1>1. /\ ran' = ran \cup {t}
      /\ UNCHANGED <<memory, shared, nins, nact, r>>
  BY DEF ArgMin, Touch
<1>2. Inserting(p)' /\ Installed(p, 0 .. r-1)'
  BY <1>1, SameInserting DEF InArgMin, memory, shared, Installed, Moved
<1>3. (\A s \in Slots : Keyed(p, s, r))'
  BY <1>1 DEF InArgMin, Keyed, shared
<1>4. \A u \in ran' : part'[u] = Min({s_key'[s] : s \in Strided(u, S)} \cup {Parked})
  BY <1>1 DEF InArgMin, ArgMin, Shapes, shared
<1>5. Logged(KeyRd, Nothing)'
  <2>1. At("s_key", Strided(t, S)) \subseteq KeyRd[t]
    BY DEF KeyRd, At, Strided, Slots
  <2> QED BY <2>1, LoggedTouch DEF InArgMin, ArgMin, Nothing
<1> QED BY <1>1, <1>2, <1>3, <1>4, <1>5 DEF InArgMin

(* The rank a thread counts among all slots is the rank among the          *)
(* evictable ones: the parked keys are above.                              *)
LEMMA RankOfVictim ==
  ASSUME NEW p, PlanOK(p), \A s \in Slots : Keyed(p, s, 0), NEW s \in Slots
  PROVE  /\ s_key[s] # Parked <=> s \in p.V
         /\ s \in p.V => RankOf(s) = p.victimRank[s]
<1>1. \A q \in Slots : s_key[q] = IF q \in p.V THEN p.key[q] ELSE Parked
  BY PlanRounds DEF Keyed
<1>2. \A q \in Slots : p.key[q] \in Int /\ p.key[q] < Parked
  BY KernelAssumption DEF PlanOK, KeysOK
<1>3. ASSUME s \in p.V PROVE RankOf(s) = p.victimRank[s]
  <2>1. p.V \in SUBSET Slots /\ Parked \in Int
    BY PlanRounds, KernelAssumption
  <2>2. {q \in Slots : s_key[q] < s_key[s]} = {q \in p.V : p.key[q] < p.key[s]}
    BY <1>1, <1>2, <1>3, <2>1
  <2>3. p.victimRank[s] = Cardinality({q \in p.V : p.key[q] < p.key[s]})
    BY <1>3 DEF PlanOK, VictimsOK
  <2> QED BY <2>2, <2>3 DEF RankOf, Rank
<1> QED BY <1>1, <1>2, <1>3

LEMMA RankStep ==
  ASSUME NEW p, PlanOK(p), NEW t \in Threads, InRank(p), RankPhase(t)
  PROVE  InRank(p)'
<1>1. /\ ran' = ran \cup {t}
      /\ UNCHANGED <<memory, s_se, s_st, s_key, nins>>
  BY DEF RankPhase, Touch, uniform
<1>2. Inserting(p)' /\ Installed(p, {})'
  BY <1>1, SameInstalled, SameInserting DEF InRank, memory
<1>3. (\A s \in Slots : Keyed(p, s, 0))'
  BY <1>1 DEF InRank, Keyed
<1>4. nins = p.nins /\ nins \in Nat /\ nins <= MaxInserts
  BY PlanRounds DEF InRank, Inserting
<1> DEFINE placed == {s \in Strided(t, S) : s_key[s] # Parked /\ RankOf(s) < nins}
<1>5. /\ \A s \in placed : /\ s \in p.V /\ s % NT = t
                           /\ RankOf(s) = p.victimRank[s] /\ p.victimRank[s] < nins
      /\ \A s \in p.V : s % NT = t /\ p.victimRank[s] < nins => s \in placed
  <2>1. \A s \in Strided(t, S) : s \in Slots /\ s % NT = t
    BY DEF Strided, Slots
  <2>2. \A s \in Slots : s % NT = t => s \in Strided(t, S)
    BY DEF Strided, Slots
  <2>3. \A s \in Slots : /\ s_key[s] # Parked <=> s \in p.V
                         /\ s \in p.V => RankOf(s) = p.victimRank[s]
    BY RankOfVictim DEF InRank
  <2>4. p.V \in SUBSET Slots
    BY PlanRounds
  <2> QED BY <2>1, <2>2, <2>3, <2>4
<1>6. ASSUME NEW j \in 0 .. nins-1
      PROVE  s_vic'[j] = IF j < Cardinality(p.V) /\ p.victimAt[j] % NT \in ran'
                           THEN p.victimAt[j] ELSE None
  <2> DEFINE here == \E s \in placed : RankOf(s) = j
  <2>1. s_vic'[j] = IF here THEN CHOOSE s \in placed : RankOf(s) = j ELSE s_vic[j]
    BY <1>4, KernelAssumption DEF RankPhase, Entries
  <2>2. s_vic[j] = IF j < Cardinality(p.V) /\ p.victimAt[j] % NT \in ran
                     THEN p.victimAt[j] ELSE None
    BY DEF InRank, Done
  <2> HIDE DEF placed
  <2>3. CASE here
    <3>1. PICK s \in placed : RankOf(s) = j
      BY <2>3
    <3>2. \A q \in placed : RankOf(q) = j => q = p.victimAt[j]
      BY <1>5, PlanRounds
    <3>3. s = p.victimAt[j] /\ s \in p.V /\ s % NT = t /\ j = p.victimRank[s]
      BY <1>5, <3>1, <3>2
    <3>4. (CHOOSE q \in placed : RankOf(q) = j) = p.victimAt[j]
      BY <3>1, <3>2
    <3>5. j < Cardinality(p.V)
      BY <3>3, PlanRounds
    <3> QED BY <1>1, <2>1, <2>3, <3>3, <3>4, <3>5
  <2>4. CASE ~ here
    <3>1. j < Cardinality(p.V) => p.victimAt[j] \in p.V /\ p.victimRank[p.victimAt[j]] = j
      BY <1>4, PlanRounds
    <3>2. j < Cardinality(p.V) => p.victimAt[j] % NT # t
      BY <1>4, <1>5, <2>4, <3>1
    <3> QED BY <1>1, <2>1, <2>2, <2>4, <3>2
  <2> QED BY <2>3, <2>4
<1>7. Logged(KeyRd, RankWr(p))'
  <2>1. {RankOf(s) : s \in placed} \subseteq {p.victimRank[s] : s \in Strided(t, S) \cap p.V}
    BY <1>5
  <2>2. At("s_vic", {RankOf(s) : s \in placed}) \subseteq RankWr(p)[t]
    <3> HIDE DEF placed
    <3> QED BY <2>1 DEF RankWr, At
  <2>3. At("s_key", Slots) \subseteq KeyRd[t]
    BY DEF KeyRd
  <2> QED BY <2>2, <2>3, LoggedTouch DEF InRank, RankPhase
<1> QED BY <1>1, <1>2, <1>3, <1>6, <1>7 DEF InRank, Done

(* The rounds of a plan touch disjoint slots and experts.                  *)
LEMMA RoundsApart ==
  ASSUME NEW p, PlanOK(p), NEW D \in SUBSET (0 .. p.nact-1)
  PROVE  /\ ComeIn(p, D) \in SUBSET p.M /\ Refilled(p, D) \in SUBSET p.V
         /\ ComeIn(p, D) \in SUBSET Experts /\ Refilled(p, D) \in SUBSET Slots
         /\ GoOut(p, D) \in SUBSET Experts /\ GoOut(p, D) \cap p.M = {}
         /\ \A e \in p.M : e \in ComeIn(p, D) <=> p.missRank[e] \in D
         /\ \A s \in p.V : s \in Refilled(p, D) <=> p.victimRank[s] \in D
         /\ \A s \in p.V : p.slot_expert[s] \in GoOut(p, D) <=> p.victimRank[s] \in D
         /\ \A e \in GoOut(p, D) : p.table[e] \in Refilled(p, D)
<1>1. \A j \in D : /\ j \in 0 .. p.nact-1 /\ j \in 0 .. p.nins-1 /\ j \in Nat
                   /\ p.missAt[j] \in p.M /\ p.missRank[p.missAt[j]] = j
                   /\ p.victimAt[j] \in p.V /\ p.victimRank[p.victimAt[j]] = j
  BY PlanRounds
<1>2. /\ p.M \in SUBSET Experts /\ p.V \in SUBSET Slots
      /\ \A e \in p.M : p.missAt[p.missRank[e]] = e /\ p.table[e] = None
      /\ \A s \in p.V : /\ p.victimAt[p.victimRank[s]] = s
                        /\ p.slot_expert[s] \in Experts
                        /\ p.table[p.slot_expert[s]] = s
  BY PlanRounds
<1>0. /\ \A e : e \in ComeIn(p, D) <=> \E j \in D : e = p.missAt[j]
      /\ \A s : s \in Refilled(p, D) <=> \E j \in D : s = p.victimAt[j]
  BY Zenon DEF ComeIn, Refilled
<1>3. ComeIn(p, D) \in SUBSET p.M /\ Refilled(p, D) \in SUBSET p.V
  BY <1>1, <1>0
<1>4. \A e \in p.M : e \in ComeIn(p, D) <=> p.missRank[e] \in D
  <2>1. ASSUME NEW e \in p.M, e \in ComeIn(p, D) PROVE p.missRank[e] \in D
    <3>1. PICK j \in D : e = p.missAt[j]
      BY <1>0, <2>1
    <3> QED BY <1>1, <3>1
  <2>2. ASSUME NEW e \in p.M, p.missRank[e] \in D PROVE e \in ComeIn(p, D)
    <3>1. e = p.missAt[p.missRank[e]]
      BY <1>2
    <3> QED BY <1>0, <2>2, <3>1, Zenon
  <2> QED BY <2>1, <2>2
<1>5. \A s \in p.V : s \in Refilled(p, D) <=> p.victimRank[s] \in D
  <2>1. ASSUME NEW s \in p.V, s \in Refilled(p, D) PROVE p.victimRank[s] \in D
    <3>1. PICK j \in D : s = p.victimAt[j]
      BY <1>0, <2>1
    <3> QED BY <1>1, <3>1
  <2>2. ASSUME NEW s \in p.V, p.victimRank[s] \in D PROVE s \in Refilled(p, D)
    <3>1. s = p.victimAt[p.victimRank[s]]
      BY <1>2
    <3> QED BY <1>0, <2>2, <3>1, Zenon
  <2> QED BY <2>1, <2>2
<1>6. \A e \in GoOut(p, D) : \E s \in Refilled(p, D) : e = p.slot_expert[s]
  BY DEF GoOut
<1>7. \A e \in GoOut(p, D) : e \in Experts /\ p.table[e] \in Refilled(p, D)
  BY <1>2, <1>3, <1>6
<1>8. None \notin Slots
  BY KernelAssumption DEF None, Slots
<1>9. GoOut(p, D) \cap p.M = {}
  BY <1>2, <1>3, <1>7, <1>8
<1>10. \A s \in p.V : p.slot_expert[s] \in GoOut(p, D) <=> p.victimRank[s] \in D
  <2>1. \A s \in Refilled(p, D) : p.slot_expert[s] \in GoOut(p, D)
    BY DEF GoOut
  <2> QED BY <1>2, <1>3, <1>5, <1>7, <2>1
<1> QED BY <1>2, <1>3, <1>4, <1>5, <1>7, <1>9, <1>10

(* installVictim for the rounds in rs, when those in D are done.           *)
LEMMA InstallRounds ==
  ASSUME NEW p, PlanOK(p), NEW t \in Threads,
         NEW D \in SUBSET (0 .. p.nact-1), NEW rs \in SUBSET (0 .. p.nact-1), D \cap rs = {},
         NEW at, \A j \in rs : at[j] = p.victimAt[j], NEW extra,
         Installed(p, D), step = p.step + 1, Install(t, rs, at, extra)
  PROVE  /\ Installed(p, D \cup rs)'
         /\ Touch(t, At("miss_expert", rs) \cup At("s_vic", Entries), RoundWr(p, rs) \cup extra)
<1> DEFINE slots == {at[j] : j \in rs}
           new   == {miss[j][1] : j \in rs}
           old   == {s_se[s] : s \in slots} \ {None}
           round(s) == CHOOSE j \in rs : at[j] = s
           home(e)  == at[CHOOSE j \in rs : miss[j][1] = e]
<1>1. \A j \in 0 .. p.nact-1 : /\ j \in Entries /\ j \in 0 .. p.nins-1 /\ j \in Nat /\ j < p.nins
                               /\ p.missAt[j] \in p.M /\ p.missRank[p.missAt[j]] = j
                               /\ p.victimAt[j] \in p.V /\ p.victimRank[p.victimAt[j]] = j
  BY PlanRounds, KernelAssumption DEF Entries
<1>2. \A j \in rs : miss[j][1] = p.missAt[j]
  BY <1>1 DEF Installed, Moved
<1>3. new = ComeIn(p, rs) /\ slots = Refilled(p, rs)
  <2>1. new = {p.missAt[j] : j \in rs}
    BY <1>2
  <2>2. slots = {p.victimAt[j] : j \in rs}
    BY Zenon
  <2> QED BY <2>1, <2>2, Zenon DEF ComeIn, Refilled
<1>4. \A s \in slots : s \in p.V /\ p.victimRank[s] \in rs /\ s \in Slots
                       /\ s \notin Refilled(p, D)
  <2>1. \A s \in Refilled(p, rs) : s \in p.V /\ p.victimRank[s] \in rs /\ s \in Slots
    BY RoundsApart
  <2>2. \A s \in p.V : s \in Refilled(p, D) <=> p.victimRank[s] \in D
    BY RoundsApart
  <2> HIDE DEF slots
  <2> QED BY <1>3, <2>1, <2>2
<1>5. \A s \in slots : s_se[s] = p.slot_expert[s] /\ p.slot_expert[s] # None
  <2>1. \A s \in slots : p.slot_expert[s] \in Experts
    BY <1>4, PlanRounds
  <2>2. None \notin Experts
    BY KernelAssumption DEF None, Experts
  <2> QED BY <1>4, <2>1, <2>2 DEF Installed, ExpertAfter
<1>6. old = GoOut(p, rs)
  <2> HIDE DEF slots
  <2> QED BY <1>3, <1>5 DEF GoOut
<1>7. \A e \in new : home(e) = p.victimAt[p.missRank[e]]
  <2>1. ASSUME NEW e \in new PROVE home(e) = p.victimAt[p.missRank[e]]
    <3>1. PICK j \in rs : e = p.missAt[j]
      BY <1>2
    <3>2. p.missRank[e] = j
      BY <1>1, <3>1
    <3>3. \A i \in rs : miss[i][1] = e => i = j
      BY <1>1, <1>2, <3>2
    <3>4. miss[j][1] = e
      BY <1>2, <3>1
    <3>5. (CHOOSE i \in rs : miss[i][1] = e) = j
      BY <3>3, <3>4
    <3> QED BY <3>2, <3>5
  <2> QED BY <2>1
<1>8. \A s \in slots : round(s) = p.victimRank[s] /\ miss[round(s)][1] = p.missAt[p.victimRank[s]]
  <2>1. ASSUME NEW s \in slots PROVE round(s) = p.victimRank[s]
    <3>1. PICK j \in rs : s = at[j]
      OBVIOUS
    <3>2. p.victimRank[s] = j
      BY <1>1, <3>1
    <3>3. \A i \in rs : at[i] = s => i = j
      BY <1>1, <3>2
    <3> QED BY <3>1, <3>2, <3>3
  <2> QED BY <1>2, <1>4, <2>1
<1>9. /\ table' = [e \in Experts |-> IF e \in new THEN home(e)
                                     ELSE IF e \in old THEN None ELSE table[e]]
      /\ map_cold' = [e \in Experts |-> IF e \in new THEN None
                                        ELSE IF e \in old THEN e ELSE map_cold[e]]
      /\ s_se' = [s \in Slots |-> IF s \in slots THEN miss[round(s)][1] ELSE s_se[s]]
      /\ s_st' = [s \in Slots |-> IF s \in slots THEN step ELSE s_st[s]]
      /\ miss' = [j \in Entries |-> IF j \in rs THEN <<miss[j][1], at[j]>> ELSE miss[j]]
      /\ Touch(t, At("miss_expert", rs) \cup At("s_vic", Entries),
               At("table", new \cup old) \cup At("map_cold", new \cup old)
                 \cup At("s_se", slots) \cup At("s_st", slots)
                 \cup At("miss_slot", rs) \cup extra)
  BY DEF Install
<1> HIDE DEF slots, new, old, round, home
<1> DEFINE all == D \cup rs
<1>10. /\ ComeIn(p, all) = ComeIn(p, D) \cup new
       /\ Refilled(p, all) = Refilled(p, D) \cup slots
       /\ GoOut(p, all) = GoOut(p, D) \cup old
       /\ old \cap ComeIn(p, D) = {}
  <2>1. ComeIn(p, all) = ComeIn(p, D) \cup new /\ Refilled(p, all) = Refilled(p, D) \cup slots
    BY <1>3 DEF ComeIn, Refilled
  <2>2. GoOut(p, all) = GoOut(p, D) \cup old
    BY <1>3, <1>6, <2>1 DEF GoOut
  <2>3. old \cap ComeIn(p, D) = {}
    BY <1>6, RoundsApart
  <2> QED BY <2>1, <2>2, <2>3
<1>11. table' = [e \in Experts |-> IF e \in ComeIn(p, all) THEN p.victimAt[p.missRank[e]]
                                   ELSE IF e \in GoOut(p, all) THEN None ELSE p.table[e]]
  <2>1. \A e \in Experts : table[e] = IF e \in ComeIn(p, D) THEN p.victimAt[p.missRank[e]]
                                      ELSE IF e \in GoOut(p, D) THEN None ELSE p.table[e]
    BY DEF Installed, Moved
  <2> HIDE DEF all
  <2> QED BY <1>7, <1>9, <1>10, <2>1
<1>12. map_cold' = [e \in Experts |-> IF e \in ComeIn(p, all) THEN None
                                      ELSE IF e \in GoOut(p, all) THEN e ELSE p.map_cold[e]]
  <2>1. \A e \in Experts : map_cold[e] = IF e \in ComeIn(p, D) THEN None
                                         ELSE IF e \in GoOut(p, D) THEN e ELSE p.map_cold[e]
    BY DEF Installed, Moved
  <2> HIDE DEF all
  <2> QED BY <1>9, <1>10, <2>1
<1>13. miss' = [j \in Entries |-> <<IF j < p.nins THEN p.missAt[j] ELSE p.miss[j][1],
                                    IF j \in all THEN p.victimAt[j] ELSE p.miss[j][2]>>]
  <2>1. \A j \in Entries : miss[j] = <<IF j < p.nins THEN p.missAt[j] ELSE p.miss[j][1],
                                       IF j \in D THEN p.victimAt[j] ELSE p.miss[j][2]>>
    BY DEF Installed, Moved
  <2> QED BY <1>1, <1>2, <1>9, <2>1
<1>14. \A s \in Slots : s_se'[s] = ExpertAfter(p, all)[s] /\ s_st'[s] = StampAfter(p, all)[s]
  <2>1. ASSUME NEW s \in Slots
        PROVE  /\ s_se[s] = IF s \in Refilled(p, D) THEN p.missAt[p.victimRank[s]]
                            ELSE p.slot_expert[s]
               /\ s_st[s] = IF s \in Refilled(p, D) THEN p.step + 1 ELSE p.refreshed[s]
    BY DEF Installed, ExpertAfter, StampAfter
  <2> HIDE DEF all
  <2> QED BY <1>8, <1>9, <1>10, <2>1 DEF ExpertAfter, StampAfter
<1>15. Touch(t, At("miss_expert", rs) \cup At("s_vic", Entries), RoundWr(p, rs) \cup extra)
  BY <1>3, <1>6, <1>9 DEF RoundWr
<1> QED BY <1>11, <1>12, <1>13, <1>14, <1>15 DEF Installed, Moved

LEMMA InstalledAlike ==
  ASSUME NEW p, NEW D, NEW STATE X, X' = D, Installed(p, D)'
  PROVE  Installed(p, X)'
BY DEF Installed, Moved, ExpertAfter, StampAfter, ComeIn, Refilled, GoOut

LEMMA InstallOneStep ==
  ASSUME NEW p, PlanOK(p), NEW t \in Threads, InInstallOne(p), InstallOne(t), Shapes
  PROVE  InInstallOne(p)'
<1>1. /\ ran' = ran \cup {t} /\ t \notin ran
      /\ UNCHANGED <<slot_expert, slot_stamp, step, routed, n_miss, s_vic, part, nins, nact, r>>
  BY DEF InstallOne, In, Install, Touch, uniform
<1>2. Inserting(p)'
  BY <1>1, SameInserting DEF InInstallOne
<1>3. (r \in 0 .. nins-1 /\ r < Cardinality(p.V) /\ Best = p.key[p.victimAt[r]])'
  <2>1. Best' = Best
    BY <1>1 DEF Best
  <2> QED BY <1>1, <2>1 DEF InInstallOne
<1>4. /\ nins = p.nins /\ r \in 0 .. p.nact-1 /\ r \in Nat
      /\ 0 .. r-1 \in SUBSET (0 .. p.nact-1) /\ p.victimAt[r] \in Slots
      /\ p.victimAt[r] \in p.V /\ p.victimRank[p.victimAt[r]] = r
  BY PlanRounds DEF InInstallOne, Inserting
<1>5. CASE t = 0
  <2>1. Installed(p, 0 .. r-1) /\ \A s \in Slots : Keyed(p, s, r)
    BY <1>1, <1>5 DEF InInstallOne
  <2>2. Best % SlotBase = p.victimAt[r]
    BY <1>4 DEF InInstallOne, PlanOK, KeysOK
  <2> DEFINE at == [j \in {r} |-> Best % SlotBase]  extra == At("s_key", {Best % SlotBase})
  <2>3. Install(t, {r}, at, extra) /\ s_key' = [s_key EXCEPT ![p.victimAt[r]] = Parked]
    BY <1>5, <2>2 DEF InstallOne
  <2>4. \A j \in {r} : at[j] = p.victimAt[j]
    BY <2>2
  <2>5. (0 .. r-1) \cap {r} = {} /\ {r} \in SUBSET (0 .. p.nact-1) /\ step = p.step + 1
    BY <1>4 DEF InInstallOne, Inserting, Begun
  <2> HIDE DEF at, extra
  <2>6. ASSUME NEW D, D = 0 .. r-1, NEW rs, rs = {r}, NEW a, a = at, NEW x, x = extra
        PROVE  Installed(p, D \cup rs)' /\ \A b \in log' : b \in log \/ b[1] = t
    <3>1. /\ D \in SUBSET (0 .. p.nact-1) /\ rs \in SUBSET (0 .. p.nact-1) /\ D \cap rs = {}
          /\ \A j \in rs : a[j] = p.victimAt[j]
          /\ Installed(p, D) /\ step = p.step + 1 /\ Install(t, rs, a, x)
      BY <1>4, <2>1, <2>3, <2>4, <2>5, <2>6
    <3>2. /\ Installed(p, D \cup rs)'
          /\ Touch(t, At("miss_expert", rs) \cup At("s_vic", Entries), RoundWr(p, rs) \cup x)
      BY <3>1, InstallRounds
    <3> QED BY <3>2 DEF Touch
  <2>7. (0 .. r-1) \cup {r} = 0 .. (r+1)-1 /\ r' = r
    BY <1>1, <1>4
  <2>8. Installed(p, 0 .. (r+1)-1)'
    <3>1. ASSUME NEW D, D = 0 .. (r+1)-1 PROVE Installed(p, 0 .. (r+1)-1)'
      <4>1. Installed(p, D)'
        BY <2>6, <2>7, <3>1
      <4> QED BY <2>7, <3>1, <4>1, InstalledAlike
    <3> QED BY <3>1
  <2>9. \A s \in Slots : s_key'[s] = IF s \in p.V /\ p.victimRank[s] >= r+1 THEN p.key[s] ELSE Parked
    <3> SUFFICES ASSUME NEW s \in Slots
                 PROVE  s_key'[s] = IF s \in p.V /\ p.victimRank[s] >= r+1 THEN p.key[s] ELSE Parked
      OBVIOUS
    <3>1. s_key'[s] = IF s = p.victimAt[r] THEN Parked ELSE s_key[s]
      BY <2>3 DEF Shapes
    <3>2. s_key[s] = IF s \in p.V /\ p.victimRank[s] >= r THEN p.key[s] ELSE Parked
      BY <2>1 DEF Keyed
    <3>3. s \in p.V /\ s # p.victimAt[r] => p.victimRank[s] # r /\ p.victimRank[s] \in Nat
      BY PlanRounds
    <3>4. CASE s \in p.V
      BY <1>4, <3>1, <3>2, <3>3, <3>4
    <3>5. CASE s \notin p.V
      BY <3>1, <3>2, <3>5
    <3> QED BY <3>4, <3>5
  <2>10. \A a \in log' : a[1] = 0
    BY <1>5, <2>6 DEF InInstallOne
  <2>11. 0 \in ran' /\ r' = r
    BY <1>1, <1>5
  <2> QED BY <1>2, <1>3, <2>8, <2>9, <2>10, <2>11 DEF InInstallOne, Keyed
<1>6. CASE t # 0
  <2>1. /\ UNCHANGED <<table, map_cold, s_se, s_st, miss, s_key, r>>
        /\ log' = log /\ (0 \in ran' <=> 0 \in ran)
    BY <1>1, <1>6 DEF InstallOne, Touch
  <2>2. (\A a \in log : a[1] = 0)'
    BY <2>1 DEF InInstallOne
  <2> DEFINE k == IF 0 \in ran THEN r + 1 ELSE r
  <2>3. k' = k
    BY <2>1
  <2>4. Installed(p, 0 .. k-1) /\ \A s \in Slots : Keyed(p, s, k)
    BY DEF InInstallOne
  <2> HIDE DEF k
  <2>5. Installed(p, 0 .. k-1)' /\ (\A s \in Slots : Keyed(p, s, k))'
    BY <2>1, <2>3, <2>4 DEF Installed, Moved, Keyed
  <2> QED BY <1>2, <1>3, <2>2, <2>5 DEF InInstallOne, k
<1> QED BY <1>5, <1>6

LEMMA InstallBatchStep ==
  ASSUME NEW p, PlanOK(p), NEW t \in Threads, InInstall(p), InstallBatch(t)
  PROVE  InInstall(p)'
<1> DEFINE D == {j \in 0 .. nact-1 : Done(j)}  rs == Strided(t, nact)
<1>1. /\ ran' = ran \cup {t} /\ t \notin ran
      /\ UNCHANGED <<slot_expert, slot_stamp, step, routed, n_miss, s_key, s_vic, part, nins, nact, r>>
  BY DEF InstallBatch, In, Install, Touch, uniform
<1>2. Inserting(p)'
  BY <1>1, SameInserting DEF InInstall
<1>3. (nact = p.nact /\ \A j \in 0 .. nact-1 : s_vic[j] = p.victimAt[j])'
  BY <1>1 DEF InInstall
<1>4. /\ D \in SUBSET (0 .. p.nact-1) /\ rs \in SUBSET (0 .. p.nact-1) /\ D \cap rs = {}
      /\ D' = D \cup rs
  BY <1>1 DEF InInstall, Done, Strided
<1>5. \A j \in rs : s_vic[j] = p.victimAt[j]
  BY <1>4 DEF InInstall
<1>6. Install(t, rs, s_vic, {}) /\ Installed(p, D) /\ step = p.step + 1
  BY DEF InInstall, InstallBatch, Inserting, Begun
<1>7. rs = Strided(t, p.nact)
  BY DEF InInstall
<1> HIDE DEF D, rs
<1>8. ASSUME NEW C, C = D, NEW q, q = rs, NEW a, a = s_vic
      PROVE  Installed(p, D)' /\ Logged(PairRd, InstallWr(p))'
  <2>1. /\ C \in SUBSET (0 .. p.nact-1) /\ q \in SUBSET (0 .. p.nact-1) /\ C \cap q = {}
        /\ \A j \in q : a[j] = p.victimAt[j]
        /\ Installed(p, C) /\ step = p.step + 1 /\ Install(t, q, a, {})
    BY <1>4, <1>5, <1>6, <1>8
  <2>2. /\ Installed(p, C \cup q)'
        /\ Touch(t, At("miss_expert", q) \cup At("s_vic", Entries), RoundWr(p, q) \cup {})
    BY <2>1, InstallRounds
  <2>3. D' = C \cup q
    BY <1>4, <1>8
  <2>4. Installed(p, D)'
    BY <2>2, <2>3, InstalledAlike
  <2>5. At("miss_expert", q) \cup At("s_vic", Entries) \subseteq PairRd[t]
    <3>1. p.nact \in Nat /\ p.nact <= MaxInserts /\ MaxInserts \in Nat
      BY PlanRounds, KernelAssumption
    <3>2. q \subseteq Entries
      BY <2>1, <3>1 DEF Entries
    <3> QED BY <3>2 DEF PairRd, At
  <2>6. RoundWr(p, q) \cup {} \subseteq InstallWr(p)[t]
    BY <1>7, <1>8 DEF InstallWr
  <2>7. Logged(PairRd, InstallWr(p))'
    BY <2>2, <2>5, <2>6, LoggedTouch DEF InInstall
  <2> QED BY <2>4, <2>7
<1> QED BY <1>2, <1>3, <1>8 DEF InInstall, D

LEMMA StoreStep ==
  ASSUME NEW p, PlanOK(p), NEW t \in Threads, InStore(p), Store(t)
  PROVE  InStore(p)'
<1>1. /\ ran' = ran \cup {t}
      /\ UNCHANGED <<table, map_cold, step, routed, miss, shared, uniform>>
  BY DEF Store, Touch
<1>2. (step = p.step + 1 /\ Marked(p) /\ Narrow(p) /\ p.nins > 0 /\ nact = p.nact)'
  BY <1>1 DEF InStore, Marked, Narrow, uniform
<1>3. Installed(p, 0 .. p.nact-1)'
  BY <1>1, SameInstalled DEF InStore, shared
<1>4. \A s \in Slots : Done(s)' <=> Done(s) \/ s \in Strided(t, S)
  BY <1>1, KernelAssumption DEF Done, Strided, Slots
<1>5. (slot_expert = [s \in Slots |-> IF Done(s) THEN s_se[s] ELSE p.slot_expert[s]])'
  BY <1>1, <1>4 DEF InStore, Store, shared
<1>6. (slot_stamp = [s \in Slots |-> IF Done(s) THEN s_st[s] ELSE p.refreshed[s]])'
  BY <1>1, <1>4 DEF InStore, Store, shared
<1>7. (n_miss = IF 0 \in ran THEN nact ELSE 0)'
  BY <1>1 DEF InStore, Store, uniform
<1>8. Logged(StoreRd, StoreWr)'
  <2>1. /\ At("s_se", Strided(t, S)) \cup At("s_st", Strided(t, S)) \subseteq StoreRd[t]
        /\ At("slot_expert", Strided(t, S)) \cup At("slot_stamp", Strided(t, S))
             \cup (IF t = 0 THEN {<<"n_miss", 0>>} ELSE {}) \subseteq StoreWr[t]
    BY DEF StoreRd, StoreWr, OfThreadZero
  <2> QED BY <2>1, LoggedTouch DEF InStore, Store
<1> QED BY <1>2, <1>3, <1>5, <1>6, <1>7, <1>8 DEF InStore

----------------------------------------------------------------------------
(* The barriers: what all threads together have done is what the next      *)
(* interval starts from.                                                   *)

LEMMA IndicesAreNumbers == Experts \subseteq Nat /\ Slots \subseteq Nat
BY KernelAssumption DEF Experts, Slots

LEMMA AllDone ==
  ASSUME ran = Threads
  PROVE  \A i \in Nat : Done(i)
BY StridedOwner DEF Done

(* The shares the threads have counted add up to the whole.                *)
LEMMA TotalOfShares ==
  ASSUME NEW Q \in SUBSET Experts, NEW A,
         \A t \in Threads : A[t] \in SUBSET Q /\ part[t] = Cardinality(A[t]),
         \A t, u \in Threads : t # u => A[t] \cap A[u] = {},
         \A e \in Q : \E t \in Threads : e \in A[t]
  PROVE  Total = Cardinality(Q) /\ Cardinality(Q) \in Nat
<1>1. IsFiniteSet(Experts) /\ IsFiniteSet(Threads)
  <2>1. 0 \in Int /\ E - 1 \in Int /\ NT - 1 \in Int
    BY KernelAssumption
  <2> QED BY <2>1, FS_Interval DEF Experts, Threads
<1>2. \A t \in Threads : A[t] \in SUBSET Experts
  OBVIOUS
<1>3. IsFiniteSet(Q) /\ \A t \in Threads : IsFiniteSet(A[t])
  BY <1>1, <1>2, FS_Subset
<1>4. Q = UNION {A[t] : t \in Threads}
  OBVIOUS
<1>5. Total = Cardinality(UNION {A[t] : t \in Threads})
  <2>1. \A t \in Threads : IsFiniteSet(A[t]) /\ part[t] = Cardinality(A[t])
    BY <1>3
  <2>2. \A t, u \in Threads : t # u => A[t] \cap A[u] = {}
    OBVIOUS
  <2>3. SumFunctionOnSet(part, Threads) = Cardinality(UNION {A[t] : t \in Threads})
    BY <1>1, <2>1, <2>2, SumOfSizes
  <2> QED BY <2>3 DEF Total
<1> QED BY <1>3, <1>4, <1>5, FS_CardinalityType

LEMMA LaunchIds ==
  ASSUME ids \in RoutedIds
  PROVE  /\ Len(ids) \in Nat
         /\ Picked = {e \in Experts : \E i \in 0 .. Len(ids)-1 : ids[i + 1] = e}
         /\ Picked # {}
<1>1. ids \in Seq(Int) /\ \E i \in DOMAIN ids : ids[i] \in Experts
  BY KernelAssumption
<1>2. Len(ids) \in Nat /\ DOMAIN ids = 1 .. Len(ids)
  BY <1>1
<1>3. \A e \in Experts : (\E i \in DOMAIN ids : ids[i] = e)
                         <=> \E i \in 0 .. Len(ids)-1 : ids[i + 1] = e
  <2> SUFFICES ASSUME NEW e \in Experts
               PROVE  (\E i \in DOMAIN ids : ids[i] = e)
                         <=> \E i \in 0 .. Len(ids)-1 : ids[i + 1] = e
    OBVIOUS
  <2>1. ASSUME NEW i \in DOMAIN ids, ids[i] = e
        PROVE  \E j \in 0 .. Len(ids)-1 : ids[j + 1] = e
    <3>1. i - 1 \in 0 .. Len(ids)-1 /\ (i - 1) + 1 = i
      BY <1>2
    <3> QED BY <2>1, <3>1
  <2>2. ASSUME NEW i \in 0 .. Len(ids)-1, ids[i + 1] = e
        PROVE  \E j \in DOMAIN ids : ids[j] = e
    <3>1. i + 1 \in DOMAIN ids
      BY <1>2
    <3> QED BY <2>2, <3>1
  <2> QED BY <2>1, <2>2
<1>4. PICK i \in DOMAIN ids : ids[i] \in Experts
  BY <1>1
<1>5. ids[i] \in Picked
  BY <1>4 DEF Picked
<1> QED BY <1>2, <1>3, <1>5 DEF Picked

LEMMA ClearBarrier ==
  ASSUME NEW p, PlanOK(p), InClear(p), ran = Threads, phase = "clear", Barrier
  PROVE  phase' = "mark" /\ InMark(p)'
<1>1. /\ phase' = "mark" /\ ran' = {} /\ log' = {}
      /\ UNCHANGED <<memory, ids>>
  BY DEF Barrier, Enter
<1>2. \A e \in Experts : Done(e) /\ e \in Nat
  BY AllDone, IndicesAreNumbers
<1>3. 0 \in ran
  BY KernelAssumption DEF Threads
<1>4. (Unmoved(p) /\ slot_stamp = p.slot_stamp /\ Begun(p))'
  BY <1>1, <1>3 DEF InClear, Unmoved, Begun, memory
<1>5. \A e \in Experts : routed'[e] = 0
  BY <1>1, <1>2 DEF InClear, memory
<1>6. (\A i \in 0 .. Len(ids)-1 : ~ Done(i))'
  BY <1>1 DEF Done
<1> QED BY <1>1, <1>4, <1>5, <1>6 DEF InMark

LEMMA MarkBarrier ==
  ASSUME NEW p, PlanOK(p), p.R = Picked, ids \in RoutedIds,
         InMark(p), ran = Threads, phase = "mark", Barrier
  PROVE  phase' = "count" /\ InCount(p)'
<1>1. /\ phase' = "count" /\ ran' = {} /\ log' = {}
      /\ UNCHANGED <<memory, ids, part>>
  BY DEF Barrier, Enter
<1>2. \A i \in 0 .. Len(ids)-1 : Done(i)
  BY LaunchIds, StridedOwner DEF Done
<1>3. \A e \in Experts : e \in p.R <=> \E i \in 0 .. Len(ids)-1 : ids[i + 1] = e
  BY LaunchIds
<1>4. \A e \in Experts : routed[e] = IF e \in p.R THEN 1 ELSE 0
  BY <1>2, <1>3 DEF InMark
<1>5. (Unmoved(p) /\ slot_stamp = p.slot_stamp /\ Begun(p) /\ Marked(p))'
  BY <1>1, <1>4 DEF InMark, Unmoved, Begun, Marked, memory
<1> QED BY <1>1, <1>5, LoggedNothing DEF InCount

LEMMA CountBarrier ==
  ASSUME NEW p, PlanOK(p), InCount(p), ran = Threads, phase = "count", Barrier
  PROVE  \/ phase' = "hits" /\ InHits(p)'
         \/ phase' = "exit" /\ InExit(p)'
<1>1. /\ phase' = (IF Total > MaxDistinct THEN "exit" ELSE "hits") /\ ran' = {} /\ log' = {}
      /\ UNCHANGED <<memory, ids, part>>
  BY DEF Barrier, Enter
<1>2. Total = Cardinality(p.R) /\ Cardinality(p.R) \in Nat
  <2> DEFINE A == [t \in Threads |-> Strided(t, E) \cap p.R]
  <2>1. p.R \in SUBSET Experts
    BY DEF PlanOK, FoundOK
  <2>2. \A t \in Threads : A[t] \in SUBSET p.R /\ part[t] = Cardinality(A[t])
    BY DEF InCount
  <2>3. \A t, u \in Threads : t # u => A[t] \cap A[u] = {}
    BY DEF Strided
  <2>4. \A e \in p.R : \E t \in Threads : e \in A[t]
    <3> SUFFICES ASSUME NEW e \in p.R PROVE e \in A[e % NT] /\ e % NT \in Threads
      OBVIOUS
    <3>1. e % NT \in Threads
      BY <2>1, StridedOwner, IndicesAreNumbers
    <3>2. e \in Strided(e % NT, E)
      BY <2>1, KernelAssumption DEF Strided, Experts
    <3> QED BY <3>1, <3>2
  <2> HIDE DEF A
  <2> QED BY <2>1, <2>2, <2>3, <2>4, TotalOfShares
<1>3. (Unmoved(p) /\ slot_stamp = p.slot_stamp /\ Begun(p) /\ Marked(p))'
  BY <1>1 DEF InCount, Unmoved, Begun, Marked, memory
<1>4. CASE Total > MaxDistinct
  <2>1. ~ Narrow(p)
    BY <1>2, <1>4, KernelAssumption DEF Narrow
  <2>2. ~ Narrow(p)'
    BY <2>1 DEF Narrow
  <2> QED BY <1>1, <1>3, <1>4, <2>2 DEF InExit, Wide, Begun
<1>5. CASE ~ (Total > MaxDistinct)
  <2>1. Narrow(p)
    BY <1>2, <1>5, KernelAssumption DEF Narrow
  <2>2. Narrow(p)'
    BY <2>1 DEF Narrow
  <2>3. (\A e : ~ Seen(e))'
    BY <1>1 DEF Seen
  <2>4. p.slot_stamp = [s \in Slots |-> p.slot_stamp[s]]
    BY DEF PlanOK, FoundOK
  <2>5. (slot_stamp = [s \in Slots |-> IF p.slot_expert[s] \in p.R /\ Seen(p.slot_expert[s])
                                         THEN p.step + 1 ELSE p.slot_stamp[s]])'
    BY <1>3, <2>3, <2>4
  <2> QED BY <1>1, <1>3, <1>5, <2>2, <2>5, LoggedNothing DEF InHits
<1> QED BY <1>4, <1>5

LEMMA HitsBarrier ==
  ASSUME NEW p, PlanOK(p), InHits(p), ran = Threads, phase = "hits", Barrier
  PROVE  \/ phase' = "list" /\ InList(p)'
         \/ phase' = "exit" /\ InExit(p)'
<1>1. /\ phase' = (IF AfterHits = 0 THEN "exit" ELSE "list") /\ ran' = {} /\ log' = {}
      /\ nins' = AfterHits /\ UNCHANGED <<memory, ids, part>>
  BY DEF Barrier, Enter
<1>2. Total = Cardinality(p.M) /\ Cardinality(p.M) \in Nat
  <2> DEFINE A == [t \in Threads |-> Chunk(t) \cap p.M]
  <2>1. p.M \in SUBSET Experts
    BY PlanRounds
  <2>2. \A t \in Threads : A[t] \in SUBSET p.M /\ part[t] = Cardinality(A[t])
    BY DEF InHits
  <2>3. \A t, u \in Threads : t # u => A[t] \cap A[u] = {}
    BY ChunksPartition
  <2>4. \A e \in p.M : \E t \in Threads : e \in A[t]
    BY <2>1, ChunksPartition
  <2> HIDE DEF A
  <2> QED BY <2>1, <2>2, <2>3, <2>4, TotalOfShares
<1>3. AfterHits = p.nins /\ p.nins \in Nat
  <2>1. MaxInserts \in Nat
    BY KernelAssumption
  <2>2. {Total, MaxInserts} \in SUBSET Nat
    BY <1>2, <2>1
  <2>3. AfterHits \in {Total, MaxInserts} /\ AfterHits <= Total /\ AfterHits <= MaxInserts
    BY <2>2, MinIsLeast DEF AfterHits
  <2> QED BY <1>2, <2>1, <2>3 DEF PlanOK, InsertsOK
<1>4. (Unmoved(p) /\ Begun(p) /\ Marked(p) /\ Narrow(p))'
  BY <1>1 DEF InHits, Unmoved, Begun, Marked, Narrow, memory
<1>5. slot_stamp' = p.refreshed
  <2>1. \A s \in Slots : Seen(p.slot_expert[s])
    BY ChunksPartition DEF PlanOK, FoundOK, Seen
  <2>2. slot_stamp = [s \in Slots |-> IF p.slot_expert[s] \in p.R
                                        THEN p.step + 1 ELSE p.slot_stamp[s]]
    BY <2>1 DEF InHits
  <2> QED BY <1>1, <2>2 DEF PlanOK, KeysOK, memory
<1>6. CASE AfterHits = 0
  BY <1>1, <1>3, <1>4, <1>5, <1>6 DEF InExit, Quiet, Begun
<1>7. CASE AfterHits # 0
  <2>1. (Inserting(p) /\ table = p.table /\ map_cold = p.map_cold)'
    BY <1>1, <1>3, <1>4, <1>5, <1>7 DEF Inserting, Unmoved
  <2>2. (\A t \in Threads : part[t] = Cardinality(Chunk(t) \cap p.M))'
    BY <1>1 DEF InHits
  <2>3. (\A e : ~ Seen(e) /\ ~ Done(e))'
    BY <1>1 DEF Seen, Done
  <2>4. p.miss = [j \in Entries |-> <<p.miss[j][1], p.miss[j][2]>>]
    BY DEF PlanOK, FoundOK
  <2>5. (miss = [j \in Entries |-> <<IF j < nins /\ Seen(p.missAt[j]) THEN p.missAt[j]
                                 ELSE p.miss[j][1], p.miss[j][2]>>])'
    BY <1>4, <2>3, <2>4 DEF Unmoved
  <2> QED BY <1>1, <1>7, <2>1, <2>2, <2>3, <2>5, LoggedNothing DEF InList
<1> QED BY <1>6, <1>7

LEMMA ListBarrier ==
  ASSUME NEW p, PlanOK(p), InList(p), ran = Threads, phase = "list", Barrier
  PROVE  phase' = "keys" /\ InKeys(p)'
<1>1. /\ phase' = "keys" /\ ran' = {} /\ log' = {}
      /\ UNCHANGED <<memory, shared, nins>>
  BY DEF Barrier, Enter
<1>2. Inserting(p)'
  BY <1>1, SameInserting DEF InList, memory
<1>3. nins = p.nins /\ nins \in Nat /\ nins <= MaxInserts /\ MaxInserts \in Nat
  BY PlanRounds, KernelAssumption DEF InList, Inserting
<1>4. \A j \in Entries : j < nins => Seen(p.missAt[j])
  <2> SUFFICES ASSUME NEW j \in Entries, j < nins PROVE Seen(p.missAt[j])
    OBVIOUS
  <2>1. j \in 0 .. p.nins-1
    BY <1>3 DEF Entries
  <2>2. p.missAt[j] \in Experts
    BY <2>1, PlanRounds
  <2> QED BY <2>2, ChunksPartition DEF Seen
<1>5. Moved(p, {})
  <2>1. table = p.table /\ map_cold = p.map_cold
    BY DEF InList
  <2>2. /\ p.table = [e \in Experts |-> p.table[e]]
        /\ p.map_cold = [e \in Experts |-> p.map_cold[e]]
    BY DEF PlanOK, FoundOK
  <2>3. miss = [j \in Entries |-> <<IF j < p.nins THEN p.missAt[j] ELSE p.miss[j][1],
                                    p.miss[j][2]>>]
    BY <1>3, <1>4 DEF InList
  <2> QED BY <2>1, <2>2, <2>3, NothingInstalled DEF Moved
<1>6. \A s \in Slots : s_se[s] = p.slot_expert[s] /\ s_st[s] = p.refreshed[s]
  <2>1. \A s \in Slots : Done(s)
    BY AllDone, IndicesAreNumbers
  <2> QED BY <2>1 DEF InList
<1>7. Installed(p, {})
  BY <1>5, <1>6, NothingInstalled DEF Installed
<1>8. Installed(p, {})'
  BY <1>1, <1>7, SameInstalled DEF memory, shared
<1>9. (\A i : ~ Done(i))'
  BY <1>1 DEF Done
<1> QED BY <1>1, <1>2, <1>8, <1>9, LoggedNothing DEF InKeys

(* The store interval starts with the inserts done and nothing stored.     *)
LEMMA NowStoring ==
  ASSUME NEW p, PlanOK(p), Inserting(p), nact' = p.nact, ran' = {}, log' = {},
         UNCHANGED memory, Installed(p, 0 .. p.nact-1)'
  PROVE  InStore(p)'
<1>1. (step = p.step + 1 /\ Marked(p) /\ Narrow(p) /\ p.nins > 0)'
  BY DEF Inserting, Begun, Marked, Narrow, memory
<1>2. (\A i : ~ Done(i))'
  BY DEF Done
<1>3. /\ p.slot_expert = [s \in Slots |-> p.slot_expert[s]]
      /\ p.refreshed = [s \in Slots |-> p.refreshed[s]]
  BY DEF PlanOK, FoundOK, KeysOK
<1>4. /\ (slot_expert = [s \in Slots |-> IF Done(s) THEN s_se[s] ELSE p.slot_expert[s]])'
      /\ (slot_stamp = [s \in Slots |-> IF Done(s) THEN s_st[s] ELSE p.refreshed[s]])'
  BY <1>2, <1>3 DEF Inserting, memory
<1>5. (n_miss = IF 0 \in ran THEN nact ELSE 0)'
  BY DEF Inserting, Begun, memory
<1> QED BY <1>1, <1>4, <1>5, LoggedNothing DEF InStore

LEMMA InstallBarrier ==
  ASSUME NEW p, PlanOK(p), InInstall(p), ran = Threads, phase = "install", Barrier
  PROVE  phase' = "store" /\ InStore(p)'
<1>1. /\ phase' = "store" /\ ran' = {} /\ log' = {}
      /\ UNCHANGED <<memory, shared, nins, nact>>
  BY DEF Barrier, Enter
<1>2. {j \in 0 .. nact-1 : Done(j)} = 0 .. p.nact-1
  BY StridedOwner, PlanRounds DEF Done, InInstall
<1>3. Installed(p, {j \in 0 .. nact-1 : Done(j)}) /\ Inserting(p) /\ nact = p.nact
  BY DEF InInstall
<1>4. Installed(p, 0 .. p.nact-1)
  BY <1>2, <1>3
<1>5. Installed(p, 0 .. p.nact-1)'
  BY <1>1, <1>4, SameInstalled DEF memory, shared
<1> QED BY <1>1, <1>3, <1>5, NowStoring

LEMMA StoreBarrier ==
  ASSUME NEW p, PlanOK(p), InStore(p), ran = Threads, phase = "store", Barrier
  PROVE  phase' = "exit" /\ InExit(p)'
<1>1. /\ phase' = "exit" /\ ran' = {} /\ log' = {}
      /\ UNCHANGED <<memory, shared>>
  BY DEF Barrier, Enter
<1>2. \A s \in Slots : Done(s)
  BY AllDone, IndicesAreNumbers
<1> DEFINE D == 0 .. p.nact-1
<1>3. /\ slot_expert = ExpertAfter(p, D) /\ slot_stamp = StampAfter(p, D)
  <2>1. \A s \in Slots : s_se[s] = ExpertAfter(p, D)[s] /\ s_st[s] = StampAfter(p, D)[s]
    BY DEF InStore, Installed
  <2>2. /\ slot_expert = [s \in Slots |-> s_se[s]] /\ slot_stamp = [s \in Slots |-> s_st[s]]
    BY <1>2 DEF InStore
  <2>3. /\ ExpertAfter(p, D) = [s \in Slots |-> ExpertAfter(p, D)[s]]
        /\ StampAfter(p, D) = [s \in Slots |-> StampAfter(p, D)[s]]
    BY DEF ExpertAfter, StampAfter
  <2> HIDE DEF D
  <2> QED BY <2>1, <2>2, <2>3
<1>4. 0 \in ran
  BY KernelAssumption DEF Threads
<1> HIDE DEF D
<1>5. /\ Narrow(p) /\ p.nins > 0 /\ Moved(p, D) /\ n_miss = p.nact
      /\ step = p.step + 1 /\ Marked(p)
  BY <1>4 DEF InStore, Installed, D
<1>6. Full(p)'
  BY <1>1, <1>3, <1>5 DEF Full, Narrow, Moved, memory, D
<1> QED BY <1>1, <1>5, <1>6 DEF InExit, Marked, memory

LEMMA KeysBarrier ==
  ASSUME NEW p, PlanOK(p), InKeys(p), ran = Threads, phase = "keys", Barrier
  PROVE  \/ phase' = "argmin" /\ InArgMin(p)'
         \/ phase' = "rank" /\ InRank(p)'
<1>1. /\ phase' = (IF nins <= NSER THEN "argmin" ELSE "rank") /\ ran' = {} /\ log' = {}
      /\ r' = 0 /\ nact' = 0 /\ UNCHANGED <<memory, shared, nins>>
  BY DEF Barrier, Enter
<1>2. Inserting(p)'
  BY <1>1, SameInserting DEF InKeys, memory
<1>3. nins = p.nins /\ nins \in Nat /\ nins > 0 /\ Cardinality(p.V) \in Nat
  BY PlanRounds DEF InKeys, Inserting
<1>4. (\A s \in Slots : Keyed(p, s, 0))'
  <2>1. \A s \in Slots : Keyed(p, s, 0)
    BY AllDone, IndicesAreNumbers DEF InKeys
  <2> QED BY <1>1, <2>1 DEF Keyed, shared
<1>5. Installed(p, {}) /\ UNCHANGED <<table, map_cold, miss, s_se, s_st>>
  BY <1>1 DEF InKeys, memory, shared
<1>6. CASE nins <= NSER
  <2>1. (0 .. r-1)' = {}
    BY <1>1
  <2>2. Installed(p, 0 .. r-1)'
    <3> SUFFICES ASSUME NEW D, D = {} PROVE Installed(p, 0 .. r-1)'
      OBVIOUS
    <3>1. Installed(p, D)
      BY <1>5
    <3>2. Installed(p, D)'
      BY <1>5, <3>1, SameInstalled
    <3> QED BY <2>1, <3>2, InstalledAlike
  <2>3. (r \in 0 .. nins-1 /\ r <= Cardinality(p.V) /\ nact = r)'
    BY <1>1, <1>3
  <2>4. (\A s \in Slots : Keyed(p, s, r))'
    BY <1>1, <1>4 DEF Keyed
  <2> QED BY <1>1, <1>2, <1>6, <2>2, <2>3, <2>4, LoggedNothing DEF InArgMin
<1>7. CASE ~ (nins <= NSER)
  <2>1. Installed(p, {})'
    BY <1>5, SameInstalled
  <2>2. \A j \in 0 .. nins-1 : s_vic[j] = None
    BY <1>3, AllDone DEF InKeys
  <2>3. (\A j \in 0 .. nins-1 : s_vic[j] =
           IF j < Cardinality(p.V) /\ Done(p.victimAt[j]) THEN p.victimAt[j] ELSE None)'
    BY <1>1, <2>2 DEF Done, shared
  <2> QED BY <1>1, <1>2, <1>4, <1>7, <2>1, <2>3, LoggedNothing DEF InRank
<1> QED BY <1>6, <1>7

(* The smallest key of all slots is that of the next victim.               *)
LEMMA BestIsNext ==
  ASSUME NEW p, PlanOK(p), r \in Nat, r <= Cardinality(p.V),
         \A s \in Slots : Keyed(p, s, r),
         \A t \in Threads : part[t] = Min({s_key[s] : s \in Strided(t, S)} \cup {Parked})
  PROVE  Best = IF r < Cardinality(p.V) THEN p.key[p.victimAt[r]] ELSE Parked
<1> DEFINE K == {s_key[s] : s \in Slots} \cup {Parked}
           mine(t) == {s_key[s] : s \in Strided(t, S)} \cup {Parked}
<1>1. \A s \in Slots : s_key[s] = IF s \in p.V /\ p.victimRank[s] >= r THEN p.key[s] ELSE Parked
  BY DEF Keyed
<1>2. \A s \in Slots : p.key[s] \in Nat /\ p.key[s] < Parked /\ Parked \in Nat
  BY KernelAssumption DEF PlanOK, KeysOK
<1>3. K \in SUBSET Nat /\ K # {}
  BY <1>1, <1>2, KernelAssumption
<1>4. \A t \in Threads : mine(t) \in SUBSET K /\ mine(t) # {}
  BY KernelAssumption DEF Strided, Slots
<1>5. \A t \in Threads : part[t] \in mine(t) /\ \A y \in mine(t) : part[t] <= y
  <2> SUFFICES ASSUME NEW t \in Threads
               PROVE  part[t] \in mine(t) /\ \A y \in mine(t) : part[t] <= y
    OBVIOUS
  <2>1. mine(t) \in SUBSET Nat /\ mine(t) # {} /\ part[t] = Min(mine(t))
    BY <1>3, <1>4
  <2> HIDE DEF mine
  <2> QED BY <2>1, MinIsLeast
<1>6. \A y \in K : \E t \in Threads : y \in mine(t)
  <2> SUFFICES ASSUME NEW y \in K PROVE \E t \in Threads : y \in mine(t)
    OBVIOUS
  <2>1. CASE y = Parked
    <3>1. 0 \in Threads
      BY KernelAssumption DEF Threads
    <3> QED BY <2>1, <3>1
  <2>2. ASSUME NEW s \in Slots, y = s_key[s] PROVE \E t \in Threads : y \in mine(t)
    <3>1. s % NT \in Threads
      BY StridedOwner, IndicesAreNumbers
    <3>2. s \in Strided(s % NT, S)
      BY KernelAssumption DEF Strided, Slots
    <3> QED BY <2>2, <3>1, <3>2
  <2> QED BY <2>1, <2>2
<1>7. Best \in K /\ \A y \in K : Best <= y
  <2> DEFINE B == {part[t] : t \in Threads}
  <2>1. \A t \in Threads : part[t] \in K
    BY <1>4, <1>5
  <2>2. B \in SUBSET Nat /\ B # {} /\ B \subseteq K
    <3>1. 0 \in Threads
      BY KernelAssumption DEF Threads
    <3>2. B \subseteq K /\ B # {}
      BY <2>1, <3>1
    <3> QED BY <1>3, <3>2
  <2>3. Best = Min(B)
    BY DEF Best
  <2>4. \A t \in Threads : part[t] \in B
    OBVIOUS
  <2> HIDE DEF B, K, mine
  <2>5. Best \in B /\ \A y \in B : Best <= y
    BY <2>2, <2>3, MinIsLeast
  <2>6. ASSUME NEW y \in K PROVE Best <= y
    <3>1. PICK t \in Threads : y \in mine(t)
      BY <1>6
    <3>2. part[t] <= y /\ Best <= part[t]
      BY <1>5, <2>4, <2>5, <3>1
    <3>3. part[t] \in Nat /\ y \in Nat /\ Best \in Nat
      BY <1>3, <2>1, <2>2, <2>5
    <3> QED BY <3>2, <3>3
  <2> QED BY <2>2, <2>5, <2>6
<1>8. CASE r < Cardinality(p.V)
  <2> DEFINE s == p.victimAt[r]
  <2>1. s \in p.V /\ s \in Slots /\ p.victimRank[s] = r
    BY <1>8, PlanRounds
  <2> HIDE DEF s
  <2>2. s_key[s] = p.key[s] /\ s_key[s] \in K
    BY <1>1, <2>1
  <2>3. \A q \in Slots : p.key[s] <= s_key[q]
    <3> SUFFICES ASSUME NEW q \in Slots PROVE p.key[s] <= s_key[q]
      OBVIOUS
    <3>1. CASE q \in p.V /\ p.victimRank[q] >= r
      BY <1>1, <2>1, <3>1 DEF PlanOK, VictimsOK
    <3>2. CASE ~ (q \in p.V /\ p.victimRank[q] >= r)
      BY <1>1, <1>2, <2>1, <3>2
    <3> QED BY <3>1, <3>2
  <2>4. \A y \in K : p.key[s] <= y
    BY <1>2, <2>1, <2>3
  <2> HIDE DEF K
  <2>5. Best <= p.key[s] /\ p.key[s] <= Best /\ Best \in Nat /\ p.key[s] \in Nat
    BY <1>2, <1>3, <1>7, <2>1, <2>2, <2>4
  <2> QED BY <1>8, <2>5 DEF s
<1>9. CASE ~ (r < Cardinality(p.V))
  <2>1. \A s \in Slots : s_key[s] = Parked
    BY <1>1, <1>9, PlanRounds
  <2>2. K = {Parked}
    BY <2>1
  <2> QED BY <1>7, <1>9, <2>2
<1> QED BY <1>8, <1>9

LEMMA ArgMinBarrier ==
  ASSUME NEW p, PlanOK(p), InArgMin(p), ran = Threads, phase = "argmin", Barrier
  PROVE  \/ phase' = "install_one" /\ InInstallOne(p)'
         \/ phase' = "store" /\ InStore(p)'
<1>1. /\ phase' = (IF Best = Parked THEN "store" ELSE "install_one") /\ ran' = {} /\ log' = {}
      /\ UNCHANGED <<memory, shared, part, nins, nact, r>>
  BY DEF Barrier, Enter, AfterArgMin
<1>2. r \in 0 .. nins-1 /\ r <= Cardinality(p.V) /\ nact = r /\ nins = p.nins
      /\ r \in Nat /\ nins \in Nat /\ Cardinality(p.V) \in Nat
  BY PlanRounds DEF InArgMin, Inserting
<1>3. Best = IF r < Cardinality(p.V) THEN p.key[p.victimAt[r]] ELSE Parked
  BY <1>2, BestIsNext DEF InArgMin
<1>4. Installed(p, 0 .. r-1) /\ Inserting(p) /\ \A s \in Slots : Keyed(p, s, r)
  BY DEF InArgMin
<1>5. UNCHANGED <<table, map_cold, miss, s_se, s_st, s_key, slot_expert, slot_stamp, step,
                  routed, n_miss>>
  BY <1>1 DEF memory, shared
<1>6. CASE r < Cardinality(p.V)
  <2>1. p.victimAt[r] \in Slots
    BY <1>2, <1>6, PlanRounds
  <2>2. Best # Parked
    BY <1>3, <1>6, <2>1, KernelAssumption DEF PlanOK, KeysOK
  <2> DEFINE k == IF 0 \in ran THEN r + 1 ELSE r
  <2>3. k' = r /\ (0 .. k-1)' = 0 .. r-1
    BY <1>1
  <2>4. Inserting(p)'
    BY <1>1, <1>4, <1>5, SameInserting
  <2>5. (\A s \in Slots : Keyed(p, s, k))'
    BY <1>4, <1>5, <2>3 DEF Keyed
  <2> HIDE DEF k
  <2>6. Installed(p, 0 .. k-1)'
    <3> SUFFICES ASSUME NEW D, D = 0 .. r-1 PROVE Installed(p, 0 .. k-1)'
      OBVIOUS
    <3>1. Installed(p, D)
      BY <1>4
    <3>2. Installed(p, D)'
      BY <1>5, <3>1, SameInstalled
    <3> QED BY <2>3, <3>2, InstalledAlike
  <2>7. Best' = Best
    BY <1>1 DEF Best
  <2>8. (r \in 0 .. nins-1 /\ r < Cardinality(p.V) /\ Best = p.key[p.victimAt[r]])'
    BY <1>1, <1>2, <1>3, <1>6, <2>7
  <2>9. (\A a \in log : a[1] = 0)'
    BY <1>1
  <2> QED BY <1>1, <2>2, <2>4, <2>5, <2>6, <2>8, <2>9 DEF InInstallOne, k
<1>7. CASE ~ (r < Cardinality(p.V))
  <2>1. r = p.nact /\ nact' = p.nact
    BY <1>1, <1>2, <1>7, PlanRounds
  <2>2. Installed(p, 0 .. p.nact-1)
    BY <1>4, <2>1
  <2>3. Installed(p, 0 .. p.nact-1)'
    BY <1>5, <2>2, SameInstalled
  <2>4. InStore(p)'
    BY <1>1, <1>4, <2>1, <2>3, NowStoring
  <2> QED BY <1>1, <1>3, <1>7, <2>4
<1> QED BY <1>6, <1>7

LEMMA InstallOneBarrier ==
  ASSUME NEW p, PlanOK(p), InInstallOne(p), ran = Threads, phase = "install_one", Barrier
  PROVE  \/ phase' = "argmin" /\ InArgMin(p)'
         \/ phase' = "store" /\ InStore(p)'
<1>1. /\ phase' = (IF r + 1 < nins THEN "argmin" ELSE "store") /\ ran' = {} /\ log' = {}
      /\ r' = r + 1 /\ nact' = r + 1 /\ UNCHANGED <<memory, shared, part, nins>>
  BY DEF Barrier, Enter
<1>2. r \in 0 .. nins-1 /\ r < Cardinality(p.V) /\ nins = p.nins
      /\ r \in Nat /\ nins \in Nat /\ Cardinality(p.V) \in Nat
  BY PlanRounds DEF InInstallOne, Inserting
<1>3. 0 \in ran
  BY KernelAssumption DEF Threads
<1>4. Installed(p, 0 .. (r+1)-1) /\ Inserting(p) /\ \A s \in Slots : Keyed(p, s, r+1)
  BY <1>3 DEF InInstallOne
<1>5. UNCHANGED <<table, map_cold, miss, s_se, s_st, s_key, slot_expert, slot_stamp, step,
                  routed, n_miss>>
  BY <1>1 DEF memory, shared
<1>6. CASE r + 1 < nins
  <2>1. (0 .. r-1)' = 0 .. (r+1)-1
    BY <1>1
  <2>2. Installed(p, 0 .. r-1)'
    <3> SUFFICES ASSUME NEW D, D = 0 .. (r+1)-1 PROVE Installed(p, 0 .. r-1)'
      OBVIOUS
    <3>1. Installed(p, D)
      BY <1>4
    <3>2. Installed(p, D)'
      BY <1>5, <3>1, SameInstalled
    <3> QED BY <2>1, <3>2, InstalledAlike
  <2>3. (r \in 0 .. nins-1 /\ r <= Cardinality(p.V) /\ nact = r)'
    BY <1>1, <1>2, <1>6
  <2>4. (\A s \in Slots : Keyed(p, s, r))'
    BY <1>1, <1>4, <1>5 DEF Keyed
  <2>5. Inserting(p)'
    BY <1>1, <1>4, <1>5, SameInserting
  <2> QED BY <1>1, <1>6, <2>2, <2>3, <2>4, <2>5, LoggedNothing DEF InArgMin
<1>7. CASE ~ (r + 1 < nins)
  <2>1. r + 1 = p.nact /\ nact' = p.nact
    BY <1>1, <1>2, <1>7, PlanRounds
  <2>2. Installed(p, 0 .. p.nact-1)
    BY <1>4, <2>1
  <2>3. Installed(p, 0 .. p.nact-1)'
    BY <1>5, <2>2, SameInstalled
  <2>4. InStore(p)'
    BY <1>1, <1>4, <2>1, <2>3, NowStoring
  <2> QED BY <1>1, <1>7, <2>4
<1> QED BY <1>6, <1>7

LEMMA RankBarrier ==
  ASSUME NEW p, PlanOK(p), InRank(p), ran = Threads, phase = "rank", Barrier
  PROVE  \/ phase' = "install" /\ InInstall(p)'
         \/ phase' = "store" /\ InStore(p)'
<1>1. /\ phase' = (IF FirstHole = 0 THEN "store" ELSE "install") /\ ran' = {} /\ log' = {}
      /\ nact' = FirstHole /\ UNCHANGED <<memory, shared, part, nins>>
  BY DEF Barrier, Enter
<1>2. nins = p.nins /\ nins \in Nat /\ Cardinality(p.V) \in Nat /\ p.nact \in Nat
      /\ p.nact <= nins /\ p.nact <= Cardinality(p.V)
      /\ (p.nact = nins \/ p.nact = Cardinality(p.V))
  BY PlanRounds DEF InRank, Inserting
<1>3. \A j \in 0 .. nins-1 :
        s_vic[j] = IF j < Cardinality(p.V) THEN p.victimAt[j] ELSE None
  <2> SUFFICES ASSUME NEW j \in 0 .. nins-1, j < Cardinality(p.V)
               PROVE  Done(p.victimAt[j])
    BY DEF InRank
  <2>1. p.victimAt[j] \in Slots
    BY <1>2, PlanRounds
  <2> QED BY <2>1, AllDone, IndicesAreNumbers
<1>4. \A j \in 0 .. p.nact-1 : p.victimAt[j] # None /\ s_vic[j] = p.victimAt[j]
  <2> SUFFICES ASSUME NEW j \in 0 .. p.nact-1
               PROVE  p.victimAt[j] # None /\ s_vic[j] = p.victimAt[j]
    OBVIOUS
  <2>1. p.victimAt[j] \in Nat
    BY PlanRounds, IndicesAreNumbers
  <2>2. j \in 0 .. nins-1 /\ j < Cardinality(p.V)
    BY <1>2
  <2> QED BY <1>3, <2>1, <2>2 DEF None
<1>5. FirstHole = p.nact
  <2> DEFINE H == {j \in 0 .. nins-1 : s_vic[j] = None} \cup {nins}
  <2>1. H \in SUBSET Nat /\ H # {}
    BY <1>2
  <2>2. p.nact \in H
    BY <1>2, <1>3
  <2>3. \A j \in H : p.nact <= j
    <3> SUFFICES ASSUME NEW j \in H, ~ (p.nact <= j) PROVE FALSE
      OBVIOUS
    <3>1. j \in 0 .. p.nact-1 /\ s_vic[j] = None
      BY <1>2, <2>1
    <3> QED BY <1>4, <3>1
  <2>4. FirstHole = Min(H)
    BY DEF FirstHole
  <2> HIDE DEF H
  <2>5. FirstHole \in H /\ FirstHole <= p.nact /\ p.nact <= FirstHole
    BY <2>1, <2>2, <2>3, <2>4, MinIsLeast
  <2> QED BY <1>2, <2>1, <2>5
<1>6. UNCHANGED <<table, map_cold, miss, s_se, s_st, s_vic, slot_expert, slot_stamp, step,
                  routed, n_miss>>
  BY <1>1 DEF memory, shared
<1>7. Inserting(p) /\ Installed(p, {})
  BY DEF InRank
<1>8. CASE FirstHole = 0
  <2>1. 0 .. p.nact-1 = {}
    BY <1>5, <1>8
  <2>2. Installed(p, 0 .. p.nact-1)
    BY <1>7, <2>1
  <2>3. Installed(p, 0 .. p.nact-1)'
    BY <1>6, <2>2, SameInstalled
  <2> QED BY <1>1, <1>5, <1>7, <1>8, <2>3, NowStoring
<1>9. CASE FirstHole # 0
  <2>1. {j \in 0 .. nact-1 : Done(j)}' = {}
    BY <1>1 DEF Done
  <2>2. Installed(p, {j \in 0 .. nact-1 : Done(j)})'
    <3> SUFFICES ASSUME NEW D, D = {} PROVE Installed(p, {j \in 0 .. nact-1 : Done(j)})'
      OBVIOUS
    <3>1. Installed(p, D)
      BY <1>7
    <3>2. Installed(p, D)'
      BY <1>6, <3>1, SameInstalled
    <3> QED BY <2>1, <3>2, InstalledAlike
  <2>3. (nact = p.nact /\ \A j \in 0 .. nact-1 : s_vic[j] = p.victimAt[j])'
    BY <1>1, <1>4, <1>5, <1>6
  <2>4. Inserting(p)'
    BY <1>1, <1>6, <1>7, SameInserting
  <2> QED BY <1>1, <1>9, <2>2, <2>3, <2>4, LoggedNothing DEF InInstall
<1> QED BY <1>8, <1>9

----------------------------------------------------------------------------
(* Between two launches.                                                   *)

(* While a launch runs its plan stands.                                    *)
LEMMA PlanKept ==
  ASSUME UNCHANGED <<settled, ids>>
  PROVE  Plan' = Plan
<1>1. Picked' = Picked
  BY DEF Picked
<1> SUFFICES ASSUME NEW R, R = Picked PROVE Plan' = Plan
  OBVIOUS
<1>2. CP!Misses(R)' = CP!Misses(R) /\ CP!Evictable(R)' = CP!Evictable(R)
  BY DEF CP!Misses, CP!Evictable
<1>3. CP!Refreshed(R)' = CP!Refreshed(R)
  BY DEF CP!Refreshed, CP!HitSlots, CP!Hits
<1>4. CP!IdKey(R)' = CP!IdKey(R) /\ CP!Key(R)' = CP!Key(R)
  BY <1>2, <1>3 DEF CP!IdKey, CP!Key
<1>5. /\ \A j : CP!MissAt(R, j)' = CP!MissAt(R, j) /\ CP!VictimAt(R, j)' = CP!VictimAt(R, j)
      /\ \A x : CP!MissRank(R, x)' = CP!MissRank(R, x) /\ CP!VictimRank(R, x)' = CP!VictimRank(R, x)
  BY <1>2, <1>4 DEF CP!MissAt, CP!VictimAt, CP!MissRank, CP!VictimRank
<1>6. CP!Nins(R)' = CP!Nins(R) /\ CP!Nact(R)' = CP!Nact(R)
  BY <1>2 DEF CP!Nins, CP!Nact
<1>7. Picked' = R
  BY <1>1
<1> QED BY <1>2, <1>3, <1>5, <1>6, <1>7 DEF Plan

(* A launch has only begun.                                                *)
LEMMA LaunchStep ==
  ASSUME IInv, LaunchKernel
  PROVE  phase' = "clear" /\ Launched' /\ InClear(Plan)'
<1>1. /\ settled = Memory /\ phase' = "clear" /\ ran' = {} /\ log' = {}
      /\ ids' \in RoutedIds /\ step < MaxStep /\ UNCHANGED <<memory, settled>>
  BY DEF IInv, LaunchKernel, Enter, Launched, AtPhase
<1>2. Launched'
  BY <1>1 DEF Launched, Memory
<1>3. /\ settled.table = table /\ settled.map_cold = map_cold
      /\ settled.slot_expert = slot_expert /\ settled.slot_stamp = slot_stamp
      /\ settled.step = step /\ settled.miss = miss
  BY <1>1 DEF Memory
<1>4. (/\ Plan.table = table /\ Plan.map_cold = map_cold
       /\ Plan.slot_expert = slot_expert /\ Plan.slot_stamp = slot_stamp
       /\ Plan.step = step /\ Plan.miss = miss)'
  BY <1>1, <1>3 DEF Plan, memory
<1>5. (\A i : ~ Done(i))'
  BY <1>1 DEF Done
<1> QED BY <1>1, <1>2, <1>4, <1>5 DEF InClear, Unmoved, Logged

(* The rounds of the plan in the terms of ExpertCache.                     *)
LEMMA PlanInserts ==
  ASSUME CP!CacheInv, settled.step < MaxStep, NEW p, p = Plan
  PROVE  /\ CP!Inserted(Picked) = ComeIn(p, 0 .. p.nact-1)
         /\ CP!Victims(Picked) = Refilled(p, 0 .. p.nact-1)
         /\ CP!Displaced(Picked) = GoOut(p, 0 .. p.nact-1)
         /\ \A e \in ComeIn(p, 0 .. p.nact-1) : CP!SlotFor(Picked, e) = p.victimAt[p.missRank[e]]
         /\ \A s \in Refilled(p, 0 .. p.nact-1) : CP!ExpertFor(Picked, s) = p.missAt[p.victimRank[s]]
         /\ \A j \in Entries : j < p.nins => CP!MissAt(Picked, j) = p.missAt[j]
         /\ \A j \in Entries : j < p.nact => CP!VictimAt(Picked, j) = p.victimAt[j]
<1>1. PlanOK(p)
  BY PlanFacts
<1>2. /\ p.M = CP!Misses(Picked) /\ p.V = CP!Evictable(Picked)
      /\ p.nins = CP!Nins(Picked) /\ p.nact = CP!Nact(Picked)
      /\ p.slot_expert = settled.slot_expert
      /\ \A j \in 0 .. Cardinality(p.M)-1 : p.missAt[j] = CP!MissAt(Picked, j)
      /\ \A j \in 0 .. Cardinality(p.V)-1 : p.victimAt[j] = CP!VictimAt(Picked, j)
      /\ \A e \in p.M : p.missRank[e] = CP!MissRank(Picked, e)
      /\ \A s \in p.V : p.victimRank[s] = CP!VictimRank(Picked, s)
  BY DEF Plan
<1>3. /\ p.nins \in Nat /\ p.nact \in Nat /\ Cardinality(p.M) \in Nat /\ Cardinality(p.V) \in Nat
      /\ p.nins <= Cardinality(p.M) /\ p.nact <= p.nins /\ p.nact <= Cardinality(p.V)
  BY <1>1, PlanRounds
<1>4. \A j \in 0 .. p.nins-1 : p.missAt[j] = CP!MissAt(Picked, j)
  BY <1>2, <1>3
<1>5. \A j \in 0 .. p.nact-1 : /\ p.missAt[j] = CP!MissAt(Picked, j)
                               /\ p.victimAt[j] = CP!VictimAt(Picked, j)
                               /\ p.missAt[j] \in p.M /\ p.missRank[p.missAt[j]] = j
                               /\ p.victimAt[j] \in p.V /\ p.victimRank[p.victimAt[j]] = j
  BY <1>1, <1>2, <1>3, PlanRounds
<1>6. CP!Inserted(Picked) = ComeIn(p, 0 .. p.nact-1) /\ CP!Victims(Picked) = Refilled(p, 0 .. p.nact-1)
  BY <1>2, <1>5 DEF CP!Inserted, CP!Victims, ComeIn, Refilled
<1>7. CP!Displaced(Picked) = GoOut(p, 0 .. p.nact-1)
  BY <1>2, <1>6 DEF CP!Displaced, GoOut
<1>8. \A e \in ComeIn(p, 0 .. p.nact-1) : CP!SlotFor(Picked, e) = p.victimAt[p.missRank[e]]
  <2> SUFFICES ASSUME NEW j \in 0 .. p.nact-1
               PROVE  CP!SlotFor(Picked, p.missAt[j]) = p.victimAt[p.missRank[p.missAt[j]]]
    BY DEF ComeIn
  <2>1. CP!MissRank(Picked, p.missAt[j]) = j
    BY <1>2, <1>5
  <2> QED BY <1>5, <2>1 DEF CP!SlotFor
<1>9. \A s \in Refilled(p, 0 .. p.nact-1) : CP!ExpertFor(Picked, s) = p.missAt[p.victimRank[s]]
  <2> SUFFICES ASSUME NEW j \in 0 .. p.nact-1
               PROVE  CP!ExpertFor(Picked, p.victimAt[j]) = p.missAt[p.victimRank[p.victimAt[j]]]
    BY DEF Refilled
  <2>1. CP!VictimRank(Picked, p.victimAt[j]) = j
    BY <1>2, <1>5
  <2> QED BY <1>5, <2>1 DEF CP!ExpertFor
<1>10. \A j \in Entries : (j < p.nins => j \in 0 .. p.nins-1) /\ (j < p.nact => j \in 0 .. p.nact-1)
  BY <1>3, KernelAssumption DEF Entries
<1> QED BY <1>4, <1>5, <1>6, <1>7, <1>8, <1>9, <1>10

(* A launch that retires has been one launch of ExpertCache.               *)
LEMMA RetireStep ==
  ASSUME CP!CacheInv, Launched, InExit(Plan), Retire
  PROVE  CP!Launch(Picked) /\ Picked \in CP!RoutedSets /\ settled' = Memory'
<1> SUFFICES ASSUME NEW p, p = Plan
             PROVE  CP!Launch(Picked) /\ Picked \in CP!RoutedSets /\ settled' = Memory'
  OBVIOUS
<1> DEFINE R == Picked
<1>0. InExit(p) /\ PlanOK(p)
  BY PlanFacts DEF Launched
<1>1. settled' = Memory /\ settled' = Memory'
  BY DEF Retire, memory, Memory
<1>2. /\ settled'.table = table /\ settled'.map_cold = map_cold
      /\ settled'.slot_expert = slot_expert /\ settled'.slot_stamp = slot_stamp
      /\ settled'.step = step /\ settled'.miss = miss /\ settled'.n_miss = n_miss
      /\ settled'.routed = {e \in Experts : routed[e] = 1}
  BY <1>1 DEF Memory
<1>3. /\ p.R = R /\ p.table = settled.table /\ p.map_cold = settled.map_cold
      /\ p.slot_expert = settled.slot_expert /\ p.slot_stamp = settled.slot_stamp
      /\ p.step = settled.step /\ p.miss = settled.miss /\ p.nins = CP!Nins(R)
      /\ p.nact = CP!Nact(R) /\ p.refreshed = CP!Refreshed(R)
  BY DEF Plan
<1>4. R \in CP!RoutedSets /\ R \in SUBSET Experts
  BY LaunchIds, SameConstants DEF Launched, CP!RoutedSets, Picked
<1>5. {e \in Experts : routed[e] = 1} = R
  BY <1>0, <1>3, <1>4 DEF InExit, Marked
<1>6. CP!Begin(R)
  BY <1>0, <1>2, <1>3, <1>5 DEF CP!Begin, InExit
<1>7. CP!Cardinality(R) = Cardinality(R) /\ Cardinality(R) = Cardinality(p.R)
  BY <1>3, SameCounts
<1>8. CASE Wide(p)
  <2>1. CP!Cardinality(R) > MaxDistinct
    <3>1. Cardinality(R) \in Nat
      <4>1. IsFiniteSet(Experts)
        BY FS_Interval, KernelAssumption DEF Experts
      <4> QED BY <1>4, <4>1, FS_Subset, FS_CardinalityType
    <3> QED BY <1>7, <1>8, <3>1, KernelAssumption DEF Wide, Narrow
  <2>2. CP!ReadThrough(R)
    BY <1>2, <1>3, <1>6, <1>8, <2>1 DEF CP!ReadThrough, Wide, Unmoved
  <2> QED BY <1>1, <1>4, <2>2 DEF CP!Launch
<1>9. CASE Quiet(p)
  <2>1. CP!Refresh(R)
    BY <1>2, <1>3, <1>6, <1>7, <1>9 DEF CP!Refresh, Quiet, Narrow, Unmoved
  <2> QED BY <1>1, <1>4, <2>1 DEF CP!Launch
<1>10. CASE Full(p)
  <2> DEFINE D == 0 .. p.nact-1
  <2>1. /\ CP!Inserted(R) = ComeIn(p, D) /\ CP!Victims(R) = Refilled(p, D)
        /\ CP!Displaced(R) = GoOut(p, D)
        /\ \A e \in ComeIn(p, D) : CP!SlotFor(R, e) = p.victimAt[p.missRank[e]]
        /\ \A s \in Refilled(p, D) : CP!ExpertFor(R, s) = p.missAt[p.victimRank[s]]
        /\ \A j \in Entries : j < p.nins => CP!MissAt(R, j) = p.missAt[j]
        /\ \A j \in Entries : j < p.nact => CP!VictimAt(R, j) = p.victimAt[j]
    BY PlanInserts DEF Launched
  <2>2. \A j \in Entries : j \in D <=> j < p.nact
    BY <1>0, PlanRounds, KernelAssumption DEF Entries
  <2> HIDE DEF D, R
  <2>3. /\ Moved(p, D) /\ slot_expert = ExpertAfter(p, D) /\ slot_stamp = StampAfter(p, D)
        /\ n_miss = p.nact /\ Narrow(p) /\ p.nins > 0
    BY <1>10 DEF Full, D
  <2>4. table = [e \in Experts |-> IF e \in CP!Inserted(R) THEN CP!SlotFor(R, e)
                                   ELSE IF e \in CP!Displaced(R) THEN None ELSE p.table[e]]
    BY <2>1, <2>3 DEF Moved
  <2>5. map_cold = [e \in Experts |-> IF e \in CP!Inserted(R) THEN None
                                      ELSE IF e \in CP!Displaced(R) THEN e ELSE p.map_cold[e]]
    BY <2>1, <2>3 DEF Moved
  <2>6. slot_expert = [s \in Slots |-> IF s \in CP!Victims(R) THEN CP!ExpertFor(R, s)
                                       ELSE p.slot_expert[s]]
    BY <2>1, <2>3 DEF ExpertAfter
  <2>7. slot_stamp = [s \in Slots |-> IF s \in CP!Victims(R) THEN p.step + 1
                                      ELSE p.refreshed[s]]
    BY <2>1, <2>3 DEF StampAfter
  <2>8. miss = [j \in Entries |->
                  <<IF j < p.nins THEN CP!MissAt(R, j) ELSE p.miss[j][1],
                    IF j < p.nact THEN CP!VictimAt(R, j) ELSE p.miss[j][2]>>]
    BY <2>1, <2>2, <2>3 DEF Moved
  <2>9. miss = CP!MissAfter(R)
    BY <1>3, <2>8, SameConstants DEF CP!MissAfter
  <2>10. CP!Insert(R)
    BY <1>2, <1>3, <1>6, <1>7, <2>3, <2>4, <2>5, <2>6, <2>7, <2>9, SameConstants
       DEF CP!Insert, Narrow
  <2> QED BY <1>1, <1>4, <2>10 DEF CP!Launch, R
<1> QED BY <1>0, <1>8, <1>9, <1>10 DEF InExit

----------------------------------------------------------------------------
(* The invariant is inductive.                                             *)

LEMMA InitInv == Init => IInv
<1> SUFFICES ASSUME Init PROVE IInv
  OBVIOUS
<1>1. /\ settled = Memory /\ phase = "idle" /\ ran = {} /\ log = {}
      /\ routed = [e \in Experts |-> 0]
      /\ part = [t \in Threads |-> 0] /\ s_key = [s \in Slots |-> Parked]
      /\ WarmStart!Init
  BY DEF Init
<1>2. /\ settled.table = table /\ settled.map_cold = map_cold
      /\ settled.slot_expert = slot_expert /\ settled.slot_stamp = slot_stamp
      /\ settled.step = step /\ settled.miss = miss /\ settled.n_miss = n_miss
      /\ settled.routed = {}
  BY <1>1 DEF Memory
<1>3. CP!Init
  BY <1>1, <1>2 DEF WarmStart!Init, WarmStart!Increasing, WarmStart!Experts, WarmStart!Slots,
     WarmStart!Entries, WarmStart!None, CP!Init, CP!Increasing, CP!Experts, CP!Slots,
     CP!Entries, CP!None
<1>4. CP!CacheInv
  BY <1>3, SameConstants, CP!InitCacheInv
<1> QED BY <1>1, <1>4 DEF IInv, Shapes

LEMMA CacheStays ==
  ASSUME CP!CacheInv, UNCHANGED settled
  PROVE  CP!CacheInv'
BY SameConstants, CP!NextInv DEF CP!vars

LEMMA RunStep ==
  ASSUME NEW p, PlanOK(p), AtPhase(p), Shapes, NEW t \in Threads, Run(t)
  PROVE  AtPhase(p)' /\ Shapes' /\ UNCHANGED <<settled, ids>>
<1>1. CASE Clear(t)
  <2>1. phase = "clear" /\ InClear(p) /\ phase' = "clear"
    BY <1>1 DEF AtPhase, Clear, In, Keep
  <2> QED BY <1>1, <2>1, ClearStep DEF AtPhase, Clear, Touch, Keep, Shapes, shared, uniform
<1>2. CASE Mark(t)
  <2>1. phase = "mark" /\ InMark(p) /\ phase' = "mark"
    BY <1>2 DEF AtPhase, Mark, In, Keep
  <2> QED BY <1>2, <2>1, MarkStep DEF AtPhase, Mark, Keep, Shapes, shared, uniform
<1>3. CASE Count(t)
  <2>1. phase = "count" /\ InCount(p) /\ phase' = "count"
    BY <1>3 DEF AtPhase, Count, In, Keep
  <2> QED BY <1>3, <2>1, CountStep DEF AtPhase, Count, Touch, Keep, Shapes, shared
<1>4. CASE HitPhase(t)
  <2>1. phase = "hits" /\ InHits(p) /\ phase' = "hits"
    BY <1>4 DEF AtPhase, HitPhase, In, Keep
  <2> QED BY <1>4, <2>1, HitsStep DEF AtPhase, HitPhase, Touch, Keep, Shapes, shared
<1>5. CASE List(t)
  <2>1. phase = "list" /\ InList(p) /\ phase' = "list"
    BY <1>5 DEF AtPhase, List, In, Keep
  <2> QED BY <1>5, <2>1, ListStep DEF AtPhase, List, Touch, Keep, Shapes, uniform
<1>6. CASE Keys(t)
  <2>1. phase = "keys" /\ InKeys(p) /\ phase' = "keys"
    BY <1>6 DEF AtPhase, Keys, In, Keep
  <2> QED BY <1>6, <2>1, KeysStep DEF AtPhase, Keys, Touch, Keep, Shapes, uniform
<1>7. CASE ArgMin(t)
  <2>1. phase = "argmin" /\ InArgMin(p) /\ phase' = "argmin"
    BY <1>7 DEF AtPhase, ArgMin, In, Keep
  <2> QED BY <1>7, <2>1, ArgMinStep DEF AtPhase, ArgMin, Touch, Keep, Shapes, shared
<1>8. CASE InstallOne(t)
  <2>1. phase = "install_one" /\ InInstallOne(p) /\ phase' = "install_one"
    BY <1>8 DEF AtPhase, InstallOne, In, Keep
  <2> QED BY <1>8, <2>1, InstallOneStep
          DEF AtPhase, InstallOne, Install, Touch, Keep, Shapes, uniform
<1>9. CASE RankPhase(t)
  <2>1. phase = "rank" /\ InRank(p) /\ phase' = "rank"
    BY <1>9 DEF AtPhase, RankPhase, In, Keep
  <2> QED BY <1>9, <2>1, RankStep DEF AtPhase, RankPhase, Touch, Keep, Shapes, uniform
<1>10. CASE InstallBatch(t)
  <2>1. phase = "install" /\ InInstall(p) /\ phase' = "install"
    BY <1>10 DEF AtPhase, InstallBatch, In, Keep
  <2> QED BY <1>10, <2>1, InstallBatchStep
          DEF AtPhase, InstallBatch, Install, Touch, Keep, Shapes, uniform
<1>11. CASE Store(t)
  <2>1. phase = "store" /\ InStore(p) /\ phase' = "store"
    BY <1>11 DEF AtPhase, Store, In, Keep
  <2> QED BY <1>11, <2>1, StoreStep DEF AtPhase, Store, Touch, Keep, Shapes, shared, uniform
<1> QED BY <1>1, <1>2, <1>3, <1>4, <1>5, <1>6, <1>7, <1>8, <1>9, <1>10, <1>11 DEF Run

LEMMA BarrierStep ==
  ASSUME NEW p, PlanOK(p), p.R = Picked, ids \in RoutedIds, AtPhase(p), Shapes, Barrier
  PROVE  AtPhase(p)' /\ Shapes' /\ UNCHANGED <<settled, ids>>
<1>1. /\ ran = Threads /\ UNCHANGED <<settled, ids>> /\ ran' = {}
      /\ part' = part /\ s_key' = s_key
      /\ phase \in {"clear", "mark", "count", "hits", "list", "keys", "argmin", "install_one",
                    "rank", "install", "store"}
  BY DEF Barrier, Enter, shared
<1>2. Shapes'
  BY <1>1 DEF Shapes
<1>3. CASE phase = "clear"
  BY <1>1, <1>2, <1>3, ClearBarrier DEF AtPhase
<1>4. CASE phase = "mark"
  BY <1>1, <1>2, <1>4, MarkBarrier DEF AtPhase
<1>5. CASE phase = "count"
  BY <1>1, <1>2, <1>5, CountBarrier DEF AtPhase
<1>6. CASE phase = "hits"
  BY <1>1, <1>2, <1>6, HitsBarrier DEF AtPhase
<1>7. CASE phase = "list"
  BY <1>1, <1>2, <1>7, ListBarrier DEF AtPhase
<1>8. CASE phase = "keys"
  BY <1>1, <1>2, <1>8, KeysBarrier DEF AtPhase
<1>9. CASE phase = "argmin"
  BY <1>1, <1>2, <1>9, ArgMinBarrier DEF AtPhase
<1>10. CASE phase = "install_one"
  BY <1>1, <1>2, <1>10, InstallOneBarrier DEF AtPhase
<1>11. CASE phase = "rank"
  BY <1>1, <1>2, <1>11, RankBarrier DEF AtPhase
<1>12. CASE phase = "install"
  BY <1>1, <1>2, <1>12, InstallBarrier DEF AtPhase
<1>13. CASE phase = "store"
  BY <1>1, <1>2, <1>13, StoreBarrier DEF AtPhase
<1> QED BY <1>1, <1>2, <1>3, <1>4, <1>5, <1>6, <1>7, <1>8, <1>9, <1>10, <1>11, <1>12, <1>13

LEMMA AtPhaseStays ==
  ASSUME NEW p, AtPhase(p), UNCHANGED vars
  PROVE  AtPhase(p)'
<1> USE DEF vars, memory, shared, uniform, Logged, Inserting, Begun, Marked, Narrow, Unmoved
<1>0. \A D : Installed(p, D) => Installed(p, D)'
  BY DEF Installed, Moved
<1>1. InClear(p) => InClear(p)'
  BY DEF InClear, Done
<1>2. InMark(p) => InMark(p)'
  BY DEF InMark, Done
<1>3. InCount(p) => InCount(p)'
  BY DEF InCount
<1>4. InHits(p) => InHits(p)'
  BY DEF InHits, Seen
<1>5. InList(p) => InList(p)'
  BY DEF InList, Seen, Done
<1>6. InKeys(p) => InKeys(p)'
  BY <1>0 DEF InKeys, Keyed, Done
<1>7. InArgMin(p) => InArgMin(p)'
  <2> SUFFICES ASSUME InArgMin(p), NEW D, D = 0 .. r-1 PROVE InArgMin(p)'
    OBVIOUS
  <2>1. Installed(p, D)' /\ (0 .. r-1)' = D
    BY <1>0 DEF InArgMin
  <2>2. Installed(p, 0 .. r-1)'
    BY <2>1, InstalledAlike
  <2>3. (\A t \in ran : part[t] = Min({s_key[s] : s \in Strided(t, S)} \cup {Parked}))'
    BY DEF InArgMin
  <2>4. (\A s \in Slots : Keyed(p, s, r))'
    BY DEF InArgMin, Keyed
  <2> QED BY <2>2, <2>3, <2>4 DEF InArgMin
<1>8. InInstallOne(p) => InInstallOne(p)'
  BY DEF InInstallOne, Keyed, Best, Installed, Moved
<1>9. InRank(p) => InRank(p)'
  BY <1>0 DEF InRank, Keyed, Done
<1>10. InInstall(p) => InInstall(p)'
  BY DEF InInstall, Done, Installed, Moved
<1>11. InStore(p) => InStore(p)'
  BY <1>0 DEF InStore, Done
<1>12. InExit(p) => InExit(p)'
  BY DEF InExit, Wide, Quiet, Full, Moved
<1> QED BY <1>1, <1>2, <1>3, <1>4, <1>5, <1>6, <1>7, <1>8, <1>9, <1>10, <1>11, <1>12 DEF AtPhase

LEMMA NextInv == IInv /\ [Next]_vars => IInv'
<1> SUFFICES ASSUME IInv, [Next]_vars PROVE IInv'
  OBVIOUS
<1>1. CASE LaunchKernel
  <2>1. phase' = "clear" /\ Launched' /\ InClear(Plan)'
    BY <1>1, LaunchStep
  <2>2. CP!CacheInv'
    BY <1>1, CacheStays DEF IInv, LaunchKernel
  <2>3. Shapes'
    BY <1>1 DEF IInv, Shapes, LaunchKernel, Enter, shared, uniform
  <2> QED BY <2>1, <2>2, <2>3 DEF IInv, AtPhase
<1>2. ASSUME phase # "idle", UNCHANGED <<settled, ids>>,
             \A p \in {Plan} : PlanOK(p) /\ p.R = Picked => AtPhase(p)' /\ Shapes'
      PROVE  IInv'
  <2>1. CP!CacheInv' /\ Launched'
    BY <1>2, CacheStays DEF IInv, Launched
  <2>2. PlanOK(Plan) /\ Plan.R = Picked
    BY <1>2, PlanFacts DEF IInv, Launched, Plan
  <2>3. \A p \in {Plan} : AtPhase(p)' /\ Shapes'
    BY <1>2, <2>2
  <2>4. Plan' = Plan
    BY <1>2, PlanKept
  <2> QED BY <2>1, <2>3, <2>4 DEF IInv
<1>3. ASSUME NEW t \in Threads, Run(t) PROVE IInv'
  <2>1. phase # "idle"
    BY <1>3 DEF Run, Clear, Mark, Count, HitPhase, List, Keys, ArgMin, InstallOne, RankPhase,
       InstallBatch, Store, In
  <2>2. \A p \in {Plan} : AtPhase(p) /\ Shapes
    BY <2>1 DEF IInv
  <2>3. UNCHANGED <<settled, ids>>
    BY <1>3 DEF Run, Clear, Mark, Count, HitPhase, List, Keys, ArgMin, InstallOne, RankPhase,
       InstallBatch, Store, Keep
  <2>4. ASSUME NEW p \in {Plan}, PlanOK(p) PROVE AtPhase(p)' /\ Shapes'
    BY <1>3, <2>2, <2>4, RunStep
  <2> QED BY <1>2, <2>1, <2>3, <2>4
<1>4. CASE Barrier
  <2>1. phase # "idle"
    BY <1>4 DEF Barrier
  <2>2. ids \in RoutedIds /\ \A p \in {Plan} : AtPhase(p) /\ Shapes
    BY <2>1 DEF IInv, Launched
  <2>3. UNCHANGED <<settled, ids>>
    BY <1>4 DEF Barrier
  <2>4. ASSUME NEW p \in {Plan}, PlanOK(p), p.R = Picked PROVE AtPhase(p)' /\ Shapes'
    BY <1>4, <2>2, <2>4, BarrierStep
  <2> QED BY <1>2, <2>1, <2>3, <2>4
<1>5. CASE Retire
  <2>1. CP!CacheInv /\ Launched /\ InExit(Plan)
    BY <1>5 DEF Retire, IInv, AtPhase
  <2>2. CP!Launch(Picked) /\ Picked \in CP!RoutedSets /\ settled' = Memory'
    BY <1>5, <2>1, RetireStep
  <2>3. CP!CacheInv'
    BY <2>1, <2>2, SameConstants, CP!NextInv DEF CP!Next
  <2>4. phase' = "idle" /\ ran' = {} /\ log' = {}
    BY <1>5 DEF Retire, Enter
  <2>5. Shapes'
    BY <1>5, <2>4 DEF Retire, Shapes
  <2> QED BY <2>2, <2>3, <2>4, <2>5 DEF IInv
<1>6. CASE UNCHANGED vars
  <2>1. CP!CacheInv' /\ Shapes'
    BY <1>6, CacheStays DEF IInv, Shapes, vars, shared, uniform
  <2>2. CASE phase = "idle"
    <3>1. settled = Memory /\ ran = {} /\ log = {}
      BY <2>2 DEF IInv, AtPhase
    <3> QED BY <1>6, <2>1, <2>2, <3>1 DEF IInv, Memory, vars, memory
  <2>3. CASE phase # "idle"
    <3>1. \A p \in {Plan} : AtPhase(p)' /\ Shapes'
      BY <1>6, <2>1, <2>3, AtPhaseStays DEF IInv
    <3> QED BY <1>2, <1>6, <2>3, <3>1 DEF vars
  <2> QED BY <2>2, <2>3
<1> QED BY <1>1, <1>3, <1>4, <1>5, <1>6 DEF Next

(* Every interval of every launch finds the cache, its lists and its keys  *)
(* where the plan of the launch has them, for any table, any workgroup and *)
(* any order of the threads.                                               *)
THEOREM KernelInvariant == Spec => []IInv
<1>1. Init => IInv
  BY InitInv
<1>2. IInv /\ [Next]_vars => IInv'
  BY NextInv
<1> QED BY <1>1, <1>2, PTL DEF Spec

----------------------------------------------------------------------------
(* No races.                                                               *)

(* Threads that write apart from each other do not race.                   *)
LEMMA SeparateRaceFree ==
  ASSUME NEW rd, NEW wr, Logged(rd, wr), Separate(rd, wr)
  PROVE  RaceFree
<1> SUFFICES ASSUME NEW a \in log, NEW b \in log, a[1] # b[1], a[3] = b[3]
             PROVE  a[2] = b[2] /\ a[2] \in {"r", "m"}
  BY DEF RaceFree
<1>1. a[1] \in Threads /\ b[1] \in Threads
  BY DEF Logged
<1>2. /\ wr[a[1]] \cap (rd[b[1]] \cup wr[b[1]]) = {}
      /\ wr[b[1]] \cap (rd[a[1]] \cup wr[a[1]]) = {}
  BY <1>1 DEF Separate
<1>3. /\ (a[2] = "r" /\ a[3] \in rd[a[1]]) \/ (a[2] = "w" /\ a[3] \in wr[a[1]])
      /\ (b[2] = "r" /\ b[3] \in rd[b[1]]) \/ (b[2] = "w" /\ b[3] \in wr[b[1]])
  BY DEF Logged
<1>4. a[3] \notin wr[a[1]] /\ b[3] \notin wr[b[1]]
  BY <1>2, <1>3
<1> QED BY <1>3, <1>4

(* Locations of two arrays, or of disjoint parts of one, are apart.        *)
LEMMA LocationsApart ==
  ASSUME NEW m, NEW n, NEW X, NEW Y, m # n \/ X \cap Y = {}
  PROVE  At(m, X) \cap At(n, Y) = {}
BY DEF At

LEMMA StridesApart ==
  ASSUME NEW t \in Threads, NEW u \in Threads, t # u, NEW n
  PROVE  Strided(t, n) \cap Strided(u, n) = {}
BY DEF Strided

LEMMA ClearSeparate == Separate(Nothing, ClearWr)
<1> SUFFICES ASSUME NEW t \in Threads, NEW u \in Threads, t # u
             PROVE  ClearWr[t] \cap ClearWr[u] = {}
  BY DEF Separate, Nothing
<1>1. At("routed", Strided(t, E)) \cap At("routed", Strided(u, E)) = {}
  BY StridesApart, LocationsApart
<1>2. \A v \in Threads : At("routed", Strided(v, E)) \cap {<<"step", 0>>, <<"n_miss", 0>>} = {}
  BY DEF At
<1> QED BY <1>1, <1>2 DEF ClearWr, OfThreadZero

LEMMA HitsSeparate ==
  ASSUME NEW p, PlanOK(p)
  PROVE  Separate(HitsRd, HitsWr(p))
<1> SUFFICES ASSUME NEW t \in Threads, NEW u \in Threads, t # u
             PROVE  HitsWr(p)[t] \cap (HitsRd[u] \cup HitsWr(p)[u]) = {}
  BY DEF Separate
<1> DEFINE hit(v) == {p.table[e] : e \in (Chunk(v) \cap p.R) \ p.M}
<1>1. hit(t) \cap hit(u) = {}
  <2>1. SUFFICES ASSUME NEW e \in (Chunk(t) \cap p.R) \ p.M, NEW f \in (Chunk(u) \cap p.R) \ p.M,
                        p.table[e] = p.table[f]
                 PROVE  FALSE
    OBVIOUS
  <2>2. e \in Experts /\ f \in Experts /\ p.table[e] # None /\ p.table[f] # None
    BY DEF PlanOK, FoundOK, MissesOK
  <2>3. e = f
    BY <2>1, <2>2 DEF PlanOK, FoundOK
  <2> QED BY <2>3, ChunksPartition
<1> HIDE DEF hit
<1>2. At("slot_stamp", hit(t)) \cap At("slot_stamp", hit(u)) = {}
  BY <1>1, LocationsApart
<1>3. At("slot_stamp", hit(t)) \cap HitsRd[u] = {}
  BY DEF HitsRd, At
<1> QED BY <1>2, <1>3 DEF HitsWr, hit

LEMMA ListSeparate ==
  ASSUME NEW p, PlanOK(p)
  PROVE  Separate(ListRd, ListWr(p))
<1> SUFFICES ASSUME NEW t \in Threads, NEW u \in Threads, t # u
             PROVE  ListWr(p)[t] \cap (ListRd[u] \cup ListWr(p)[u]) = {}
  BY DEF Separate
<1> DEFINE place(v) == {p.missRank[e] : e \in Chunk(v) \cap p.M}
<1>1. place(t) \cap place(u) = {}
  <2>1. SUFFICES ASSUME NEW e \in Chunk(t) \cap p.M, NEW f \in Chunk(u) \cap p.M,
                        p.missRank[e] = p.missRank[f]
                 PROVE  FALSE
    OBVIOUS
  <2>2. e = f
    BY <2>1, PlanRounds
  <2> QED BY <2>2, ChunksPartition
<1>2. Strided(t, S) \cap Strided(u, S) = {}
  BY StridesApart
<1> HIDE DEF place
<1>3. ListWr(p)[t] \cap ListWr(p)[u] = {}
  BY <1>1, <1>2 DEF ListWr, At, place
<1>4. ListWr(p)[t] \cap ListRd[u] = {}
  BY DEF ListWr, ListRd, At
<1> QED BY <1>3, <1>4

LEMMA KeysSeparate ==
  ASSUME NEW p
  PROVE  Separate(KeysRd, KeysWr(p))
<1> SUFFICES ASSUME NEW t \in Threads, NEW u \in Threads, t # u
             PROVE  KeysWr(p)[t] \cap (KeysRd[u] \cup KeysWr(p)[u]) = {}
  BY DEF Separate
<1>1. Strided(t, S) \cap Strided(u, S) = {} /\ Strided(t, p.nins) \cap Strided(u, p.nins) = {}
  BY StridesApart
<1>2. KeysWr(p)[t] \cap KeysWr(p)[u] = {}
  BY <1>1 DEF KeysWr, At
<1>3. KeysWr(p)[t] \cap KeysRd[u] = {}
  BY DEF KeysWr, KeysRd, At
<1> QED BY <1>2, <1>3

LEMMA RankSeparate ==
  ASSUME NEW p, PlanOK(p)
  PROVE  Separate(KeyRd, RankWr(p))
<1> SUFFICES ASSUME NEW t \in Threads, NEW u \in Threads, t # u
             PROVE  RankWr(p)[t] \cap (KeyRd[u] \cup RankWr(p)[u]) = {}
  BY DEF Separate
<1> DEFINE place(v) == {p.victimRank[s] : s \in Strided(v, S) \cap p.V}
<1>1. place(t) \cap place(u) = {}
  <2>1. SUFFICES ASSUME NEW s \in Strided(t, S) \cap p.V, NEW q \in Strided(u, S) \cap p.V,
                        p.victimRank[s] = p.victimRank[q]
                 PROVE  FALSE
    OBVIOUS
  <2>2. s = q
    BY <2>1, PlanRounds
  <2> QED BY <2>2, StridesApart
<1> HIDE DEF place
<1>2. At("s_vic", place(t)) \cap At("s_vic", place(u)) = {}
  BY <1>1, LocationsApart
<1>3. At("s_vic", place(t)) \cap KeyRd[u] = {}
  BY DEF KeyRd, At
<1> QED BY <1>2, <1>3 DEF RankWr, place

(* Two rounds never touch the same table or map_cold entry, nor the same   *)
(* slot: what one brings in or puts out, the other does not.               *)
LEMMA InstallSeparate ==
  ASSUME NEW p, PlanOK(p)
  PROVE  Separate(PairRd, InstallWr(p))
<1> SUFFICES ASSUME NEW t \in Threads, NEW u \in Threads, t # u
             PROVE  InstallWr(p)[t] \cap (PairRd[u] \cup InstallWr(p)[u]) = {}
  BY DEF Separate
<1> SUFFICES ASSUME NEW D, D = Strided(t, p.nact), NEW F, F = Strided(u, p.nact)
             PROVE  InstallWr(p)[t] \cap (PairRd[u] \cup InstallWr(p)[u]) = {}
  OBVIOUS
<1>1. D \in SUBSET (0 .. p.nact-1) /\ F \in SUBSET (0 .. p.nact-1) /\ D \cap F = {}
  BY StridesApart DEF Strided
<1>2. /\ ComeIn(p, D) \in SUBSET p.M /\ ComeIn(p, F) \in SUBSET p.M
      /\ Refilled(p, D) \in SUBSET p.V /\ Refilled(p, F) \in SUBSET p.V
      /\ GoOut(p, D) \cap p.M = {} /\ GoOut(p, F) \cap p.M = {}
      /\ \A e \in p.M : /\ e \in ComeIn(p, D) <=> p.missRank[e] \in D
                        /\ e \in ComeIn(p, F) <=> p.missRank[e] \in F
      /\ \A s \in p.V : /\ s \in Refilled(p, D) <=> p.victimRank[s] \in D
                        /\ s \in Refilled(p, F) <=> p.victimRank[s] \in F
      /\ \A e \in GoOut(p, D) : p.table[e] \in Refilled(p, D)
      /\ \A e \in GoOut(p, F) : p.table[e] \in Refilled(p, F)
  BY <1>1, RoundsApart
<1>3. ComeIn(p, D) \cap ComeIn(p, F) = {} /\ Refilled(p, D) \cap Refilled(p, F) = {}
  BY <1>1, <1>2
<1>4. GoOut(p, D) \cap GoOut(p, F) = {}
  BY <1>2, <1>3
<1> DEFINE in == ComeIn(p, D) \cup GoOut(p, D)
           un == ComeIn(p, F) \cup GoOut(p, F)
<1>5. in \cap un = {}
  BY <1>2, <1>3, <1>4
<1> HIDE DEF in, un
<1>6. RoundWr(p, D) \cap RoundWr(p, F) = {}
  BY <1>1, <1>3, <1>5 DEF RoundWr, At, in, un
<1>7. RoundWr(p, D) \cap PairRd[u] = {}
  BY DEF RoundWr, PairRd, At
<1> QED BY <1>6, <1>7 DEF InstallWr

LEMMA StoreSeparate == Separate(StoreRd, StoreWr)
<1> SUFFICES ASSUME NEW t \in Threads, NEW u \in Threads, t # u
             PROVE  StoreWr[t] \cap (StoreRd[u] \cup StoreWr[u]) = {}
  BY DEF Separate
<1>1. Strided(t, S) \cap Strided(u, S) = {}
  BY StridesApart
<1>2. StoreWr[t] \cap StoreWr[u] = {}
  BY <1>1 DEF StoreWr, OfThreadZero, At
<1>3. StoreWr[t] \cap StoreRd[u] = {}
  BY DEF StoreWr, StoreRd, OfThreadZero, At
<1> QED BY <1>2, <1>3

LEMMA PhaseRaceFree ==
  ASSUME NEW p, PlanOK(p), AtPhase(p)
  PROVE  RaceFree
<1>1. CASE InClear(p)
  BY <1>1, ClearSeparate, SeparateRaceFree DEF InClear
<1>2. CASE InMark(p)
  <2>1. \A a \in log : \/ a[2] = "r" /\ a[3][1] = "step"
                       \/ a[2] = "m" /\ a[3][1] = "routed"
    BY <1>2 DEF InMark, At
  <2> QED BY <2>1 DEF RaceFree
<1>3. CASE InCount(p)
  BY <1>3, SeparateRaceFree DEF InCount, Separate, Nothing
<1>4. CASE InHits(p)
  BY <1>4, HitsSeparate, SeparateRaceFree DEF InHits
<1>5. CASE InList(p)
  BY <1>5, ListSeparate, SeparateRaceFree DEF InList
<1>6. CASE InKeys(p)
  BY <1>6, KeysSeparate, SeparateRaceFree DEF InKeys
<1>7. CASE InArgMin(p)
  BY <1>7, SeparateRaceFree DEF InArgMin, Separate, Nothing
<1>8. CASE InInstallOne(p)
  BY <1>8 DEF InInstallOne, RaceFree
<1>9. CASE InRank(p)
  BY <1>9, RankSeparate, SeparateRaceFree DEF InRank
<1>10. CASE InInstall(p)
  BY <1>10, InstallSeparate, SeparateRaceFree DEF InInstall
<1>11. CASE InStore(p)
  BY <1>11, StoreSeparate, SeparateRaceFree DEF InStore
<1>12. CASE InExit(p)
  BY <1>12 DEF InExit, RaceFree
<1> QED BY <1>1, <1>2, <1>3, <1>4, <1>5, <1>6, <1>7, <1>8, <1>9, <1>10, <1>11, <1>12 DEF AtPhase

(* Between two barriers no two threads meet at a location one of them      *)
(* writes, the parallel installs included, as pickVictims claims.          *)
THEOREM NoRaces == Spec => []RaceFree
<1>1. IInv => RaceFree
  <2> SUFFICES ASSUME IInv PROVE RaceFree
    OBVIOUS
  <2>1. CASE log = {}
    BY <2>1 DEF RaceFree
  <2>2. ASSUME Launched, NEW p, p = Plan, AtPhase(p) PROVE RaceFree
    <3>1. PlanOK(p)
      BY <2>2, PlanFacts DEF IInv, Launched
    <3> QED BY <2>2, <3>1, PhaseRaceFree
  <2> QED BY <2>1, <2>2 DEF IInv
<1> QED BY <1>1, KernelInvariant, PTL

----------------------------------------------------------------------------
(* The launch as one step of ExpertCache.                                  *)

(* The two instances of ExpertCache, of this module's refinement mapping   *)
(* and of the proofs about the cache, are the same specification.          *)
LEMMA SameMapping ==
  /\ CP!Init <=> Cache!Init
  /\ CP!Next <=> Cache!Next
  /\ CP!vars = Cache!vars
<1>1. CP!Init <=> Cache!Init
  BY DEF CP!Init, CP!Increasing, CP!Experts, CP!Slots, CP!Entries, CP!None,
     Cache!Init, Cache!Increasing, Cache!Experts, Cache!Slots, Cache!Entries, Cache!None
<1>2. CP!vars = Cache!vars
  BY DEF CP!vars, Cache!vars
<1>3. /\ Cache!Experts = Experts /\ Cache!Slots = Slots /\ Cache!Entries = Entries
      /\ Cache!None = None /\ Cache!SlotBase = SlotBase
  BY DEF Cache!Experts, Experts, Cache!Slots, Slots, Cache!Entries, Entries,
     Cache!None, None, Cache!SlotBase, SlotBase
<1>4. \A X : Cache!Cardinality(X) = Cardinality(X)
  <2>1. \A X : Cache!IsFiniteSet(X) <=> IsFiniteSet(X)
    BY DEF Cache!IsFiniteSet, IsFiniteSet
  <2> QED BY <2>1 DEF Cache!Cardinality, Cardinality
<1>5. /\ \A V, k, x : Cache!Rank(V, k, x) = Rank(V, k, x)
      /\ \A V, k, j : Cache!Nth(V, k, j) = Nth(V, k, j)
  <2>1. \A V, k, x : Cache!Rank(V, k, x) = Rank(V, k, x)
    BY <1>4 DEF Cache!Rank, Rank
  <2>2. \A V, k, j : Cache!Nth(V, k, j) = Nth(V, k, j)
    BY <2>1 DEF Cache!Nth, Nth
  <2> QED BY <2>1, <2>2
<1>6. CP!RoutedSets = Cache!RoutedSets
  BY <1>3, SameConstants DEF CP!RoutedSets, Cache!RoutedSets
<1>7. ASSUME NEW R PROVE CP!Launch(R) <=> Cache!Launch(R)
  <2>1. /\ CP!Misses(R) = Cache!Misses(R) /\ CP!HitSlots(R) = Cache!HitSlots(R)
        /\ CP!Evictable(R) = Cache!Evictable(R)
    BY <1>3, SameConstants
       DEF CP!Misses, CP!Hits, CP!HitSlots, CP!Evictable,
           Cache!Misses, Cache!Hits, Cache!HitSlots, Cache!Evictable
  <2>2. CP!Refreshed(R) = Cache!Refreshed(R)
    BY <1>3, <2>1, SameConstants DEF CP!Refreshed, Cache!Refreshed
  <2>3. CP!IdKey(R) = Cache!IdKey(R) /\ CP!Key(R) = Cache!Key(R)
    BY <1>3, <2>1, <2>2, SameConstants DEF CP!IdKey, Cache!IdKey, CP!Key, Cache!Key
  <2>4. /\ \A j : CP!MissAt(R, j) = Cache!MissAt(R, j)
        /\ \A j : CP!VictimAt(R, j) = Cache!VictimAt(R, j)
        /\ \A e : CP!MissRank(R, e) = Cache!MissRank(R, e)
        /\ \A s : CP!VictimRank(R, s) = Cache!VictimRank(R, s)
    BY <1>5, <2>1, <2>3, SameRanks
       DEF CP!MissAt, CP!VictimAt, CP!MissRank, CP!VictimRank,
           Cache!MissAt, Cache!VictimAt, Cache!MissRank, Cache!VictimRank
  <2>5. CP!Nins(R) = Cache!Nins(R) /\ CP!Nact(R) = Cache!Nact(R)
    BY <1>4, <2>1, SameCounts
       DEF CP!Nins, CP!Nact, CP!Lesser, Cache!Nins, Cache!Nact, Cache!Lesser
  <2>6. /\ CP!Inserted(R) = Cache!Inserted(R) /\ CP!Victims(R) = Cache!Victims(R)
    BY <2>4, <2>5 DEF CP!Inserted, CP!Victims, Cache!Inserted, Cache!Victims
  <2>7. /\ CP!Displaced(R) = Cache!Displaced(R)
        /\ \A e : CP!SlotFor(R, e) = Cache!SlotFor(R, e)
        /\ \A s : CP!ExpertFor(R, s) = Cache!ExpertFor(R, s)
    BY <2>4, <2>6 DEF CP!Displaced, CP!SlotFor, CP!ExpertFor,
       Cache!Displaced, Cache!SlotFor, Cache!ExpertFor
  <2>8. CP!MissAfter(R) = Cache!MissAfter(R)
    BY <1>3, <2>4, <2>5, SameConstants DEF CP!MissAfter, Cache!MissAfter
  <2>9. CP!Begin(R) <=> Cache!Begin(R)
    BY DEF CP!Begin, Cache!Begin
  <2>10. CP!ReadThrough(R) <=> Cache!ReadThrough(R)
    BY <1>4, <2>9, SameCounts DEF CP!ReadThrough, Cache!ReadThrough
  <2>11. CP!Refresh(R) <=> Cache!Refresh(R)
    BY <1>4, <2>2, <2>5, <2>9, SameCounts DEF CP!Refresh, Cache!Refresh
  <2>12. CP!Insert(R) <=> Cache!Insert(R)
    BY <1>3, <1>4, <2>2, <2>5, <2>6, <2>7, <2>8, <2>9, SameConstants, SameCounts
       DEF CP!Insert, Cache!Insert
  <2> QED BY <2>10, <2>11, <2>12 DEF CP!Launch, Cache!Launch
<1>8. CP!Next <=> Cache!Next
  BY <1>6, <1>7 DEF CP!Next, Cache!Next
<1> QED BY <1>1, <1>2, <1>8

LEMMA InitMaps == Init => Cache!Init
<1> SUFFICES ASSUME Init PROVE Cache!Init
  OBVIOUS
<1>1. settled = Memory /\ routed = [e \in Experts |-> 0] /\ WarmStart!Init
  BY DEF Init
<1>2. /\ settled.table = table /\ settled.map_cold = map_cold
      /\ settled.slot_expert = slot_expert /\ settled.slot_stamp = slot_stamp
      /\ settled.step = step /\ settled.miss = miss /\ settled.n_miss = n_miss
      /\ settled.routed = {}
  BY <1>1 DEF Memory
<1> QED BY <1>1, <1>2 DEF WarmStart!Init, WarmStart!Increasing, WarmStart!Experts,
        WarmStart!Slots, WarmStart!Entries, WarmStart!None, Cache!Init, Cache!Increasing,
        Cache!Experts, Cache!Slots, Cache!Entries, Cache!None

LEMMA StepMaps == IInv /\ [Next]_vars => [Cache!Next]_(Cache!vars)
<1> SUFFICES ASSUME IInv, [Next]_vars PROVE Cache!Next \/ UNCHANGED Cache!vars
  OBVIOUS
<1>1. CASE Retire
  <2>1. CP!CacheInv /\ Launched /\ InExit(Plan)
    BY <1>1 DEF Retire, IInv, AtPhase
  <2>2. CP!Launch(Picked) /\ Picked \in CP!RoutedSets
    BY <1>1, <2>1, RetireStep
  <2>3. CP!Next
    BY <2>2 DEF CP!Next
  <2> QED BY <2>3, SameMapping
<1>2. CASE ~ Retire
  <2>1. settled' = settled
    BY <1>2 DEF Next, vars, LaunchKernel, Barrier, Run, Clear, Mark, Count, HitPhase, List, Keys,
       ArgMin, InstallOne, RankPhase, InstallBatch, Store, Keep
  <2> QED BY <2>1 DEF Cache!vars
<1> QED BY <1>1, <1>2

(* Whatever the order of the threads and whichever path a launch takes,    *)
(* the rest of the stream sees one atomic step of ExpertCache.             *)
THEOREM LaunchIsAtomic == Spec => ImplementsCache
<1>1. Init => Cache!Init
  BY InitMaps
<1>2. IInv /\ [Next]_vars => [Cache!Next]_(Cache!vars)
  BY StepMaps
<1> QED BY <1>1, <1>2, KernelInvariant, PTL DEF Spec, ImplementsCache, Cache!Spec

(* And with the cache's own refinement: the threads of the kernel, in      *)
(* whatever order, implement the LRU contract, which knows nothing of      *)
(* slots, keys and barriers.                                               *)
THEOREM KernelIsLru == Spec => CP!ImplementsLru
<1>1. Init => CP!Contract!Init
  BY InitMaps, SameMapping, SameConstants, CP!InitContract
<1>2. IInv /\ [Next]_vars => [CP!Contract!Next]_(CP!Contract!contractVars)
  <2> SUFFICES ASSUME IInv, [Next]_vars
               PROVE  [CP!Contract!Next]_(CP!Contract!contractVars)
    OBVIOUS
  <2>1. CP!CacheInv
    BY DEF IInv
  <2>2. [CP!Next]_(CP!vars)
    BY StepMaps, SameMapping DEF CP!vars, Cache!vars
  <2> QED BY <2>1, <2>2, SameConstants, CP!StepContract
<1> QED BY <1>1, <1>2, KernelInvariant, PTL DEF Spec, CP!ImplementsLru, CP!Contract!Spec
=============================================================================
