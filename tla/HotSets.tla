------------------------------ MODULE HotSets ------------------------------
(***************************************************************************)
(* Where the cache starts from.  build_hot_profile.py ranks the experts of *)
(* each layer by their decode routings; at the first forward _hot_sets     *)
(* spends the VRAM budget on the (layer, expert) pairs with the highest    *)
(* share of their layer's routings, and _build_hot and _build_lru make a   *)
(* layer's part of it the tables, slots and stamps of ExpertCache.  For    *)
(* the offline studies capacities repeats the split (locality_sim.py).     *)
(***************************************************************************)
EXTENDS Ranking, Sequences, FiniteSetsExt

CONSTANTS
  E,                \* experts of a layer
  FileOrder,        \* the layers as the counts' rows have them: by name, so 10 is ahead of 2
  Routings,         \* [layer -> [expert -> decode routings]], those tried
  Budgets,          \* slots the VRAM budget pays for, over all layers
  MaxInsertsEnv,    \* VLLM_R4D_LRU_MAX_INSERTS
  Thresh            \* 1 / VLLM_R4D_LRU_THRESH

Experts == 0 .. E-1
Layers  == {FileOrder[i] : i \in DOMAIN FileOrder}

(* The fused kernel's launcher takes no more than 1024 experts; _hot_sets  *)
(* raises on a layer without routings.                                     *)
ASSUME HotAssumption ==
  /\ E \in 1 .. 1024
  /\ FileOrder \in Seq(Nat) /\ Layers = 0 .. Len(FileOrder) - 1
  /\ \A i, j \in DOMAIN FileOrder : FileOrder[i] = FileOrder[j] => i = j
  /\ \A r \in Routings : r \in [Layers -> [Experts -> Nat]] /\ \A l \in Layers : \E e \in Experts : r[l][e] > 0
  /\ Budgets \subseteq Nat /\ MaxInsertsEnv \in Nat \ {0} /\ Thresh \in Nat \ {0}

VARIABLES
  routings, budget,
  profile,      \* the file: [layer, ranked, counts] in the order of the rows
  hot,          \* layer -> its hot experts, once _hot_sets has run
  built         \* layer -> <<>> for the single call, or what _build_lru made

hotVars == <<routings, budget, profile, hot, built>>

----------------------------------------------------------------------------
(* argsort(-c), stable: by count, and by id where counts are equal.        *)
HottestFirst(c) == Sorted(Experts, [e \in Experts |-> e - E * c[e]])

(* Row i of the counts is the real layer FileOrder[i].                     *)
RowName(i) == i - 1                    \* fault: the row number is taken for the layer
RealLayer(i) == FileOrder[i]

BuildProfile ==
  /\ profile = <<>>
  /\ profile' = [i \in DOMAIN FileOrder |->
       LET c == routings[FileOrder[i]]
           order == HottestFirst(c)
       IN [layer |-> RealLayer(i), ranked |-> order, counts |-> [j \in 1 .. E |-> c[order[j]]]]]
  /\ UNCHANGED <<routings, budget, hot, built>>

(* The concatenated pairs <<entry, place>>; of two shares, c/tot and d/tot,*)
(* the larger is ahead, and the earlier pair of two equal ones.            *)
Pairs(p) == (DOMAIN p) \X (1 .. E)
Share(p, a, b) ==
  p[a[1]].counts[a[2]] * SumFunctionOnSet(p[b[1]].counts, 1 .. E)
Ahead(p, a, b) ==
  \/ Share(p, a, b) > Share(p, b, a)
  \/ Share(p, a, b) = Share(p, b, a) /\ (a[1] < b[1] \/ (a[1] = b[1] /\ a[2] < b[2]))

Kept(p) == {a \in Pairs(p) : Cardinality({b \in Pairs(p) : Ahead(p, b, a)}) < budget}

SplitByPlace(p) ==                     \* fault: by place in the file instead of by name
  [l \in Layers |-> {p[a[1]].ranked[a[2]] : a \in {x \in Kept(p) : x[1] = l + 1}}]
Split(p) ==
  [l \in Layers |-> {p[a[1]].ranked[a[2]] : a \in {x \in Kept(p) : p[x[1]].layer = l}}]

(* _hot_sets, whose result is cached and sorted by id. *)
WaterFill ==
  /\ profile # <<>> /\ hot = <<>>
  /\ hot' = [l \in Layers |-> ById(Split(profile)[l])]
  /\ UNCHANGED <<routings, budget, profile, built>>

(* capacities(.., "global"): the same over the layers in numeric order. *)
Entry(l) == CHOOSE i \in DOMAIN profile : profile[i].layer = l
Capacities == Split([i \in DOMAIN profile |-> profile[Entry(i - 1)]])

----------------------------------------------------------------------------
RankOf(l, e) == CHOOSE i \in 1 .. E : profile[Entry(l)].ranked[i] = e

(* slot_stamp: S less the place in the order of the ranks. *)
StampAscending(l, s) ==                \* fault: the hottest is the first to go
  Cardinality({q \in DOMAIN hot[l] : RankOf(l, hot[l][q]) <= RankOf(l, hot[l][s])})
Stamp(l, s) ==
  Len(hot[l]) - Cardinality({q \in DOMAIN hot[l] : RankOf(l, hot[l][q]) < RankOf(l, hot[l][s])})

BuildLru(l) ==
  LET S == Len(hot[l])
      cap == Min({MaxInsertsEnv, S})
      Place(e) == {s \in 0 .. S-1 : hot[l][s + 1] = e}
      map_hot == [e \in Experts |-> IF Place(e) # {} THEN CHOOSE s \in Place(e) : TRUE ELSE -1]
  IN [S |-> S, table |-> map_hot,
      map_cold |-> [e \in Experts |-> IF map_hot[e] >= 0 THEN -1 ELSE e],
      slot_expert |-> [s \in 0 .. S-1 |-> hot[l][s + 1]],
      slot_stamp |-> [s \in 0 .. S-1 |-> Stamp(l, s + 1)],
      step |-> S, miss |-> [j \in 0 .. cap-1 |-> <<-1, -1>>], n_miss |-> 0,
      max_distinct |-> Max({1, S \div Thresh}), max_inserts |-> cap]

(* _build_hot: nothing to split without a profile entry (the draft model's *)
(* layer), or when none or all of the experts are hot.                     *)
BuildHot(l) ==
  /\ hot # <<>> /\ l = Cardinality(DOMAIN built)      \* the forward goes layer by layer
  /\ LET single == l \notin Layers \/ Len(hot[l]) \in {0, E}
         how == IF single THEN <<>> ELSE <<BuildLru(l)>>
     IN built' = [x \in DOMAIN built \cup {l} |-> IF x = l THEN how ELSE built[x]]
  /\ UNCHANGED <<routings, budget, profile, hot>>

HotInit ==
  /\ routings \in Routings /\ budget \in Budgets
  /\ profile = <<>> /\ hot = <<>> /\ built = <<>>

HotNext == BuildProfile \/ WaterFill \/ \E l \in Layers \cup {Len(FileOrder)} : BuildHot(l)

HotSpec == HotInit /\ [][HotNext]_hotVars

----------------------------------------------------------------------------
(* Properties.                                                             *)

(* A layer's cache, of S slots with these limits. *)
Cache(l, S, distinct, inserts) == INSTANCE ExpertCache WITH
  MaxDistinct <- distinct, MaxInserts <- inserts, routed <- {},
  table <- built[l][1].table, map_cold <- built[l][1].map_cold,
  slot_expert <- built[l][1].slot_expert, slot_stamp <- built[l][1].slot_stamp,
  step <- built[l][1].step, miss <- built[l][1].miss, n_miss <- built[l][1].n_miss

MayStart(l) ==
  \E S \in 1 .. E-1, distinct, inserts \in 1 .. E :
    /\ built[l][1].S = S /\ built[l][1].max_distinct = distinct /\ built[l][1].max_inserts = inserts
    /\ Cache(l, S, distinct, inserts)!CacheAssumption /\ Cache(l, S, distinct, inserts)!Init

(* What is built for a layer is a state ExpertCache may start in, holds    *)
(* the experts that this very layer routed most, and gives up the least    *)
(* routed of them first ("seeding by rank makes the first evictions take   *)
(* the least-frequent profile experts").                                   *)
WarmStart ==
  \A l \in Layers \cap DOMAIN built : built[l] # <<>> =>
    LET c == built[l][1]
        At(s) == routings[l][c.slot_expert[s]]
    IN /\ MayStart(l)
       /\ \A s \in DOMAIN c.slot_expert :
            /\ \A e \in Experts : c.table[e] = -1 => routings[l][e] <= At(s)
            /\ \A q \in DOMAIN c.slot_expert : c.slot_stamp[s] < c.slot_stamp[q] => At(s) <= At(q)

(* The studies give each layer the slots the server gives it: as many in   *)
(* all, and other experts only among those with the last share paid for.   *)
StudiesSizeTheServer ==
  hot # <<>> =>
    LET InAll(f) == SumFunctionOnSet([l \in Layers |-> Cardinality(f[l])], Layers)
        mine == [l \in Layers |-> {hot[l][s] : s \in DOMAIN hot[l]}]
        At(l, e) == CHOOSE a \in Pairs(profile) :
                      profile[a[1]].layer = l /\ profile[a[1]].ranked[a[2]] = e
        final == CHOOSE a \in Kept(profile) : \A b \in Kept(profile) : a = b \/ Ahead(profile, b, a)
    IN /\ InAll(mine) = InAll(Capacities) /\ InAll(mine) = Min({budget, E * Len(FileOrder)})
       /\ \A l \in Layers : \A e \in (mine[l] \cup Capacities[l]) \ (mine[l] \cap Capacities[l]) :
            Share(profile, At(l, e), final) = Share(profile, final, At(l, e))
=============================================================================
