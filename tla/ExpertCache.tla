---------------------------- MODULE ExpertCache ----------------------------
(***************************************************************************)
(* The device-side LRU cache of MoE experts of one layer on one rank.      *)
(*                                                                         *)
(* A layer owns S VRAM slots and E > S experts in host memory.  Ahead of   *)
(* every forward one workgroup (lru_manage_k, or phase 0 of lru_fused_k)   *)
(* reads the ids the router picked, refreshes the stamps of the resident   *)
(* ones, and lets missing experts displace the least recently routed       *)
(* slots this forward does not need.  Here one launch is one step;         *)
(* ManageKernel opens it up into threads and barriers.                     *)
(***************************************************************************)
EXTENDS Ranking

CONSTANTS
  E,            (* experts of the layer                                     *)
  S,            (* VRAM slots of the layer (size of its hot set)            *)
  MaxDistinct,  (* more distinct experts than this: read through            *)
  MaxInserts    (* most inserts one launch may do, = depth of the miss list *)

Experts == 0 .. E-1
Slots   == 0 .. S-1
Entries == 0 .. MaxInserts-1       \* indices of the miss list
None    == -1

MAXS     == 1024       \* most slots the kernel takes
SlotBase == 1048576    \* 2^SLOT_BITS

(* _build_hot turns the cache on only for 0 < S < E, the launcher refuses  *)
(* S > MAXS; _build_lru caps max_inserts at S and keeps max_distinct at 1  *)
(* or more.                                                                *)
ASSUME CacheAssumption ==
  /\ E \in Nat /\ S \in Nat /\ 0 < S /\ S < E /\ S <= MAXS
  /\ MaxDistinct \in Nat \ {0}
  /\ MaxInserts \in 0 .. S

VARIABLES
  table,        \* [E] expert -> slot, or None
  map_cold,     \* [E] expert -> itself when not resident, else None
  slot_expert,  \* [S] slot -> expert, or None
  slot_stamp,   \* [S] slot -> launch that last routed it
  step,         \* launches so far
  routed,       \* scratch: the experts this launch's router picked
  miss,         \* [MaxInserts] (expert, slot) pairs, stale past n_miss
  n_miss        \* how many pairs of miss the gather has to copy

vars == <<table, map_cold, slot_expert, slot_stamp, step, routed, miss, n_miss>>

TypeOK ==
  /\ table \in [Experts -> Slots \cup {None}]
  /\ map_cold \in [Experts -> Experts \cup {None}]
  /\ slot_expert \in [Slots -> Experts \cup {None}]
  /\ slot_stamp \in [Slots -> Nat]
  /\ step \in Nat
  /\ routed \in SUBSET Experts
  /\ miss \in [Entries -> (Experts \cup {None}) \X (Slots \cup {None})]
  /\ n_miss \in 0 .. MaxInserts

----------------------------------------------------------------------------
(* What the kernel computes, for a launch that routes the experts in R.    *)

Lesser(a, b) == IF a <= b THEN a ELSE b

Hits(R)   == {e \in R : table[e] >= 0}
Misses(R) == {e \in R : table[e] < 0}

(* The hits are stamped before the victims are chosen. *)
HitSlots(R)  == {table[e] : e \in Hits(R)}
(* Fault: the hits keep their old stamps. *)
HitsUnstamped(R) == slot_stamp

Refreshed(R) == [s \in Slots |->
                   IF s \in HitSlots(R) THEN step + 1 ELSE slot_stamp[s]]

(* The slots whose key is not LLONG_MAX, and the keys: the stamp, with the *)
(* slot in the low SLOT_BITS to make them unique.                          *)
(* Fault: a slot this launch routes may go. *)
EvictableAny(R) == Slots

Evictable(R) == {s \in Slots : ~ (slot_expert[s] >= 0 /\ slot_expert[s] \in R)}
Key(R) == [s \in Evictable(R) |-> Refreshed(R)[s] * SlotBase + s]

(* Misses are enumerated in ascending order of expert id. *)
IdKey(R) == [e \in Misses(R) |-> e]

MissAt(R, j)     == Nth(Misses(R), IdKey(R), j)
VictimAt(R, j)   == Nth(Evictable(R), Key(R), j)
MissRank(R, e)   == Rank(Misses(R), IdKey(R), e)
VictimRank(R, s) == Rank(Evictable(R), Key(R), s)

(* Inserts asked for, and those a slot is found for. *)
(* Fault: the cap is one too small. *)
NinsShort(R)    == Lesser(Cardinality(Misses(R)), MaxInserts - 1)

Nins(R) == Lesser(Cardinality(Misses(R)), MaxInserts)
Nact(R) == Lesser(Nins(R), Cardinality(Evictable(R)))

(* The j-th missing expert goes to the slot with the j-th smallest key. *)
Inserted(R)     == {MissAt(R, j)   : j \in 0 .. Nact(R)-1}
Victims(R)      == {VictimAt(R, j) : j \in 0 .. Nact(R)-1}

(* Fault: the stamp is not masked out of the victim's key. *)
KeyFor(R, e) == Key(R)[VictimAt(R, MissRank(R, e))]

SlotFor(R, e)   == VictimAt(R, MissRank(R, e))
ExpertFor(R, s) == MissAt(R, VictimRank(R, s))

(* Fault: the displaced expert keeps its table entry. *)
DisplacedForgotten(R) == {}

Displaced(R)    == {slot_expert[s] : s \in Victims(R)}

(* miss[2j] is written for every insert asked for, miss[2j+1] only for     *)
(* those a slot was found for; the rest of the list keeps its old content. *)
MissAfter(R) ==
  [j \in Entries |->
     <<IF j < Nins(R) THEN MissAt(R, j)   ELSE miss[j][1],
       IF j < Nact(R) THEN VictimAt(R, j) ELSE miss[j][2]>>]

----------------------------------------------------------------------------
(* Warm start: the hot set in ascending order of id fills the slots; the   *)
(* stamps are zero without a profile, else a permutation of 1..S by        *)
(* profile rank; step starts at S.                                         *)

Increasing(f) == \A s, q \in Slots : s < q => f[s] < f[q]

Init ==
  /\ slot_expert \in [Slots -> Experts] /\ Increasing(slot_expert)
  /\ table = [e \in Experts |->
                IF \E s \in Slots : slot_expert[s] = e
                  THEN CHOOSE s \in Slots : slot_expert[s] = e
                  ELSE None]
  /\ map_cold = [e \in Experts |-> IF table[e] = None THEN e ELSE None]
  /\ slot_stamp \in [Slots -> 0 .. S]
  /\ \/ \A s \in Slots : slot_stamp[s] = 0
     \/ \A s, q \in Slots : slot_stamp[s] > 0
                            /\ (slot_stamp[s] = slot_stamp[q] => s = q)
  /\ step = S
  /\ routed = {}
  /\ miss = [j \in Entries |-> <<None, None>>]
  /\ n_miss = 0

(* What every launch does first: advance the clock, clear the miss count,  *)
(* rebuild the routed set.                                                 *)
Begin(R) ==
  /\ step' = step + 1
  /\ routed' = R

(* A wide launch (prefill, large batch) leaves the cache as it is. *)
ReadThrough(R) ==
  /\ Cardinality(R) > MaxDistinct
  /\ Begin(R)
  /\ n_miss' = 0
  /\ UNCHANGED <<table, map_cold, slot_expert, slot_stamp, miss>>

(* Nothing to insert: only the hits' stamps move.  Fault: the early return *)
(* leaves the previous launch's miss count standing.                       *)
RefreshStale(R) ==
  /\ Cardinality(R) <= MaxDistinct
  /\ Nins(R) = 0
  /\ Begin(R)
  /\ slot_stamp' = Refreshed(R)
  /\ UNCHANGED <<table, map_cold, slot_expert, miss, n_miss>>

Refresh(R) ==
  /\ Cardinality(R) <= MaxDistinct
  /\ Nins(R) = 0
  /\ Begin(R)
  /\ slot_stamp' = Refreshed(R)
  /\ n_miss' = 0
  /\ UNCHANGED <<table, map_cold, slot_expert, miss>>

Insert(R) ==
  /\ Cardinality(R) <= MaxDistinct
  /\ Nins(R) > 0
  /\ Begin(R)
  /\ table' = [e \in Experts |->
                 IF e \in Inserted(R) THEN SlotFor(R, e)
                 ELSE IF e \in Displaced(R) THEN None ELSE table[e]]
  /\ map_cold' = [e \in Experts |->
                    IF e \in Inserted(R) THEN None
                    ELSE IF e \in Displaced(R) THEN e ELSE map_cold[e]]
  /\ slot_expert' = [s \in Slots |->
                       IF s \in Victims(R) THEN ExpertFor(R, s) ELSE slot_expert[s]]
  /\ slot_stamp' = [s \in Slots |->
                      IF s \in Victims(R) THEN step + 1 ELSE Refreshed(R)[s]]
  /\ miss' = MissAfter(R)
  /\ n_miss' = Nact(R)

(* The router always picks at least one expert. *)
RoutedSets == (SUBSET Experts) \ {{}}

Launch(R) == ReadThrough(R) \/ Refresh(R) \/ Insert(R)

Next == \E R \in RoutedSets : Launch(R)

Spec == Init /\ [][Next]_vars

----------------------------------------------------------------------------
(* Properties.                                                             *)

(* The two lookup tables the split GEMM is aligned by never disagree: an   *)
(* expert is either resident (table names its slot, map_cold nothing) or   *)
(* cold (the reverse).  lru_fused_k's single counting pass relies on it,   *)
(* and so does "each (token, k) slot is in exactly one subset" of          *)
(* _apply_split.                                                           *)
Complementary ==
  \A e \in Experts :
    map_cold[e] = IF table[e] = None THEN e ELSE None

(* table and slot_expert are inverse to each other, so a slot never holds  *)
(* an expert the table has lost, and two experts never share a slot.       *)
TableInverse ==
  /\ \A e \in Experts : table[e] # None => slot_expert[table[e]] = e
  /\ \A s \in Slots : slot_expert[s] # None => table[slot_expert[s]] = s

(* No slot is ever vacated: the cache starts full (the static hot set) and *)
(* every eviction is paid for by an insert.  A hole would be lost VRAM.    *)
AlwaysFull == \A s \in Slots : slot_expert[s] # None

(* No stamp lies in the future, so the next launch's hits outrank every    *)
(* slot that it does not route.                                            *)
StampsPast == \A s \in Slots : slot_stamp[s] <= step

(* The inductive invariant of the cache: every launch needs all of it to   *)
(* keep any of it.                                                         *)
CacheInv == TypeOK /\ Complementary /\ TableInverse /\ AlwaysFull /\ StampsPast

(* A launch never evicts or moves an expert it routes itself: the GEMM of  *)
(* this very forward reads the expert from the slot (lru_manage_k:         *)
(* "a slot needed by this very step is never taken").                      *)
KeepsRouted ==
  [][\A e \in routed' : table[e] # None => table'[e] = table[e]]_vars

(* The pairs the gather will copy are exactly the experts that moved in,   *)
(* with the slots they moved to.  A pair too many overwrites a slot in     *)
(* use, a pair too few leaves the evicted expert's weights under the new   *)
(* expert's name.                                                          *)
MissListExact ==
  [][{miss'[j] : j \in 0 .. n_miss'-1} =
       {<<e, table'[e]>> : e \in {x \in Experts : table'[x] # None
                                                 /\ table'[x] # table[x]}}]_vars

(* A launch with few enough experts leaves none of them cold.  This is     *)
(* what lets _apply_split skip the cold GEMM (skip_cold) when the batch    *)
(* has at most min(max_inserts, max_distinct) routing slots.               *)
FewAreAllResident ==
  [][Cardinality(routed') <= Lesser(MaxInserts, MaxDistinct) =>
       \A e \in routed' : table'[e] # None /\ map_cold'[e] = None]_vars

(* Seen by expert instead of by slot, the cache is an LRU cache: see       *)
(* LruContract.                                                            *)
Resident == {e \in Experts : table[e] # None}

Contract == INSTANCE LruContract WITH
  Capacity <- S,
  resident <- Resident,
  lastUse  <- [e \in Resident |-> slot_stamp[table[e]]],
  clock    <- step

(* The kernel's bookkeeping implements the LRU contract. *)
ImplementsLru == Contract!Spec
============================================================================
