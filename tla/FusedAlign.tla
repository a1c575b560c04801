----------------------------- MODULE FusedAlign -----------------------------
(***************************************************************************)
(* lru_fused_k: the manager and, from the table it has just rewritten, the *)
(* two alignments the grouped GEMMs read: the resident tokens bucketed by  *)
(* slot, the others by expert.  The output buffers are replayed in place   *)
(* by the graph, so they start every launch with the previous one's        *)
(* content.                                                                *)
(*                                                                         *)
(* The phases are separated by __syncthreads(); only the last one, where   *)
(* threads draw positions from shared cursors, depends on their order.     *)
(***************************************************************************)
EXTENDS ExpertCache, SequencesExt, FiniteSetsExt

CONSTANTS
  NT,          (* threads of the workgroup                                  *)
  BS,          (* block size of the grouped GEMM                            *)
  TopkIds      (* the topk_ids arrays a launch may get                      *)

ASSUME AlignAssumption ==
  /\ NT \in Nat \ {0} /\ BS \in Nat \ {0}
  /\ \A a \in TopkIds : a \in Seq(Int) /\ a # <<>>

VARIABLES
  ids,         \* topk_ids of this launch, the graph's static input
  phase,       \* the phase about to run, or "idle"
  cnt,         \* [side][bucket] counts, later the placement cursors
  cum,         \* [side][bucket] first position of the bucket, total at the end
  sorted_ids,  \* [side][0..L-1] token at each position
  expert_ids,  \* [side][0..NB-1] bucket of each block
  npad,        \* [side] positions in use
  placed       \* tokens the cursors have placed

(* Routing slots: the batch the graph was captured for.                    *)
MK == Len(ids)

(* _align_sizes: the lengths vllm's wrapper allocates. *)
L  == LET n == MK + E * (BS - 1) IN IF MK < E THEN Lesser(MK * BS, n) ELSE n
NB == (L + BS - 1) \div BS

Tokens   == 0 .. MK-1
Sides    == {"hot", "cold"}
Buckets  == [hot |-> Slots, cold |-> Experts]
Sentinel == MK
Garbage  == -7              \* what torch.empty returned

lruVars   == <<table, map_cold, slot_expert, slot_stamp, step, routed, miss, n_miss>>
alignVars == <<lruVars, ids, phase, cnt, cum, sorted_ids, expert_ids, npad, placed>>

Size(side) == IF side = "hot" THEN S ELSE E
Zero       == [side \in Sides |-> [b \in Buckets[side] |-> 0]]

Valid(i)  == ids[i + 1] \in Experts
Expert(i) == ids[i + 1]

(* Where a token belongs: "resident -> hot bucket = slot, otherwise -> cold *)
(* bucket = expert id".                                                     *)
SideOf(i)   == IF table[Expert(i)] \in Slots THEN "hot" ELSE "cold"
BucketOf(i) == IF table[Expert(i)] \in Slots THEN table[Expert(i)] ELSE Expert(i)
In(side, b) == {i \in Tokens : Valid(i) /\ SideOf(i) = side /\ BucketOf(i) = b}

PaddedPast(n) == (n \div BS + 1) * BS       \* fault
Padded(n) == ((n + BS - 1) \div BS) * BS

----------------------------------------------------------------------------
AlignInit ==
  /\ Init
  /\ ids \in {[i \in 1 .. Len(a) |-> 0] : a \in TopkIds} /\ phase = "idle"
  /\ cnt = Zero /\ cum = Zero
  /\ sorted_ids = [side \in Sides |-> [p \in 0 .. L-1 |-> Garbage]]
  /\ expert_ids = [side \in Sides |-> [b \in 0 .. NB-1 |-> Garbage]]
  /\ npad = [side \in Sides |-> Garbage]
  /\ placed = {}

(* Phase 0, the manager: its early returns are branches here. *)
RunManager ==
  /\ phase = "idle"
  /\ ids' \in TopkIds /\ Len(ids') = MK
  /\ Launch(Range(ids') \cap Experts)
  /\ phase' = "clear"
  /\ UNCHANGED <<cnt, cum, sorted_ids, expert_ids, npad, placed>>

(* Phase 1: clear the counts, fill the outputs end to end.  Fault: only    *)
(* when the manager went past its early returns.                           *)
ClearLate ==
  /\ phase = "clear"
  /\ cnt' = Zero
  /\ IF n_miss = 0
       THEN UNCHANGED <<sorted_ids, expert_ids>>
       ELSE /\ sorted_ids' = [side \in Sides |-> [p \in 0 .. L-1 |-> Sentinel]]
            /\ expert_ids' = [side \in Sides |-> [b \in 0 .. NB-1 |-> None]]
  /\ placed' = {}
  /\ phase' = "count"
  /\ UNCHANGED <<lruVars, ids, cum, npad>>

Clear ==
  /\ phase = "clear"
  /\ cnt' = Zero
  /\ sorted_ids' = [side \in Sides |-> [p \in 0 .. L-1 |-> Sentinel]]
  /\ expert_ids' = [side \in Sides |-> [b \in 0 .. NB-1 |-> None]]
  /\ placed' = {}
  /\ phase' = "count"
  /\ UNCHANGED <<lruVars, ids, cum, npad>>

(* Phase 2: one counting pass feeds both sides. *)
CountTokens ==
  /\ phase = "count"
  /\ cnt' = [side \in Sides |-> [b \in Buckets[side] |-> Cardinality(In(side, b))]]
  /\ phase' = "scan"
  /\ UNCHANGED <<lruVars, ids, cum, sorted_ids, expert_ids, npad, placed>>

(* Phase 3: block-padded exclusive scans, the total one past the end. *)
PaddedBefore(side, b) ==
  SumFunctionOnSet([c \in Buckets[side] |-> Padded(cnt[side][c])], {c \in Buckets[side] : c < b})

Scan ==
  /\ phase = "scan"
  /\ cum' = [side \in Sides |-> [b \in 0 .. Size(side) |-> PaddedBefore(side, b)]]
  /\ npad' = [side \in Sides |-> PaddedBefore(side, Size(side))]
  /\ phase' = "expert_ids"
  /\ UNCHANGED <<lruVars, ids, cnt, sorted_ids, expert_ids, placed>>

(* Phase 4: every block of a bucket carries the bucket. *)
FillExpertIds ==
  /\ phase = "expert_ids"
  /\ expert_ids' =
       [side \in Sides |-> [k \in 0 .. NB-1 |->
          IF \E b \in Buckets[side] : cum[side][b] <= k * BS /\ k * BS < cum[side][b + 1]
            THEN CHOOSE b \in Buckets[side] :
                   cum[side][b] <= k * BS /\ k * BS < cum[side][b + 1]
            ELSE expert_ids[side][k]]]
  /\ phase' = IF MK <= NT THEN "place" ELSE "cursors"
  /\ UNCHANGED <<lruVars, ids, cnt, cum, sorted_ids, npad, placed>>

(* Phase 5, up to NT tokens: a token goes behind the matching ones before  *)
(* it.                                                                     *)
PositionBackwards(i) ==          \* fault: behind the matching ones after it
  cum[SideOf(i)][BucketOf(i)]
    + Cardinality({j \in In(SideOf(i), BucketOf(i)) : j > i})

Position(i) ==
  cum[SideOf(i)][BucketOf(i)]
    + Cardinality({j \in In(SideOf(i), BucketOf(i)) : j < i})

Place ==
  /\ phase = "place"
  /\ sorted_ids' =
       [side \in Sides |-> [p \in 0 .. L-1 |->
          IF \E i \in Tokens : Valid(i) /\ SideOf(i) = side /\ Position(i) = p
            THEN CHOOSE i \in Tokens : Valid(i) /\ SideOf(i) = side /\ Position(i) = p
            ELSE sorted_ids[side][p]]]
  /\ phase' = "retired"
  /\ UNCHANGED <<lruVars, ids, cnt, cum, expert_ids, npad, placed>>

(* Phase 5, above: the counts become cursors, and each thread walks its    *)
(* tokens, drawing positions with atomicAdd.  Fault: the counts are drawn  *)
(* from as they are.                                                       *)
CursorsUnset ==
  /\ phase = "cursors"
  /\ phase' = "draw"
  /\ UNCHANGED <<lruVars, ids, cnt, cum, sorted_ids, expert_ids, npad, placed>>

SetCursors ==
  /\ phase = "cursors"
  /\ cnt' = [side \in Sides |-> [b \in Buckets[side] |-> cum[side][b]]]
  /\ phase' = "draw"
  /\ UNCHANGED <<lruVars, ids, cum, sorted_ids, expert_ids, npad, placed>>

Draw(i) ==
  /\ phase = "draw" /\ i \notin placed
  /\ \A j \in Tokens : j < i /\ j % NT = i % NT => j \in placed
  /\ placed' = placed \cup {i}
  /\ IF Valid(i)
       THEN /\ sorted_ids' = [sorted_ids EXCEPT ![SideOf(i)][cnt[SideOf(i)][BucketOf(i)]] = i]
            /\ cnt' = [cnt EXCEPT ![SideOf(i)][BucketOf(i)] = @ + 1]
       ELSE UNCHANGED <<sorted_ids, cnt>>
  /\ phase' = IF placed' = Tokens THEN "retired" ELSE "draw"
  /\ UNCHANGED <<lruVars, ids, cum, expert_ids, npad>>

Retire ==
  /\ phase = "retired"
  /\ phase' = "idle"
  /\ UNCHANGED <<lruVars, ids, cnt, cum, sorted_ids, expert_ids, npad, placed>>

AlignNext ==
  \/ RunManager \/ Clear \/ CountTokens \/ Scan \/ FillExpertIds
  \/ Place \/ SetCursors \/ (\E i \in Tokens : Draw(i)) \/ Retire

AlignSpec == AlignInit /\ [][AlignNext]_alignVars

----------------------------------------------------------------------------
(* Properties.                                                             *)

(* The contract of moe_align_block_size(topk_ids, BS, E, map,              *)
(* ignore_invalid_experts): the positions in use are whole blocks, each    *)
(* block names one bucket and holds only tokens mapped to it, every mapped *)
(* token stands at exactly one position, the rest is sentinel, the blocks  *)
(* past the end are None, and no bucket takes more blocks than it needs.   *)
Aligned(map, side) ==
  LET mapped == {i \in Tokens : Valid(i) /\ map[Expert(i)] # None}
      blocks == npad[side] \div BS
      at(p)  == sorted_ids[side][p]
  IN
  /\ npad[side] % BS = 0 /\ npad[side] <= L
  /\ \A p \in 0 .. L-1 : at(p) # Sentinel =>
       /\ at(p) \in mapped /\ p < npad[side]
       /\ map[Expert(at(p))] = expert_ids[side][p \div BS]
  /\ \A i \in mapped : Cardinality({p \in 0 .. L-1 : at(p) = i}) = 1
  /\ \A k \in 0 .. NB-1 : expert_ids[side][k] = None <=> k >= blocks
  /\ \A b \in Buckets[side] :
       Cardinality({k \in 0 .. blocks-1 : expert_ids[side][k] = b}) * BS
         = Padded(Cardinality({i \in mapped : map[Expert(i)] = b}))

(* "Drop-in for moe_align_block_size": when the kernel retires, both sides *)
(* are what vllm's own kernel makes of table and of map_cold, the tables   *)
(* as the manager of this very launch left them; on a read-through or a    *)
(* launch without misses too, where the two-kernel version returned early. *)
DropIn == phase = "retired" => Aligned(table, "hot") /\ Aligned(map_cold, "cold")

(* Up to NT tokens the alignment is a function of the ids and the tables:  *)
(* the tensor-parallel ranks get the same one bit for bit.                 *)
Deterministic ==
  phase = "retired" /\ MK <= NT =>
    \A side \in Sides : \A p, q \in 0 .. L-1 :
      /\ p < q /\ p \div BS = q \div BS
      /\ sorted_ids[side][q] # Sentinel
      => sorted_ids[side][p] < sorted_ids[side][q]
=============================================================================
