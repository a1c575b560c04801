------------------------------ MODULE MoeLayer ------------------------------
(***************************************************************************)
(* One split MoE layer on one rank (_apply_split): the host queues, per    *)
(* forward, the manager, the gather, the alignments, the hot and cold      *)
(* grouped GEMMs of both projections and the final sum.  Everything runs   *)
(* on the current stream except, with VLLM_R4D_HOT_SIDE_STREAM=1, the hot  *)
(* GEMMs, which run on a side stream between two wait_stream calls.  The   *)
(* host never waits, so it may be several forwards ahead of the device.    *)
(*                                                                         *)
(* A kernel that works on many rows or slabs does them one by one, in any  *)
(* order; the manager is one launch of ExpertCache.  Weights are named by  *)
(* the expert they belong to, so a GEMM that reads a slot too early or too *)
(* late computes with another expert's name.                               *)
(***************************************************************************)
EXTENDS ExpertCache, SequencesExt

CONSTANTS
  FuseMax,     (* _LRU_FUSE_MAX, 0 when _LRU_FUSE is off                    *)
  SkipEmpty,   (* _LRU_SKIP_EMPTY_COLD                                      *)
  RoutedIds,   (* the topk_ids arrays, flattened, a forward may bring       *)
  MaxRows,     (* longest of them                                           *)
  MaxForwards  (* bound: forwards the host queues                           *)

Rows    == 1 .. MaxRows
Slabs   == {"w1", "w2"}       \* each stands for a weight and its two scales
Streams == {"cur", "side"}

ASSUME LayerAssumption ==
  /\ FuseMax \in Nat /\ MaxRows \in Nat /\ SkipEmpty \in BOOLEAN
  /\ \A ids \in RoutedIds : ids \in Seq(Experts) /\ Len(ids) \in Rows

VARIABLES
  queue,   \* [stream] operations not finished yet
  events,  \* events that have been recorded
  busy,    \* streams whose head is a running kernel
  todo,    \* [stream] what that kernel has left to do
  slab,    \* [slab][slot] the expert whose weights lie there
  hot,     \* [row] slot of align_hot, or None
  cold,    \* [row] expert of align_cold, or None
  ic1,     \* [row] gate_up output: forward and expert it was computed with
  q2,      \* [row] its activation, quantised
  ic3,     \* [row] down output
  out,     \* the last layer output
  fwd,     \* forwards queued
  env      \* VLLM_R4D_HOT_SIDE_STREAM and _LRU_ON, as the process was started

cacheVars == <<table, map_cold, slot_expert, slot_stamp, step, routed, miss, n_miss>>
buffers == <<slab, hot, cold, ic1, q2, ic3, out>>
layerVars == <<cacheVars, queue, events, busy, todo, buffers, fwd, env>>

----------------------------------------------------------------------------
(* What the host queues for one forward.                                   *)

(* mtk is at most both limits: the manager leaves no routed expert cold.   *)
SkipCold(ids) ==
  SkipEmpty /\ env.lru /\ Len(ids) <= Lesser(MaxInserts, MaxDistinct)

Op(name, k, ids, f) == [op |-> name, stage |-> k, ids |-> ids, fwd |-> f]

(* _lru_step_fused, or _lru_step and the two moe_align_block_size calls;   *)
(* without the LRU the hot set stays what _build_hot made it.              *)
(* Fault: the cold alignment is queued ahead of the manager.               *)
BookkeepingEarly(ids, f) ==
  <<Op("align_cold", 0, ids, f), Op("manage", 0, ids, f), Op("gather", 0, ids, f),
    Op("align_hot", 0, ids, f)>>

Aligns(ids, f) == <<Op("align_hot", 0, ids, f), Op("align_cold", 0, ids, f)>>

Bookkeeping(ids, f) ==
  IF env.lru
    THEN IF Len(ids) <= FuseMax
           THEN <<Op("manage_align", 0, ids, f), Op("gather", 0, ids, f)>>
           ELSE <<Op("manage", 0, ids, f), Op("gather", 0, ids, f)>> \o Aligns(ids, f)
    ELSE Aligns(ids, f)

(* _gemm_split: what it puts on the current stream, and on the side.       *)
(* Fault: the current stream does not wait for the side stream. *)
SplitUnjoined(k, ids, f) ==
  <<Op("record_fork", k, ids, f), Op("cold", k, ids, f)>>

SplitOnCur(k, ids, f) ==
  IF env.side
    THEN <<Op("record_fork", k, ids, f), Op("cold", k, ids, f), Op("wait_join", k, ids, f)>>
    ELSE <<Op("hot", k, ids, f)>>
           \o (IF SkipCold(ids) THEN <<>> ELSE <<Op("cold", k, ids, f)>>)

(* Fault: the event the current stream waits for is never recorded. *)
SideUnrecorded(k, ids, f) == <<Op("wait_fork", k, ids, f), Op("hot", k, ids, f)>>

SplitOnSide(k, ids, f) ==
  IF env.side
    THEN <<Op("wait_fork", k, ids, f), Op("hot", k, ids, f), Op("record_join", k, ids, f)>>
    ELSE <<>>

OnCur(ids, f) ==
  Bookkeeping(ids, f) \o SplitOnCur(1, ids, f) \o <<Op("act_quant", 0, ids, f)>>
    \o SplitOnCur(2, ids, f) \o <<Op("moe_sum", 0, ids, f)>>

OnSide(ids, f) == SplitOnSide(1, ids, f) \o SplitOnSide(2, ids, f)

ApplySplit ==
  /\ fwd < MaxForwards
  /\ fwd' = fwd + 1
  /\ \E ids \in RoutedIds :
       queue' = [cur  |-> queue.cur \o OnCur(ids, fwd'),
                 side |-> queue.side \o OnSide(ids, fwd')]
  /\ UNCHANGED <<cacheVars, events, busy, todo, buffers, env>>

----------------------------------------------------------------------------
(* What the device does with the head of a stream.                         *)

Next1(q, name) == queue[q] # <<>> /\ Head(queue[q]).op = name
Cur(q) == Head(queue[q])
Done(q) == queue' = [queue EXCEPT ![q] = Tail(@)]

HotOf(ids, tab) ==
  [i \in Rows |-> IF i <= Len(ids) THEN tab[ids[i]] ELSE None]

(* The fused kernel sends whatever is not resident to the cold side; vllm's *)
(* own alignment buckets by map_cold.                                       *)
ColdOfTable(ids, tab) ==
  [i \in Rows |-> IF i <= Len(ids) /\ tab[ids[i]] = None THEN ids[i] ELSE None]
ColdOfMap(ids) ==
  [i \in Rows |-> IF i <= Len(ids) THEN map_cold[ids[i]] ELSE None]

Manage(q) ==
  /\ Next1(q, "manage")
  /\ Launch(Range(Cur(q).ids))
  /\ Done(q) /\ UNCHANGED <<events, busy, todo, buffers, fwd, env>>

ManageAlign(q) ==
  /\ Next1(q, "manage_align")
  /\ Launch(Range(Cur(q).ids))
  /\ hot' = HotOf(Cur(q).ids, table')
  /\ cold' = ColdOfTable(Cur(q).ids, table')
  /\ Done(q) /\ UNCHANGED <<events, busy, todo, slab, ic1, q2, ic3, out, fwd, env>>

AlignHot(q) ==
  /\ Next1(q, "align_hot")
  /\ hot' = HotOf(Cur(q).ids, table)
  /\ Done(q) /\ UNCHANGED <<cacheVars, events, busy, todo, slab, cold, ic1, q2, ic3, out, fwd, env>>

AlignCold(q) ==
  /\ Next1(q, "align_cold")
  /\ cold' = ColdOfMap(Cur(q).ids)
  /\ Done(q) /\ UNCHANGED <<cacheVars, events, busy, todo, slab, hot, ic1, q2, ic3, out, fwd, env>>

ActQuant(q) ==
  /\ Next1(q, "act_quant")
  /\ q2' = ic1
  /\ Done(q) /\ UNCHANGED <<cacheVars, events, busy, todo, slab, hot, cold, ic1, ic3, out, fwd, env>>

MoeSum(q) ==
  /\ Next1(q, "moe_sum")
  /\ out' = [fwd |-> Cur(q).fwd, ids |-> Cur(q).ids, rows |-> ic3]
  /\ Done(q) /\ UNCHANGED <<cacheVars, events, busy, todo, slab, hot, cold, ic1, q2, ic3, fwd, env>>

(* wait_stream: an event recorded on one stream, awaited on the other. *)
RecordEvent(q) ==
  /\ \E e \in {"fork", "join"} :
       /\ Next1(q, IF e = "fork" THEN "record_fork" ELSE "record_join")
       /\ events' = events \cup {<<e, Cur(q).stage, Cur(q).fwd, env>>}
  /\ Done(q) /\ UNCHANGED <<cacheVars, busy, todo, buffers, fwd, env>>

WaitEvent(q) ==
  /\ \E e \in {"fork", "join"} :
       /\ Next1(q, IF e = "fork" THEN "wait_fork" ELSE "wait_join")
       /\ <<e, Cur(q).stage, Cur(q).fwd, env>> \in events
  /\ Done(q) /\ UNCHANGED <<cacheVars, events, busy, todo, buffers, fwd, env>>

(* The kernels that work piece by piece. *)
Pieces(op) ==
  CASE op = "gather" -> (0 .. n_miss-1) \X Slabs
    [] op = "hot"    -> {i \in Rows : hot[i] # None}
    [] op = "cold"   -> {i \in Rows : cold[i] # None}

Start(q) ==
  /\ queue[q] # <<>> /\ Cur(q).op \in {"gather", "hot", "cold"} /\ q \notin busy
  /\ busy' = busy \cup {q}
  /\ todo' = [todo EXCEPT ![q] = Pieces(Cur(q).op)]
  /\ UNCHANGED <<cacheVars, queue, events, buffers, fwd, env>>

Running(q, name) == q \in busy /\ Next1(q, name)
Piece(q, x) == todo' = [todo EXCEPT ![q] = @ \ {x}] /\ UNCHANGED busy

Copy(q) ==
  /\ Running(q, "gather")
  /\ \E x \in todo[q] :
       /\ Piece(q, x)
       /\ slab' = [slab EXCEPT ![x[2]][miss[x[1]][2]] = miss[x[1]][1]]
  /\ UNCHANGED <<cacheVars, queue, events, hot, cold, ic1, q2, ic3, out, fwd, env>>

(* Row i of the first or the second GEMM, with expert e's weights. *)
ComputeRow(q, i, e) ==
  IF Cur(q).stage = 1
    THEN ic1' = [ic1 EXCEPT ![i] = <<Cur(q).fwd, e>>] /\ UNCHANGED ic3
    ELSE ic3' = [ic3 EXCEPT ![i] = <<q2[i], e>>] /\ UNCHANGED ic1

WeightsOf(q) == IF Cur(q).stage = 1 THEN slab["w1"] ELSE slab["w2"]

HotRow(q) ==
  /\ Running(q, "hot")
  /\ \E i \in todo[q] : Piece(q, i) /\ ComputeRow(q, i, WeightsOf(q)[hot[i]])
  /\ UNCHANGED <<cacheVars, queue, events, slab, hot, cold, q2, out, fwd, env>>

ColdRow(q) ==
  /\ Running(q, "cold")
  /\ \E i \in todo[q] : Piece(q, i) /\ ComputeRow(q, i, cold[i])
  /\ UNCHANGED <<cacheVars, queue, events, slab, hot, cold, q2, out, fwd, env>>

Finish(q) ==
  /\ q \in busy /\ todo[q] = {}
  /\ busy' = busy \ {q}
  /\ Done(q) /\ UNCHANGED <<cacheVars, events, todo, buffers, fwd, env>>

Device(q) ==
  \/ Manage(q) \/ ManageAlign(q) \/ AlignHot(q) \/ AlignCold(q)
  \/ ActQuant(q) \/ MoeSum(q) \/ RecordEvent(q) \/ WaitEvent(q)
  \/ Start(q) \/ Copy(q) \/ HotRow(q) \/ ColdRow(q) \/ Finish(q)

----------------------------------------------------------------------------
(* _build_hot fills the slots with the hot set before the first forward.   *)
(* Fault: the slots are allocated and left empty.                          *)
ColdSlabs == [b \in Slabs |-> [s \in Slots |-> None]]
WarmSlabs == [b \in Slabs |-> slot_expert]

(* The row buffers are torch.empty. *)
LayerInit ==
  /\ Init
  /\ queue = [q \in Streams |-> <<>>] /\ events = {}
  /\ busy = {} /\ todo = [q \in Streams |-> {}]
  /\ slab = WarmSlabs
  /\ hot = [i \in Rows |-> None] /\ cold = [i \in Rows |-> None]
  /\ ic1 = [i \in Rows |-> <<0, None>>] /\ q2 = ic1
  /\ ic3 = [i \in Rows |-> << <<0, None>>, None>>]
  /\ out = [fwd |-> 0, ids |-> <<>>, rows |-> ic3] /\ fwd = 0
  /\ env \in [side : BOOLEAN, lru : BOOLEAN]

(* The host queues nothing more. *)
HostIdle == UNCHANGED layerVars

LayerNext == ApplySplit \/ (\E q \in Streams : Device(q)) \/ HostIdle

(* The device makes progress on every stream whose head can run. *)
LayerSpec ==
  LayerInit /\ [][LayerNext]_layerVars /\ \A q \in Streams : WF_layerVars(Device(q))

----------------------------------------------------------------------------
(* Properties.                                                             *)

(* "Each (token, k) slot is in exactly one subset; the two calls fill      *)
(* disjoint rows" (_apply_split), while either GEMM of a forward runs.     *)
Partitioned ==
  \A q \in Streams :
    q \in busy /\ Cur(q).op \in {"hot", "cold"} =>
      \A i \in 1 .. Len(Cur(q).ids) : (hot[i] = None) # (cold[i] = None)

(* Every row of a forward is in one alignment while its GEMMs run; and     *)
(* what the layer returns was computed, row by row and in both             *)
(* projections, for this forward and with the weights of the expert the    *)
(* router picked: never from a slot the gather had not filled yet or had   *)
(* filled for a later forward, never an unwritten row of torch.empty, also *)
(* when the cold GEMM was skipped or the hot one ran aside.                *)
OutputRight ==
  /\ Partitioned
  /\ \A i \in 1 .. Len(out.ids) :
       out.rows[i] = << <<out.fwd, out.ids[i]>>, out.ids[i]>>

(* The two streams never end up waiting for each other: every forward the  *)
(* host has queued gets its output.                                        *)
EveryForwardServed == \A f \in 1 .. MaxForwards : fwd >= f ~> out.fwd >= f
=============================================================================
