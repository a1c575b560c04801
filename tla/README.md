# A formal model of the LRU expert cache

The repository patches vLLM so that a mixture-of-experts model larger than the
GPU decodes from host memory: every MoE layer owns `S` VRAM slots for its `E`
experts, a HIP kernel keeps the recently routed experts in the slots, and the
layer's grouped GEMM is split into a hot call (slots) and a cold call (host
memory over PCIe).  Around it stand a captured-routing tool, offline simulators
that size the cache, tensor-parallel draft and target heads, fused row
kernels, a number of memoised tensors in the decode graph, and benchmarks.

This directory holds TLA+ models of those parts, TLC configurations that check
them on small instances, and TLAPS proofs, for every size, of the main properties
of the cache, of its kernel and the serial one before it, of the collectives and
the alignments, of the layer that uses them, of the hot sets it starts from and of
the simulator that sizes it; of the heads' vote and weights, GEMM launches, row
kernels and memos; of routing capture, the cut of a capture into generations, the
prefetch study and the benchmark's windows.  Paths below are relative to `src/`.

Run one check with `tlc -config MCX.cfg MCX` (module and configuration of every
run are in `PROJECT.json`), one proof module with `tlapm M.tla`.

## 1. Inventory

| component | state | operations | talks to |
|---|---|---|---|
| **LRU manager** `kernels/lru/r4d_lru.hip` `lru_manage_k` | `table`, `map_cold`, `slot_expert`, `slot_stamp`, `step`, `routed`, `miss`, `n_miss` on the device | one launch per layer per forward: read through, refresh, insert with eviction | reads the router's ids; writes what gather, alignments and GEMMs read |
| **Block collectives** `blkSum`, `blkMin`, `blkExScan`, `blkExScan2` | one shared array | reduction or scan by the whole workgroup | called several times in a row by the two kernels |
| **Gather** `lru_gather_k` | the slots' weight and scale slabs | copies the listed experts host to VRAM | `miss`, `n_miss` |
| **Fused manager and alignment** `lru_fused_k` | `sorted_ids`, `expert_ids`, `npad`, shared counters | manager, then both `moe_align_block_size` results | replaces the manager and two vLLM kernels |
| **MoE layer forward** `r4d_mxfp4_moe.py.lru.diff` `_apply_split` | two streams, row buffers `ic1`, `q2`, `ic3` | queue the bookkeeping, hot and cold GEMMs, activation, sum | all of the above; the side stream by `wait_stream` |
| **Hot set construction** `build_hot_profile.py`, `_hot_sets`, `_build_hot`, `_build_lru` | profile, slots, tables, warm stamps | once, in the profile forward | routing counts; leaves the manager's initial state |
| **Head selection and vote** `mtp.py.diff`, `model.py.diff`, `fp8_target_lmhead.py` | packed heads, "decided" flags per rank | vote by all-reduce, local argmax, (value, index) reduction; an exception | the other tensor-parallel ranks |
| **Routing capture** `tools/routecap/routecap.py` | device counter, labels and ring; host trace | graph kernels label and store, `flush` copies, appends and replaces the file, a dumper thread | decode graph, dumper thread |
| **Kernel-faithful simulator** `slot_alloc.py` `KernelLRU` | dict expert to stamp | one step | captured trace, hot set |
| **Distances and allocation** `slot_alloc.py` | Fenwick tree, histogram, capacities, a heap | `miss_hist`, `misses_at`, `alloc_optimal`, `alloc_equal`, `alloc_demand` | the simulator it is compared with |
| **Locality simulator** `locality_sim.py` | LRU orders, LFU scores and heap, Belady's residents, `_NEXTS` | one step of seven policies, `replay` over generations and over merged ones | captured trace, profile |
| **Prefetch study** `mtp_prefetch.py` | LRU orders, last use, co-occurrence counts, hits per predictor | score four predictors on each miss | captured trace, profile |
| **Row kernels** `fused_gate_mul.py`, `fused_silu_mul_quant.py`, `qwen2_moe.py.diff` | outputs only | choose mode and kernel, one program per row | the shared expert's tail, the activation between the two GEMMs |
| **Concurrency benchmark** `concurrent_bench.py` | results by label, a barrier, sampled rows | start streams, release them at once, sample, join, attribute steps to windows | the server's metrics |
| **Memo caches** `cos_sin_halves`, `_weight_for`, `fp8_quant_shared` | one remembered tensor each | look up, build, keep or not | eager forwards and graph captures |
| **Head weights** `draft_w4_lmhead.py`, `fp8_target_lmhead.py` | packed nibbles, scales, fp8 tiles | pack once, in chunks; narrow, wide and fp8 calls | the library's kernels |
| **GEMM launches** `draft_w4_lmhead.py`, `utils.py.diff`, `fp8hip.py.diff`, `hcq_fp8skinny.hip` | a handle and `MAX_M` per library, bound once | pick a configuration, launch or fall back | environment overrides; launchers that throw |
| Quantiser and GEMM arithmetic, offload of modules, scripts, other benches | none that outlives a call | arithmetic, installation, measurement | |

Hard behaviours, and where they live:

* *interleaving and atomicity*: threads between barriers in both kernels and in
  the collectives; two streams over shared slots and row buffers, a host that is
  forwards ahead of the device; the ring read while the graph writes it; ranks
  that meet only in collectives.
* *ordering and protocol*: hits are stamped before victims are ranked; tables are
  rewritten before both alignments read them; the trace must come out in order
  of steps although the ring wraps; any sequence of evictions and returns keeps
  the tables inverse and complementary.
* *resource limits*: fewer evictable slots than misses, more misses than the
  list holds, buckets padded to whole blocks in buffers sized by another
  formula, a ring that laps.
* *stale state*: `miss` past `n_miss`, outputs that survive graph replays,
  `torch.empty` rows, lazily deleted heap entries, tensors memoised by identity.
* *agreement of two descriptions*: layers in the order of their names and of their
  numbers, packing and unpacking, a check in Python and the contract of the
  launcher behind it.
* *liveness*: the `break` inside a loop with barriers, the fork and join events,
  a collective that one rank might skip, a barrier sized for one party too many.
* *crash and partial failure*: a dump that cannot be written or a worker that
  dies inside one; a rank that raises between two collectives.

Nothing of the cache is persisted, and a crashed worker is restarted from
scratch by the launcher, so for the cache there is no crash recovery to model.
The trace file of `routecap` is the only thing a crash leaves behind.

What makes each part correct is stated next to the module in section 2;
`PROJECT.json` lists every hazard at its line with the property that would catch
it.

## 2. Modules

### The cache: `Ranking`, `ExpertCache`, `PreVictim`, `LruContract`

`LruContract` is the promise, by expert: a full set of residents, each with the
time of its last use; a request is read through or brings in as many of the
missing as cap and unrouted residents allow, at the expense of the least
recently used that were not asked for.  It knows nothing of slots, of the miss
list or of ties.

`ExpertCache` is one launch as one step, over the kernel's own arrays.
`Begin` is lines 206-220, `ReadThrough` 222-226, `Refresh` 228-243 (hits stamped,
no insert), `Insert` the rest: the `j`-th missing expert by id goes to the slot
with the `j`-th smallest key `(stamp << 20) | slot` among the slots that hold no
routed expert.  `miss` keeps its old content past what the launch wrote, because
the kernel does.  `Init` is what `_build_hot` and `_build_lru` leave: any hot set
in ascending order of ids, stamps all zero (no profile) or a permutation of
`1..S`, the clock at `S`.  The assumptions are the code's own checks: `0 < S < E`
(`_build_hot` otherwise keeps the single call), `S <= 1024` (the launcher),
`MaxInserts <= S` (`cap = min(_LRU_MAX_INSERTS, S)`).

`PreVictim` is the insert loop of the kernel this one replaced
(`r4d_lru_pre_victim.hip`): look for the minimum, install, look again, as a
recursive function of the round (`Rounds`, from `LoopStart`).  A step property
holds the two against each other launch by launch.

Properties: `CacheInv` (tables complementary and inverse, no hole, no stamp in
the future), `KeepsRouted`, `MissListExact`, `FewAreAllResident`, `ImplementsLru`,
`SerialAgrees`.

### The kernel: `ManageKernel`, `BlockReduce`

`ManageKernel` opens a launch up into threads and intervals between
`__syncthreads()`.  An action is one thread's work of one interval; threads run
in any order; the closing barrier is an action of its own, with the block
reductions taken as one collective result.  `log` records which location each
thread read or wrote in the interval, so that `RaceFree` can say that no two
threads meet there (setting the same `routed` flag twice is allowed).  Both
victim paths are modelled, the serial argmin with its `break` and the batched
rank with the first hole of `s_vic`.  A refinement mapping shows that each
retired launch is one step of `ExpertCache`; together with section 4 that makes
the thread-level kernel an implementation of `LruContract`.

`BlockReduce` is what `ManageKernel` assumes: halving and doubling loops with a
barrier per round, and the two-level chunked scan, several calls in a row over
one shared array, threads in any order.

### The layer: `MoeLayer`

`ApplySplit` queues a forward on one or two streams; `Device(q)` runs the head of
a stream.  The manager is `ExpertCache`'s `Launch`; the gather copies pair by
pair and slab by slab; the GEMMs compute row by row in any order, reading the
slot as it is at that moment.  A weight is named by the expert it belongs to, so
reading a slot early or late shows in the output.  `env` is the process's
configuration: side stream or not, LRU or static hot set.  The host may be
`MaxForwards` ahead.  Properties: `OutputRight` (each
row written once, by the weights of its expert), `EveryForwardServed`.

### The fused kernel: `FusedAlign`

Phase 0 is `ExpertCache`'s launch; phases 1-5 are `Clear`, `CountTokens`, `Scan`,
`FillExpertIds` and `Place` (up to `NT` tokens) or `SetCursors` and `Draw` (atomic
cursors, threads interleaved).  `Aligned` is the contract of
`moe_align_block_size` as the code uses it; `DropIn` says both outputs meet it
for the tables this launch left, replay after replay over dirty buffers.

### The heads: `HeadVote`

Each rank runs the same calls at its own pace.  A collective is paired by
position, whatever it is for, and a guard may come out either way on any rank.
The guards' and GEMMs' numerics are a fixed offset per head, enough to make a
mixed vote choose the wrong shard.  `Raise` is an exception in a guard that the
code does not catch: the rank is gone, and the others wait in the collective
until somebody ends them.  Properties: `SameVerdict`, `TopIsBest`,
`EveryCallAnswered` (unless a rank died).

### Routing capture: `RouteCap`

The graph's counter, label and per-layer stores are one action each; `flush` is
an action per statement, with the copies of labels and ids slot by slot, and the
write as opening the temporary file, filling it and replacing.  `FailWrite` is
the exception `_dumper` swallows, `Crash` the end of the worker at any point.
Rows that `_make_fn` rejects (prefill) never reach the ring and take no step.
Properties: `NothingHalfWritten`, `StepsIncrease`, `FlushTakesAll`,
`SnapshotOnDisk`; `SavedIdsAreTheSteps` and `LostIsExact` fail (section 5).

### The studies: `RouteTrace`, `KernelLRU`, `LocalitySim`, `MergedReplay`, `SlotAlloc`, `Studies`

`RouteTrace` is a layer's trace and profile.  `KernelLRU` is the simulator's step,
its insert loop round by round, held against `LruContract` (alone as `SimSpec`).  `LocalitySim` has every policy of `locality_sim.py`
(static, LRU cold and warm, hybrid, LFU with its lazy heap, Belady) and the batch
LRU of `mtp_prefetch.py`, with `replay`'s reset and carry.  `SlotAlloc` has
`miss_hist` with its Fenwick tree, `misses_at`, `alloc_optimal`'s hull and heap,
`alloc_equal` and `alloc_demand` with their clamps, next to a replay at every
capacity; `AllocOptimal` holds the greedy split against every other, the two
rivals included.  `MergedReplay` is the concurrency section of `locality_sim`'s
`main`: groups of B generations merged step by step, lists allocated and freed
as `main` rebinds its variable, Belady's next uses kept under a list's address.
`Studies` runs all of it over one trace, as the two `main`s do.

### Memoised tensors: `DecodeMemos`

The split rope cache and the norm's `(1 + w)`, looked up eagerly and under
capture, and the one-entry quantisation slot.  Allocator, capture and replay are
modelled from how the code uses them; a freed address may be given to the next
activation, which is what an identity key has to survive.  Properties:
`PoolStaysPrivate`, `BakedStayLive`, `QuantIsOfX`.

### The row kernels: `RowKernels`

The shared expert's tail in its three modes and the silu-multiply-quantise
kernel.  A tensor is a layout of rows, columns and strides over memory; a program
per row touches the addresses the kernel computes, which are right only for the
layouts that `supported` admits.  Silu is a table and rounding goes to the next
value that the storage dtype has.  `FusedIsStock` says that what is in memory is
what the unfused path gives, and that no program strayed outside its tensors.

### The prefetch study: `Prefetch`

One round of the loop over steps and layers is an action: the four predictors
pick from what they know, are scored on the misses, and only then the tables and
the cache move on.  `ScoresAreFair` says that what a predictor names for a step
would have been the same in any capture with the same past
(`PicksAreCausal`), and that none catches more than the oracle, which with a name
for each row covers every miss (`OracleIsABound`).  The ages of the misses are kept
one by one; the script adds up those beyond 8 into classes before it prints them.

### The benchmark: `ConcurrentBench`

`run_one`, the stream threads, the sampler and an engine, which is modelled from
how the script reads its metrics.  A row says whether the clock went on since
the row before, for `engine_steps` drops a window in which it did not
(`Windows`).  `SteadyIsExact` relates the windows that are kept, and those that
are dropped, to the steps the engine ran with all streams in it;
`EveryRunEnds` is about the barrier, the labels and the order of the joins.

### Ahead of the first step: `GemmLaunch`, `HeadWeights`, `HotSets`, `TraceLoad`

Four components that share no state.  `MCParts` composes them with `RowKernels`,
`DecodeMemos`, `RouteCap` and `Prefetch`, and a behaviour follows one of them;
`MCRendezvous` does the same for `BlockReduce`, `HeadVote` and `ConcurrentBench`, and
`MCMoeLayer` for `MoeLayer` and `FusedAlign` over one `ExpertCache`.

`GemmLaunch` has the three libraries, each bound at its first use (a missing
symbol may be found after `MAX_M` was read), and a call of each kind.
`PickCfg`, `Bf16Cfg` and `HcqCfg` choose the launch; `W4Call`, `ServeBf16` and
`Refused` are the checks in front of the launcher.  `NothingThrows` states the
contract once more in its own terms, and what is left of it for the fp8 kernel
when its bound is overridden (finding 6).  Whether vLLM's own branches take a call
first is nondeterministic (`Served("stock", ..)`).

`HeadWeights` names a weight by row and position.  `PackChunk` and `PackFp8Chunk`
are one round of the packing loops, `Nibble` the two views and the permutation of
`_pack_codes`; `Unpacked` and `Slice` are `unpack_w4`.  The kernel is not in the
repository: `KernelColumn` reads the layout the module's docstring gives.
`LogitsAreOfTheirRows` says that the narrow, the wide and the fp8 path give every
column from its own row.

`HotSets` is `build_hot_profile.py`, `_hot_sets`, `_build_hot` and `_build_lru` over
several layers, of at most 1024 experts as the fused kernel's launcher demands.
Shares are compared as fractions of integers.  `WarmStart` says
that each layer's tables are an initial state of `ExpertCache` (by INSTANCE), hold
the layer's own most routed experts and give up the least routed first;
`StudiesSizeTheServer` compares with `capacities`.

`TraceLoad` is `load_traces`: sort (by the rank of a step's number), the most
frequent width, one round of the scan per action, labels.  `GenerationsAreMaximal`
gives the cut by quantifiers, over widths in the order of their steps.

## 3. Runs

| run | instance | what it shows |
|---|---|---|
| `cache` | 5 experts, 3 slots, wide above 4, 2 inserts, 3 launches | the six cache properties from every warm start |
| `kernel` | 4 experts, 2 slots, 3 threads, serial up to 1 insert, clock up to 4: 2 launches | no race, refinement of `ExpertCache`, every launch retires |
| `layer` | forwards: 4 experts, 2 slots, 1 insert, 1, 2 and 3 rows, 2 in flight; alignments: the same cache, 3 threads, blocks of 2, 2 replays | right weights for every row, no wait for ever; drop-in for `moe_align_block_size`, within the buffers, deterministic where promised |
| `rendezvous` | 4 threads, 2 collectives in a row; 2 ranks, 3 calls, eager or captured; 2 streams of one prompt, 4 steps each, 3 samples | results right, same head, best token, steady windows count the engine's steps, every wait ends |
| `studies` | 4 experts, traces of 3 steps cut in every way, two other layers, budgets 3, 5, 9 | all policies, curves and the split |
| `parts` | see below | the parts beside the cache, each on its own |
| `routecap_lapped`, `routecap_lost` | ring of 3 | findings 1 and 3 |
| `studies_curve`, `studies_warm`, `studies_merged` | as `studies`; merged: 4 steps of one expert, 3 addresses | findings 2, 4 and 5 |
| `parts_refused` | as `parts` | finding 6 |

What `parts` covers: launches under overrides of every kind, 8 shapes, 9 token
counts around the limits; heads of 1 to 256 rows; row kernels on tails of up to 3
rows in every layout the guard has to tell apart; 3 layers of 3 experts at
budgets 2 to 7; 2 graphs, 2 addresses, 4 tensors for the memos; a ring of 2, 5
steps, 2 dumps; captures of 5 steps; prefetch over 2 layers, 4 experts, 4 steps.

Why these bounds are enough to be interesting:

* `cache`: `S = 3`, `E = 5` is the least instance in which a launch can have two
  hits and two misses (one evictable slot for two inserts: the pool runs dry),
  more misses than the cap, ties among equal stamps, and an expert evicted and
  brought back; three launches see an eviction of an expert that came in by
  eviction.  `MaxSteps` only bounds the length; the proofs of section 4 have no
  bound.
* `kernel`: with 3 threads and 4 experts the chunks are 2, 2 and 0 wide, so one
  thread has an empty chunk; `NSER = 1` puts one insert on the serial path and
  two on the batched one.  The ids include padding below 0 and past `E`, and a
  duplicate.
* `layer`: with one insert a forward of two missing experts leaves one cold; a
  forward of one row may skip the cold GEMM and runs the fused kernel
  (`FuseMax = 1`), one of three is read through.  Two forwards in flight are
  enough for one to overwrite what the other reads.
* `layer`, the alignments: three routing slots go through `Place`, four exceed the three threads
  and go through the cursors; the second replay meets the first one's outputs.
* `rendezvous`: the second collective meets the array the first one left; three
  calls are a decision for each head and a call after both, the padding row holds
  the largest value.
* `rendezvous`, the benchmark: requests of four steps let both streams be
  published as running three times, whenever they were admitted; three samples then
  take two steady windows, or one of two steps, or miss one end.  Two streams of one
  prompt have the same label but for the index.
* `parts`, routing capture: five steps lap a ring of two twice, and the second dump
  follows one that failed or was cut short at each of its statements.
* `studies`: a trace of three steps has a reuse within and across a generation;
  one step is wider than the cache; the second layer's histogram once has a
  late, non-concave rise.
* `parts`, the others: overrides that fit one K and not another, that do not parse, and that
  overrun the LDS; a `VLLM_HC_FP8SK_MAX_M` at the kernel's bound and one beyond it;
  token counts on both sides of 16, 48 (the bound the library reports, below the 64 of
  the source) and 64; heads with a padded tile, slices of
  24 rows that start inside a tile, chunks of two tiles.  Routings are steep, even,
  tied and with an expert never routed; the file has the layers as 0, 2, 1; the
  layer after them has no profile entry (the draft model's).  Captures have every
  width at every place, saved from any turn of the ring.  Tails have rows that
  touch, rows with a gap and columns; activations have values whose product is
  rounded, a row of zeros, and one at the clamp.  In the prefetch captures the
  second layer follows the first, or half of it, or not.

`MaxSteps`, `MaxStep`, `MaxForwards`, `MaxCalls`, `MaxReductions`, `MaxDumps`,
`MaxBuilt`, `MaxMoves`, `MaxSamples`, `NSteps` and `T` are bounds of the models, not
of the code; `BlockSizes` stands for the powers of two, as far as the tensors need them.  Each bounded model ends in a
named stutter (`Stopped`, `Quiet`, `HostIdle`, `Finished`, `BenchEnded`), so deadlock is checked
everywhere but in `parts`, some of whose jobs are done when nothing is left to do.

*Fairness.*  `kernel` and the collectives: weak fairness of every thread, of the
barrier and of retirement; the waves of a resident workgroup are all scheduled.  `layer`:
weak fairness of each stream: a queued operation whose predecessor has retired
and whose event is recorded runs.  Nothing is assumed of the host: it may stop
queueing at any time.  The heads: weak fairness of each rank and of a collective that
all ranks have entered; new calls need not come, and nothing forces or prevents
an exception.  The benchmark: weak fairness of each thread, of a barrier whose
parties have all arrived and of the engine; a request may fail, and the property
says what the run then does.  No run needs strong fairness.
The other runs state safety only and assume none.

Every property of a passing run has at least one fault (an operator with a
comment `fault`) that, put in the place of the definition it is written above,
makes that run fail: a dropped guard, a missing reset, a barrier too few, an
inclusive bound.  They are listed as `mutants` in `PROJECT.json`.

## 4. Proofs

The theorems about the cache hold for every `E`, `S`, `MaxDistinct`, `MaxInserts`
that satisfy `CacheAssumption` (section 2), with no bound on the number of
launches; those about the kernel for every number of threads and serial limit
besides, under `KernelAssumption`; those about the collectives for every power of
two of threads and every number of chunks that divides it; those about the fused
kernel for every block size, number of threads and list of ids, in range or not;
those about the layer for every set of routings, every `FuseMax`, `MaxRows` and
number of forwards in flight; those about the vote for every `TP`, shard size,
padding and bound on calls; those about routing capture for every ring, number of
layers and of dumps, under `Alone` below.  What the others assume:

* `MemoAssumption`: the marks for "nothing" and "eager" are none of the things they
  stand beside.
* `LaunchAssumption`: the library reports a limit of 1 to 64 tokens; any setting may
  be any integer, `VLLM_HC_FP8SK_MAX_M` included, any override any sequence of them.
* `WeightAssumption`: the width is a multiple of the scale group, and a chunk of fp8
  rows whole tiles of 128, as the code asserts and sets; any vocabulary, any
  number of tiles in a chunk.
* `RowAssumption`: layouts are of natural numbers, an activation has two columns at
  least, there is a block as wide as any row, and silu has a value for what the
  input holds.
* `HotAssumption`: a layer has 1 to 1024 experts and is in the file once, each with
  a routing; any budget, any order of the file.
* `CaptureAssumption`, `BenchAssumption`: at least one step, stream, prompt and token.
* `SimAssumption`, `TraceAssumption`: `0 < S < E`, a read-through limit of 1 to `S`,
  steps that route something and a profile that ranks every expert; any trace.
* `PrefetchAssumption`: for each layer, a profile that ranks every expert and as many
  slots as the split gave it, none or all included; rows that route experts of the
  layer, padding removed; any capture, any budgets.

* `RankingProofs`: ranks over a finite set with distinct integer keys are a
  bijection onto `0 .. n-1`, monotone in the key; `Nth` is its inverse; the first
  `n` have cardinality `n`.  Then what counting needs an induction for: the size of
  a union of disjoint sets is the sum of the sizes (`SumOfSizes`, the kernel's chunk
  counts and their prefix sums), and sums over disjoint sets add up (`SumOfBoth`), by
  induction over the subsets of a finite set (`SubsetInduction`) from induction over numbers (`NatSetInduction`).  The property
  is given as the set of what has it, so that no theorem takes an operator as its
  parameter; the ground is the library's `WFMin` on the naturals.
* `ExpertCacheProofs`
  * `CacheInvariant`: `Spec => []CacheInv`.
  * `RoutedStay`, `MissListIsExact`, `FewAreResident`: the three action properties,
    each from `CacheInv` and one step.
  * `CacheImplementsLru`: `Spec => ImplementsLru`, every behaviour of the cache is
    one of `LruContract` under the mapping by expert.
  * `SerialIsTheSame`: `Spec => SerialAgrees`, the kernel before this one leaves the
    same tables, stamps and list, launch by launch.
* `ManageKernelProofs`
  * `KernelInvariant`: `Spec => []IInv`.
  * `NoRaces`: `Spec => []RaceFree`.
  * `LaunchIsAtomic`: `Spec => ImplementsCache`, whatever order the threads run in.
  * `KernelIsLru`: with `CacheImplementsLru`, the thread-level kernel implements
    `LruContract`.
* `KernelProofs`
  * `CollectivesAreRight`: `ReduceSpec => []ResultRight`.
  * `LaunchesAreLegal`: `LaunchSpec => []NothingThrows`, under every override; what
    the fp8 kernel may still be refused is finding 6.
  * `LogitsAreRight`: `WeightSpec => []LogitsAreOfTheirRows`, packed in any chunks.
  * `RowsAreStock`: `RowSpec => []FusedIsStock`, whatever layouts the guards admit.
* `FusedAlignProofs`
  * `AlignmentsDropIn`: `AlignSpec => []DropIn`.
  * `AlignmentIsDeterministic`: `AlignSpec => []Deterministic`.
* `MoeLayerProofs`
  * `RightWeights`: `LayerSpec => []OutputRight`.
* `HostProofs`
  * `TypeCorrect`: `Spec => []TypeOK` for `HeadVote`.
  * `OneVerdict`: `Spec => []SameVerdict`, for any number of ranks.
  * `TokenIsBest`: `Spec => []TopIsBest`, for any shards and padding.
  * `WindowsAreExact`: `BenchSpec => []SteadyIsExact`, for any number of streams.
  * `SimulatorIsLru`: `SimSpec => SimulatesLru`, the simulator keeps `LruContract`.
* `PartsProofs`, routing capture, each under `Alone`
  * `NoRowIsHalfWritten`, `StepsComeInOrder`, `FlushIsComplete`: the trace in the
    host's memory.
  * `DiskIsASnapshot`: the file, through failed writes and crashes.
* `PartsProofs`, the memos
  * `PoolsStayPrivate`, `BakedStay`: the two memos under capture.
  * `QuantsAreRight`: the one-entry slot.
* `PartsProofs`, what is prepared ahead
  * `StartsAreWarm`: `HotSpec => []WarmStart`, what is built for a layer is an initial
    state of `ExpertCache`, so that the cache's theorems apply to it.
  * `StudiesSizeAlike`: `HotSpec => []StudiesSizeTheServer`, up to one tied share.
  * `GenerationsAreRuns`: `LoadSpec => []GenerationsAreMaximal`.
* `PartsProofs`, the prefetch study
  * `ScoresFair`: `PrefetchSpec => []ScoresAreFair`.

*The cache.*  The inductive invariant is `CacheInv` itself, and no conjunct can be
left out.  An insert clears the table entry of the expert it displaces; that this
is the only entry naming the slot needs `TableInverse`, and that the displaced
expert exists at all needs `AlwaysFull`.  That it is not one of the experts just
inserted needs `Evictable`'s guard and `TableInverse` together.  `Complementary`
lets hits and misses be told by `table` alone.  `TypeOK` makes the keys
distinct: with slots below 1024 and a stamp in the high bits
(`KeyArithmetic`, `KeysDistinct`) the ranking lemmas apply, and the pairing of
misses and victims is one to one (`Pairing`).  `FewAreResident` needs a count:
the routed residents and the slots that hold them are equinumerous
(`EnoughVictims`), so there are evictable slots for all misses.

*The serial kernel.*  Each round of the older loop looks for the smallest key left,
which is the next of the ranking, because a slot that was filled holds a routed
expert and is not open again (`OpenAfter`, `FoundIsNext`); when none is open the
ranking has none left either (`RoundIsIdle`).  So the rounds run through
`After(R, 0)`, `After(R, 1)`, ... and stay at the last, which is the launch
(`RoundsAreAfter`).  That the recursive function has a value at every round is
shown by induction over numbers.

*The kernel.*  What a launch will compute is fixed when it starts, by the cache it
finds and by `topk_ids`: `Plan` is that outcome in the terms of `ExpertCache`, and
`PlanFacts` collects what the cache's own proof says of it.  The invariant has one
formula per interval between two barriers (`AtPhase`): which part of the plan the
threads in `ran` have carried out, and that the rest of memory is as the previous
interval left it.  A thread's action adds its share (`MarkStep`, `ListStep`,
`RankStep`, ...); the barrier, with every thread in `ran`, turns the shares into the
whole (`CountBarrier`, `HitsBarrier`, ...), which is where the chunks have to
partition the experts (`ChunksPartition`) and a chunk's prefix sum has to be the
rank of its first miss (`PlaceIsRank`).  The two victim paths meet in one
statement: after `i` rounds the first `i` pairs of the plan are installed.  On the
serial path the minimum of what is not parked yet is the next victim of the ranking
(`BestIsNext`), on the batched one a slot's count of smaller keys is its rank
(`RankOfVictim`).  Each interval's formula also says what the threads in `ran` may
have logged, and `NoRaces` follows from that alone: in every interval what one
thread writes is apart from what any other reads or writes (`Separate`), but for
the flags of `mark`, all set to the same value.  `LaunchIsAtomic` maps a launch to
the step of `Retire`; every other step is a stutter, because the mapping takes the
memory of the last retired launch (`settled`).

`KernelAssumption` adds to the cache's assumptions that there is a thread, that
every launch has an id in range (a row is routed to at least one expert) and that no
key reaches the value of a parked slot: `(MaxStep + 1) * SlotBase <= Parked`.  In the
code that is `LLONG_MAX` and a shift by 20, so the clock may count 2^43 - 1
launches, and `MaxStep` is any number up to there.

*The collectives.*  The kernel's proof takes a block reduction as one result, and
`CollectivesAreRight` is why it may, for any power of two of threads (the code has
256).  In a halving loop `Live` is the set of elements not yet folded into another;
a fold takes one element out of it and leaves the sum over it, or its least member,
as it was (`FoldSum`, `FoldLeast`), so the threads' order does not matter.  That
nothing is left over when the distance reaches 0 is where the power of two comes
in (`Halves`).  In the scan an element holds the sum of a window of operands, and the
partner read before the barrier is the window next to it (`WiderWindow`); if the
partner is read after the barrier the proof stops there.  In the chunked scan
the totals of the chunks before `c` add up to all operands before it
(`ChunksAddUp`).  What the call before left in shared memory never enters: `AtPut`
says nothing of it.

*Launches.*  A launcher takes its configuration for its word, so there is one lemma
for each way to come by one: the override that parses and fits, the heuristic, its
last resort, the fp8 table.  Each puts threads, LDS and the split of K within what
the launcher checks (`Accepted`, `Skinnable`).  The invariant is one fact besides:
a handle that is bound had its token limit read from the library (`BoundRead`).

*The heads' weights.*  Tiles are packed in order, and a tile is where its number says
whatever the chunks (`TilesPacked`).  Reading in the kernel's order undoes the
packing: the bits of a position are taken apart by one side and put together again
by the other (`WhereItLies`), so a column is computed from the row of its number.

*The row kernels.*  The programs share nothing but the tensors, and rows that are `N`
apart do not overlap in `N` addresses (`AddressesDiffer`), hence what one stored
stays.  The kernels take a stride for the rows and the rest on trust; each guard
has to promise what is taken for granted (`TailLayouts`, `SiluShape`).  The copy
that `empty_like` makes has rows `N` apart even where it keeps the strides of its
input (`CopyIsPacked`).  The scale is no less than any value of its row, and
therefore the clamp does nothing.

*The alignments.*  `DropIn` is about the last phase and its invariant about what every
phase finds (`AlignIInv`).  Once the scan is done, the first positions of the
buckets climb by one padded count a bucket (`Climbing`, from the sum lemmas), so
that each position, and each block, is of one bucket (`StairsCover`, `StairsApart`,
`WholeBlocks`).  That all of it fits into the buffers of vllm's wrapper takes two
bounds on the top of the stairs, one for each branch of `L` (`Positions`).  The two
placements meet in `Laid`: the tokens placed so far stand in the first positions of
their buckets, each at one.  A draw extends a bucket's run by one (`DrawLays`),
whoever draws next; `Place` puts all there at once, by rank (`PositionOf`).  The
invariant of the cache enters twice: `TypeOK` makes a slot a bucket, and
`Complementary` makes the single counting pass right for both sides
(`RetiredIsDropIn`).  Ids out of range belong nowhere and are placed nowhere.

*The layer.*  `OutputRight` says nothing of queues, events and slots, and all of its
difficulty lies there.  The two queues are what is left of one program, with each
operation's successor given by `Succeeds` and `SucceedsAside` (`QueuesOK`), so the
heads of the queues say where the streams are.  `Lag` says where they can be with
respect to each other: the side stream runs the hot GEMM of a projection while the
current stream is at the cold one or waits for the join, and at no other time.  It
is kept because an event that has been recorded lies behind the head of its stream
(`Recorded`), so a wait that passes finds the other stream past the record.  On
top of that stands what has been computed at each place (`Computed`): every slab
holds the expert of its slot or the running gather still has it to copy
(`SlabsFollow`, from the cache's miss list); rows are aligned to one side each; a row
that a GEMM has done carries this forward's value of its expert (`RowsOfFirst`,
`RowsOfSecond`); and where the cold GEMM is skipped no row is cold
(`SkippedIsEmpty`, by `StepFewAreAllResident`).  The next launch cannot overwrite a
slot that is still read, since its place comes after the last join.  With and
without the side stream and the LRU, one invariant covers all four configurations;
in a static hot set the launch is simply never queued.

*The vote.*  `SameVerdict` is not inductive: two ranks may differ for a while, when
one has settled and the other has not.  `IInv` adds why that is all: the reduction
at the end of each call keeps the ranks within one call of each other
(`Lockstep`), so the same calls take all of them into the vote or none
(`InVote`); between the all-reduce and the last verdict every rank is present and
those that have decided took the verdict of all the votes (`Settled`); any other
difference is excluded (`Agreed`).  That a sum equal to `TP` means that every rank
voted for it (`Unanimity`) is the one step that counts.  It is here that an early
return of a guard would break the argument: a rank past the all-reduce without
the others.  A rank that raised counts as one that is still at its guards: it
never votes, so the others never get past the all-reduce.

*The token.*  A rank that waits in the gather offers the best of its unmasked rows
for this call, in the scale of the head it settled on (`Offered`).  When all are
there they are in the same call (`Lockstep`) and on the same head (`AllAgree`), so
the offsets that tell the heads' scales apart cancel in the comparison, and the
largest of the offers is the largest of all rows, because every row that is not
padding is an unmasked row of some shard (`RealRows`).  With one rank there is no
vote and no gather, and the same is carried by `Alone`.

*Routing capture.*  Nobody stops the graph while `flush` copies, so no conjunct can
say that a copy equals the ring.  What holds is one-sided, and everything on the
device only grows: a slot's label is the last step that claimed it, and its ids
are at least as recent (`Stored`, `Labelled`).  What was read is therefore never
ahead of the device, and the newest slot, the only one whose step may still be
storing, is the one that `flush` leaves out (`Read`, `Complete`).  Slots are
visited from the oldest label on, so that what is taken exceeds what was saved
(`Taken`, `Ordered`), and every step up to the mark was saved or had made room in
the ring (`Below`, `InFront`).  `Alone` says that at
most one thread calls `flush`, which is the dumper of the tool's own setup.  The
code has no lock, and a `flush` by RPC beside the dumper is outside the theorem
(section 5).

*The memos.*  A tensor built under capture is baked into that graph and goes
nowhere else; one that a graph reads from outside its pool is the memo's own, and
the memo is only rebuilt when its source has moved, which happens before the first
capture.  For the slot, the code's comparison is of identities, and the address of
a dead tensor may come back: the slot's strong reference keeps the address out of
the allocator's hands while the slot names it (`SlotIsOf`), and the slot answers
only for the tensor it was filled for in the call before (`Between`).

*The hot sets.*  `argsort(-c)` is the order of a key that tells experts apart, so a
row of the file ranks its layer with each expert once (`ProfileRanks`).  Shares are
fractions with positive denominators, hence the pairs are in a strict total order
(`AheadOrders`), what the budget pays for is closed upwards in it
(`KeptFromTheTop`), and a layer's part of it is its hottest experts
(`SplitIsHottest`).  The stamps reverse the places in the ranking, one to a slot
(`StampsFollowRanks`): that is the initial state the cache asks for.  The server
and the studies order pairs of equal share differently; as many are ahead of the
cut in both (`SplitAddsUp`), and a pair that one keeps and the other does not is
on one side of either last pair, so its share is theirs (`TieAtTheCut`).

*Generations.*  Whatever slot the ring was saved from, the step numbers are 0 to
`N - 1`, so a step's rank is its number (`RankIsNumber`).  The run the scan is in
cannot be longer to the left (`InRun`); when it ends it is maximal, and a maximal
run that ends there can be no other (`EndsHere`).  The runs found are those that
end before the scan (`Found`), which goes one step past the last.

*The benchmark.*  A stream posts once.  When the engine publishes that all `B` run,
none waits and none will again (`AllIn`); from then on there are only fewer, and
what is published is never less than what runs (`Published`).  If `B` are published
a second time, each step between added `B` drafts (`Exact`).

*The simulator.*  What was taken in so far is routed, so while an expert is missing
an unrouted one is there to go (`RoundServes`), it is the oldest, and what went
before was older still (`Served`).  When the loop ends as many went as came, which
is the contract's step (`NarrowStepServes`).

*The prefetch study.*  A predictor reads the steps before this one, the layer before
and the first half, none of which `Blank` touches, and only what is past the half is
scored (`PicksReadThePast`).  The oracle names misses and nothing else, as many as
the budget lets it (`OraclePicks`); another names no more than the budget either
(`PicksBounded`).  That an age below the cache's reach counts no miss needs the
cache's state: it holds the most recently used experts of its layer (`Recent`),
because a step puts what it routes behind the rest and drops from the front
(`QueueOrders`, `StepKeeps`).  A step uses at most `Depth` experts, so a missing one
that was used in the last `SlotsOf[l] \div Depth` steps would make one more used
since than these steps can have used (`HeldWhole`).  Every miss has one age
(`AgesAddUp`).

Only model-checked, and why:

* `Retires`, `Returns`, `EveryForwardServed`, `EveryCallAnswered` and `EveryRunEnds`:
  liveness rests on fairness and ENABLED.
* `CurveIsReplay`, `AllocOptimal`, `BeladyOptimal`, `LfuEvictsLeast` and
  `GranularityOnlyCosts`: they are about what whole replays add up to and what walks
  over trees and heaps compute, written as recursive operators; a proof for every
  input is an induction over data (an exchange argument over all policies, for
  Belady and for the split).

## 5. Findings

1. **`flush` may file a later step's ids under an older number**
   (`tools/routecap/routecap.py:127`, run `routecap_lapped`).  Labels are copied
   first, ids second, while the graph runs.  If the ring comes round in between,
   the oldest slot not saved yet holds a later step's ids.  The code guards only
   the newest slot.  It takes a flush that comes almost a whole ring after the
   one before (a thousand steps by default); then a few steps between the two
   copies are enough.
2. **`misses_at` counts distance `C` as a hit at capacity `C`**
   (`tools/routecap/slot_alloc.py:117`, run `studies_curve`): the sum it subtracts
   includes index `C`, where `miss_hist`'s docstring stops at `C - 1`.  Curves and
   the printed cross-check are those of one slot more per layer; `alloc_optimal`
   uses its own sums and is not affected.
3. **`lost_to_wrap` is 1 when nothing was lost** (`tools/routecap/routecap.py:139`,
   run `routecap_lost`): steps are numbered from 1 and the formula takes them to
   start at 0, so every loader warns.  When steps really were lost, `load_traces`
   stops at its assertion instead.
4. **The LRU arms start with the hottest expert as the oldest**
   (`tools/routecap/locality_sim.py:160`, run `studies_warm`), `mtp_prefetch`'s
   cache too; the kernel's stamps make the coldest the oldest.  `stamp_ab2.py`
   calls the same order a simulator bug, and `locality_sim` still has it.
5. **Belady's next uses are cached under a list's address**
   (`tools/routecap/locality_sim.py:247`, run `studies_merged`).  `main` drops one
   merged group before it builds the next; a new list at the freed address is
   replayed with the old one's next uses, and the "upper bound" can miss more than
   the LRU.
6. **`_hcq_cfg` does not know the kernel's bound on tokens**
   (`fp8hip.py.diff:74`, run `parts_refused`).  It compares with
   `VLLM_HC_FP8SK_MAX_M`, read as it is; with that above 16 a call of 17 tokens gets
   a configuration, the launcher returns -1 and the caller raises, although "every
   condition the kernel assumes is checked HERE" (`:71`).  `NothingThrows` bounds it
   from the other side: nothing else is ever refused.

Observed while modelling, without a run of their own:

* Belady is never carried: the condition that makes policies anew
  (`locality_sim.py:302`) says `or name == "belady"`, so in a carried replay it
  starts each generation from the hot set, against the docstring ("carry=True
  keeps ONE cache across all segments", `:292`).  LOCALITY.md's table of carried
  against reseeded has 0.00 pp for Belady for this reason.  `LocalitySim` models it
  as it is (`Anew`).
* `capacities` "replicates `_hot_sets` exactly" (`locality_sim.py:121`) up to the
  order of layers: `_hot_sets` takes them in the file's order (0, 1, 10, 11, ...),
  `capacities` by number, and equal shares at the end of the budget fall to
  whoever comes first.  On the shipped profile at the shipped 12207 slots 12
  experts differ.  `StudiesSizeTheServer` allows for exactly that.
* The simulator evicts ties by expert id, the kernel by slot.  Slots stamped in
  one launch are equally old, so traces of the two may diverge; both keep
  `LruContract`.
* The distance curve is a lower bound on the simulator's misses, and equal to
  them only while no two experts share a step (`CurveIsReplay` says precisely
  that), although the docstring has "exactly the kernel's semantics".
* Belady is optimal among policies that bring in every missed expert; one that
  may bypass the cache, and LFU in a step wider than it, are not bounded by it.
* `alloc_demand` clamps a layer at the upper bound without giving the excess to
  another, so the slots it hands out may sum to less than the budget.
* `flush` is not synchronised: two callers at once (the dumper and an RPC) may
  append the same steps twice, and write the same temporary file.
* A restarted worker begins an empty trace and replaces the file of the one before
  it at its first dump.
* `concurrent_bench` drops a window without a step together with its time; when a
  step lasts longer than a sample, its milliseconds per step come out low.
  `SteadyIsExact` counts the windows as the script does.
* A rank that raises in a guard leaves the others in the all-reduce until the
  process manager ends them.
* `bench/xlayer_pred.py` cannot run: the assignment of `ids` that line 16 uses is part of
  the comment on line 15.  It is not modelled.

## 6. Not modelled, and why

* Numerics: quantisers, scales and the arithmetic of GEMMs.  Floating point is out
  of TLC's reach, and no property here depends on a value; `RowKernels` has layouts,
  masks and the places where a value is rounded.
* Whether a kernel is dispatched for a shape in the indexer and the
  linear-attention patches: stateless conditions.
* UVA offload, patch application, build and launch scripts, benchmarks other than
  `concurrent_bench`: I/O without state that survives.
* `capacities` with an equal split.  Rounding in the water-fill's division: two
  shares equal as fractions may differ in the last bit.
* `depth_sweep` of `mtp_prefetch.py`: the cache of `Prefetch` over fewer rows, for a
  table without a claim of its own.
* Environments that switch a library off are those of a missing one ("none").
* The stamp key past 2^43 launches, where it would reach the parked value
  (`KernelAssumption`).

## 7. Plan

Done: modules and runs as above, in the order cache, contract, proofs, kernel,
layer, fused kernel, collectives, vote, routing capture, studies, memos, what is
prepared ahead of the first step, row kernels, prefetch, merged replays, the
benchmark; proofs of every safety property that does not need an induction over
data (section 4).

Next, extending the model:

1. What a lost step does to `load_traces` on what `RouteCap` writes (it stops at an
   assertion), and that a generation never spans a request boundary.
2. The repacking of weights (`_maybe_repack`, `_decline`) ahead of `_build_hot`.
3. The static hot set's `_apply_split` of the older patch, and the `FUSE_MAX`
   fallback at its boundary, as further modes of `MoeLayer`.

Next, proofs:

1. `LocalitySim` without recursive operators: that a set of misses in a batch costs no
   fewer than one at a time (`GranularityOnlyCosts`) needs one invariant on two orders.
2. The repacking of 2., ahead of `StartsAreWarm`.
