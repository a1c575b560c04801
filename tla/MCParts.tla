------------------------------ MODULE MCParts -------------------------------
(***************************************************************************)
(* Bounded instances of the parts that stand beside the cache: the launch  *)
(* of a GEMM, the packed heads, the row kernels, the warm start of the     *)
(* cache, the memos of the decode graph, the routing capture and two of    *)
(* its readers.  They share nothing, so a behaviour follows one of them.   *)
(***************************************************************************)
EXTENDS GemmLaunch, HeadWeights, RowKernels, HotSets, DecodeMemos, RouteCap, TraceLoad, Prefetch

VARIABLE job

Jobs == {"launch", "weights", "rows", "hot", "memos", "capture", "load", "prefetch"}

(* What a job that is not followed is left at. *)
Absent(v) == v = <<>>

MCInit ==
  /\ job \in Jobs
  /\ IF job = "launch" THEN LaunchInit
     ELSE Absent(env) /\ Absent(fn) /\ Absent(maxM) /\ last = [by |-> "nobody"]
  /\ IF job = "weights" THEN WeightInit
     ELSE Absent(head) /\ Absent(wq) /\ Absent(wsz) /\ Absent(w8) /\ Absent(ws8)
          /\ Absent(logits) /\ upto = 0
  /\ IF job = "rows" THEN RowInit
     ELSE /\ launch = [path |-> "nothing"] /\ pending = {Unset}
          /\ Absent(y) /\ Absent(q) /\ Absent(scale) /\ strayed = FALSE
  /\ IF job = "hot" THEN HotInit
     ELSE Absent(routings) /\ Absent(budget) /\ Absent(profile) /\ Absent(hot) /\ Absent(built)
  /\ MemoInit /\ Init
  /\ IF job = "load" THEN LoadInit
     ELSE Absent(saved) /\ Absent(rows) /\ at = 0 /\ Absent(start) /\ Absent(runs) /\ Absent(traces)
  /\ IF job = "prefetch" THEN PrefetchInit
     ELSE /\ Absent(capture) /\ now = T + 1 /\ layer = 1 /\ Absent(od) /\ Absent(lastuse)
          /\ hits = Zero /\ issued = Zero /\ tot_miss = 0 /\ rec_hist = [k \in 0 .. T |-> 0]

MCNext ==
  /\ UNCHANGED job
  /\ \/ /\ job = "launch" /\ LaunchNext
        /\ UNCHANGED <<weightVars, rowVars, hotVars, memoVars, vars, loadVars, prefetchVars>>
     \/ /\ job = "weights" /\ WeightNext
        /\ UNCHANGED <<launchVars, rowVars, hotVars, memoVars, vars, loadVars, prefetchVars>>
     \/ /\ job = "rows" /\ RowNext
        /\ UNCHANGED <<launchVars, weightVars, hotVars, memoVars, vars, loadVars, prefetchVars>>
     \/ /\ job = "hot" /\ HotNext
        /\ UNCHANGED <<launchVars, weightVars, rowVars, memoVars, vars, loadVars, prefetchVars>>
     \/ /\ job = "memos" /\ MemoNext
        /\ UNCHANGED <<launchVars, weightVars, rowVars, hotVars, vars, loadVars, prefetchVars>>
     \/ /\ job = "capture" /\ Next
        /\ UNCHANGED <<launchVars, weightVars, rowVars, hotVars, memoVars, loadVars, prefetchVars>>
     \/ /\ job = "load" /\ LoadNext
        /\ UNCHANGED <<launchVars, weightVars, rowVars, hotVars, memoVars, vars, prefetchVars>>
     \/ /\ job = "prefetch" /\ RouteLayer
        /\ UNCHANGED <<launchVars, weightVars, rowVars, hotVars, memoVars, vars, loadVars>>

MCSpec ==
  MCInit /\ [][MCNext]_<<job, launchVars, weightVars, rowVars, hotVars, memoVars, vars, loadVars, prefetchVars>>

(* Overrides: none; too much LDS with four columns; a split that only some *)
(* K allow; one that does not parse.  The fp8 kernel's own bound on tokens *)
(* and one beyond it.                                                      *)
MCSettings ==
  {[w4cfg |-> w, bf16cfg |-> b, waves |-> 192, minN |-> 3, ft |-> f,
    ftMinN |-> 1, ftMinM |-> 1, ftMaxN |-> x, fp8MaxM |-> z] :
     w \in {<<>>, <<8, 4, 4, 1>>, <<1, 10, 1, 0>>, <<2, 2>>}, b \in {<<>>, <<2, 8>>, <<1, 3>>},
     f \in BOOLEAN, x \in {32, 100}, z \in {16, 32}}
MCShapes == {<<1, 2560>>, <<512, 2560>>, <<10240, 320>>, <<336, 10240>>,
             <<40, 384>>, <<24, 24>>, <<6656, 2560>>, <<2560, 3072>>}

MCHeads == {<<1, 128>>, <<17, 128>>, <<33, 256>>, <<256, 128>>}

(* Even and steep routings, equal counts, and an expert never routed. *)
MCFileOrder == <<0, 2, 1>>
MCRoutings == [0 .. 2 -> {[e \in 0 .. 2 |-> e], [e \in 0 .. 2 |-> 2],
                          [e \in 0 .. 2 |-> IF e = 1 THEN 6 ELSE 3 - e],
                          [e \in 0 .. 2 |-> (e + 1) % 2]}]

(* Tails of no row to more than MaxRows; rows that touch, that leave a     *)
(* gap, that are columns; a gate and a weight with gaps between elements.  *)
Layout(t, cols, a, b) == [T |-> t, N |-> cols, s0 |-> a, s1 |-> b]
MCTails ==
  UNION {{[x |-> x, w |-> w, gate |-> Layout(t, 1, g, 1), out |-> o] :
            x \in {Layout(t, 3, 3, 1), Layout(t, 3, 4, 1)},
            w \in {Layout(1, 3, 3, 1), Layout(1, 3, 1, 2)}, g \in {1, 2},
            o \in {Layout(t, k, k, 1), Layout(t, k, k + 1, 1), Layout(t, k, 1, t)}} :
         t \in 0 .. 3, k \in {1, 3}}
MCModes ==
  {[mode |-> 0, mounted |-> TRUE, gemv |-> TRUE], [mode |-> 1, mounted |-> TRUE, gemv |-> TRUE]}
    \cup [mode : {2}, mounted : BOOLEAN, gemv : BOOLEAN]

(* Rows of even and odd length, too long, with a gap, as columns, and none. *)
MCInputs == {Layout(2, 4, 4, 1), Layout(2, 6, 7, 1), Layout(2, 3, 3, 1),
             Layout(1, 10, 10, 1), Layout(0, 4, 4, 1), Layout(2, 4, 1, 2)}
MCContents ==
  {[a \in 0 .. 13 |-> 4 * ((f * a + a \div 4 + g) % 7) - 12] : f \in {1, 3, 5}, g \in {0, 4}}
    \cup {[a \in 0 .. 13 |-> 0]}
MCSilu ==
  [v \in {4 * i : i \in -3 .. 3} |->
     CASE v < 0 -> -2 [] v = 0 -> 0 [] v = 4 -> 3 [] v = 8 -> 6 [] v = 12 -> 10]

(* Two layers: the first routes one pair or the other, the second follows  *)
(* it or not.                                                              *)
MCCaptures ==
  {[s \in 1 .. T |-> <<f[s], g[s]>>] :
     f \in [1 .. T -> {<<0, 1>>, <<2, 3>>}],
     g \in [1 .. T -> {<<0, 1>>, <<0, 2>>, <<2, 3>>, <<3, 3>>}]}
MCRanked == <<<<0, 1, 2, 3>>, <<3, 1, 0, 2>>>>
MCSlotsOf == <<1, 2>>
=============================================================================
