----------------------------- MODULE MCMoeLayer -----------------------------
(***************************************************************************)
(* Bounded instances of a layer's forwards and, over the same cache, of    *)
(* the fused manager and alignment in a replayed graph.  A behaviour       *)
(* follows one of the two.                                                 *)
(***************************************************************************)
EXTENDS MoeLayer, FusedAlign

CONSTANT MaxSteps     \* replays of the graph

VARIABLE job

(* What the job that is not followed is left at. *)
Absent(v) == v = <<>>

MCInit ==
  \/ /\ job = "layer" /\ LayerInit
     /\ Absent(ids) /\ Absent(phase) /\ Absent(cnt) /\ Absent(cum)
     /\ Absent(sorted_ids) /\ Absent(expert_ids) /\ Absent(npad) /\ Absent(placed)
  \/ /\ job = "align" /\ AlignInit
     /\ queue = [q \in Streams |-> <<>>] /\ events = {} /\ busy = {} /\ Absent(todo)
     /\ Absent(slab) /\ Absent(hot) /\ Absent(cold) /\ Absent(ic1) /\ Absent(q2) /\ Absent(ic3)
     /\ out = [fwd |-> 0, ids |-> <<>>] /\ fwd = 0 /\ Absent(env)

(* The graph is not replayed again. *)
Stopped == phase = "idle" /\ step >= S + MaxSteps /\ UNCHANGED alignVars

Replay ==
  \/ step < S + MaxSteps /\ RunManager
  \/ Clear \/ CountTokens \/ Scan \/ FillExpertIds
  \/ Place \/ SetCursors \/ (\E i \in Tokens : Draw(i)) \/ Retire \/ Stopped

alignOnly == <<ids, phase, cnt, cum, sorted_ids, expert_ids, npad, placed>>
layerOnly == <<queue, events, busy, todo, buffers, fwd, env>>

MCNext ==
  /\ UNCHANGED job
  /\ \/ job = "layer" /\ LayerNext /\ UNCHANGED alignOnly
     \/ job = "align" /\ Replay    /\ UNCHANGED layerOnly

(* The fairness of LayerSpec. *)
MCSpec ==
  /\ MCInit /\ [][MCNext]_<<job, layerVars, alignOnly>>
  /\ \A q \in Streams : WF_layerVars(job = "layer" /\ Device(q))

(* Forwards of one row (cold GEMM skipped when SkipEmpty), of two (one may *)
(* stay cold with MaxInserts = 1), and a wide one that is read through.    *)
MCRoutedIds == {<<e>> : e \in Experts} \cup {<<0, 1>>, <<1, 3>>, <<3, 2>>, <<2, 2>>, <<1, 0, 2>>}

(* A graph of three routing slots with any ids, out of range ones          *)
(* included, and one of more slots than threads.                           *)
MCTopkIds ==
  [1 .. 3 -> -1 .. E-1] \cup {<<E, 0, 1>>, <<2, E, 2>>}
    \cup {<<0, 1, 0, 1>>, <<0, 0, 2, 3>>, <<3, 3, 3, 3>>, <<-1, 2, 0, 2>>, <<0, 1, 2, 3>>}
=============================================================================
