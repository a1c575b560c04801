---------------------------- MODULE MCRendezvous ----------------------------
(***************************************************************************)
(* Bounded instances of the three places where parties wait for each       *)
(* other: the threads of a block at the barriers of a collective, the      *)
(* tensor-parallel ranks at theirs, and the threads of the concurrency     *)
(* benchmark.  They share nothing, so a behaviour follows one of them.     *)
(*                                                                         *)
(* Two ranks of two rows, the last row of the second shard padding with    *)
(* the largest value.  The cases: the best token in the first shard or in  *)
(* the second, by the smallest margin.                                     *)
(***************************************************************************)
EXTENDS BlockReduce, HeadVote, ConcurrentBench

VARIABLE job

Jobs == {"reduce", "heads", "bench"}

MCVars == <<job, reduceVars, vars, benchVars>>

MCInit == job \in Jobs /\ ReduceInit /\ Init /\ BenchInit

BenchEnded == main \in {"returned", "raised"} /\ UNCHANGED benchVars

MCNext ==
  \/ job = "reduce" /\ ReduceNext               /\ UNCHANGED <<job, vars, benchVars>>
  \/ job = "heads"  /\ Next                     /\ UNCHANGED <<job, reduceVars, benchVars>>
  \/ job = "bench"  /\ (BenchNext \/ BenchEnded) /\ UNCHANGED <<job, reduceVars, vars>>

(* ReduceFairness, HeadFairness and BenchFairness, of the job followed. *)
MCFairness ==
  /\ WF_reduceVars(job = "reduce" /\ ReduceRun)
  /\ \A r \in Ranks : WF_vars(job = "heads" /\ RankNext(r))
  /\ WF_vars(job = "heads" /\ AllReduce) /\ WF_vars(job = "heads" /\ AllGather)
  /\ WF_benchVars(job = "bench" /\ RunOne) /\ WF_benchVars(job = "bench" /\ Sample)
  /\ WF_benchVars(job = "bench" /\ ReleaseBarrier) /\ WF_benchVars(job = "bench" /\ EngineStep)
  /\ \A i \in Streams : WF_benchVars(job = "bench" /\ Proceed(i))

MCSpec == MCInit /\ [][MCNext]_MCVars /\ MCFairness

MCPadding == [r \in Ranks |-> IF r = TP - 1 THEN 1 ELSE 0]

Row(a, b, c) ==
  [t \in 0 .. TP * ShardSize - 1 |->
     CASE t = 0 -> a [] t = 1 -> b [] t = ShardSize -> c
       [] t = TP * ShardSize - 1 -> 9 [] OTHER -> 0]

MCLogitCases == {Row(2, 1, 1), Row(1, 1, 2)}
=============================================================================
