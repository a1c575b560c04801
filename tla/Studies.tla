------------------------------ MODULE Studies ------------------------------
(***************************************************************************)
(* main of slot_alloc.py and of locality_sim.py: the captured trace goes   *)
(* through the policies of locality_sim, the kernel-faithful simulator and *)
(* the distance count; its histogram then decides the split of the slots,  *)
(* or its generations are merged and replayed once more.                   *)
(***************************************************************************)
EXTENDS MergedReplay, SlotAlloc

vars == <<trace, ranked, t, policyVars, stamp, countVars, allocVars, mergedVars>>

Init ==
  /\ TraceInit /\ PolicyInit /\ SimInit /\ CountInit /\ MergedInit
  /\ H = <<>> /\ caps = <<>> /\ left = 0 /\ heap = {}

Step == Advance /\ PolicyStep /\ SimStep /\ CountStep /\ UNCHANGED mergedVars

Replayed == UNCHANGED <<trace, ranked, t, policyVars, stamp>>

(* The curves do not know of generations: allocate once for each trace.    *)
Once == t = T /\ cut = T /\ ~carry
Allocate == Once /\ (AllocStart \/ PopSegment) /\ Replayed /\ UNCHANGED mergedVars

(* The concurrency study of a capture of two generations.                  *)
Merge ==
  /\ t = T /\ cut < T /\ ~carry
  /\ MergedNext /\ Replayed /\ UNCHANGED <<countVars, allocVars>>

Finished == t = T /\ UNCHANGED vars

Next == Step \/ Allocate \/ Merge \/ Finished

Spec == Init /\ [][Next]_vars

----------------------------------------------------------------------------
(* Properties.                                                             *)

(* "lru_ws: the honest dynamic cache we would actually ship": while every  *)
(* step routes one expert, so that neither ties nor the order within a     *)
(* step matter, the warm LRU holds what the simulator of the shipped       *)
(* kernel holds.                                                           *)
WarmLruIsTheShipped ==
  cut = T /\ (\A s \in 1 .. t : Cardinality(trace[s]) = 1) =>
    ToSet(od["lru_ws"]) = DOMAIN stamp
============================================================================
