---------------------------- MODULE LruContract ----------------------------
(***************************************************************************)
(* What a layer's expert cache promises, without slots, tables or keys:    *)
(* a set of resident experts of fixed size, each with the time of its last *)
(* use.  A request for a set of experts is either read through (too many   *)
(* of them) or brings in as many of the missing ones as the insert cap and *)
(* the unrouted residents allow, at the expense of the least recently used *)
(* residents that were not asked for.                                      *)
(***************************************************************************)
EXTENDS Integers, FiniteSets

CONSTANTS E, Capacity, MaxDistinct, MaxInserts

VARIABLES resident, lastUse, clock, routed

contractVars == <<resident, lastUse, clock, routed>>

Universe == 0 .. E-1

Init ==
  /\ resident \in SUBSET Universe
  /\ Cardinality(resident) = Capacity
  /\ lastUse \in [resident -> 0 .. Capacity]
  /\ clock = Capacity
  /\ routed = {}

ReadThrough(R) ==
  /\ Cardinality(R) > MaxDistinct
  /\ clock' = clock + 1
  /\ routed' = R
  /\ UNCHANGED <<resident, lastUse>>

Serve(R) ==
  /\ Cardinality(R) <= MaxDistinct
  /\ clock' = clock + 1
  /\ routed' = R
  /\ \E ins \in SUBSET (R \ resident), vic \in SUBSET (resident \ R) :
       /\ Cardinality(vic) = Cardinality(ins)
       \* nothing is left out that could have come in
       /\ \/ ins = R \ resident
          \/ Cardinality(ins) = MaxInserts
          \/ vic = resident \ R
       \* the least recently used go first
       /\ \A v \in vic, k \in (resident \ R) \ vic : lastUse[v] <= lastUse[k]
       /\ resident' = (resident \ vic) \cup ins
       /\ lastUse' = [e \in (resident \ vic) \cup ins |->
                        IF e \in R THEN clock + 1 ELSE lastUse[e]]

Next == \E R \in (SUBSET Universe) \ {{}} : ReadThrough(R) \/ Serve(R)

Spec == Init /\ [][Next]_contractVars
============================================================================
