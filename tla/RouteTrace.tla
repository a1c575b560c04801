---------------------------- MODULE RouteTrace -----------------------------
(***************************************************************************)
(* What the offline studies replay: the routing trace of one layer, a      *)
(* sequence of steps, each the set of its distinct experts, and the        *)
(* layer's profile.                                                        *)
(***************************************************************************)
EXTENDS Integers, FiniteSetsExt, SequencesExt

CONSTANTS
  E,         \* experts of the layer
  T,         \* bound: steps of a trace
  Steps,     \* routed sets tried
  Rankings   \* profiles tried: the experts, most routed first

Experts == 0 .. E-1

ASSUME TraceAssumption ==
  /\ E \in Nat \ {0} /\ T \in Nat \ {0}
  /\ Steps \subseteq (SUBSET Experts) \ {{}}
  /\ \A r \in Rankings : r \in [1 .. E -> Experts] /\ ToSet(r) = Experts

VARIABLES
  trace, ranked,
  t              \* steps replayed

TraceInit ==
  /\ trace \in [1 .. T -> Steps] /\ ranked \in Rankings /\ t = 0

Advance == t < T /\ t' = t + 1 /\ UNCHANGED <<trace, ranked>>
=============================================================================
