--------------------------- MODULE MCExpertCache ---------------------------
(***************************************************************************)
(* Bounded instances of ExpertCache and PreVictim.                         *)
(***************************************************************************)
EXTENDS PreVictim

CONSTANT MaxSteps     \* launches a checked behaviour may have

Bounded == step < S + MaxSteps /\ Next

(* The server is shut down; without this the bound would look like a       *)
(* deadlock.                                                               *)
Stopped == step = S + MaxSteps /\ UNCHANGED vars

MCSpec == Init /\ [][Bounded \/ Stopped]_vars
============================================================================
