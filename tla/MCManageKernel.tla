--------------------------- MODULE MCManageKernel ---------------------------
(***************************************************************************)
(* Bounded instances of ManageKernel.  The router's array: the members of  *)
(* any set of experts in ascending order, one of them twice, padding in    *)
(* between (an id below 0 or one past the table).                          *)
(***************************************************************************)
EXTENDS ManageKernel

Ascending(R) == SetToSortSeq(R, <)

MCRoutedIds ==
  {Ascending(R) : R \in (SUBSET (0 .. E-1)) \ {{}}}
    \cup {<<2, -1, E, 2, 0>>}

Stopped == phase = "idle" /\ step = MaxStep /\ UNCHANGED vars

MCSpec == Init /\ [][Next \/ Stopped]_vars /\ Fairness
=============================================================================
