----------------------------- MODULE KernelLRU -----------------------------
(***************************************************************************)
(* The offline simulator's cache (class KernelLRU of slot_alloc.py), which *)
(* sizes the slot budget from captured traces: a dict expert -> stamp,     *)
(* victims taken one by one as min((stamp, expert)).                       *)
(***************************************************************************)
EXTENDS RouteTrace, Ranking

CONSTANTS S, MaxDistinct, MaxInserts

VARIABLE stamp    \* expert -> time of its last use, of the residents

ASSUME SimAssumption ==
  S \in 1 .. E-1 /\ MaxDistinct \in 1 .. S /\ MaxInserts \in Nat

(* init is the profile's hot set, hottest first: stamp -j for rank j. *)
WarmStamps(init) == [e \in ToSet(init) |-> -(CHOOSE j \in 0 .. Len(init) - 1 : init[j + 1] = e)]

SimInit == stamp = WarmStamps(SubSeq(ranked, 1, S))

(* ins: the first max_inserts of the missing, in ascending order of id. *)
Missing(c, R) == R \ DOMAIN c
InsCount(c, R) == Min({Cardinality(Missing(c, R)), MaxInserts})
Ins(c, R) == [j \in 1 .. InsCount(c, R) |-> Nth(Missing(c, R), [e \in Missing(c, R) |-> e], j - 1)]

(* min((s, x) for x, s in stamp.items() if x not in routed) *)
AfterUse(c, x, y) == c[x] > c[y] \/ (c[x] = c[y] /\ x < y)        \* fault
Before(c, x, y) == c[x] < c[y] \/ (c[x] = c[y] /\ x < y)
Victim(c, routed) ==
  CHOOSE x \in DOMAIN c \ routed : \A y \in DOMAIN c \ routed : x = y \/ Before(c, x, y)

(* One round of the insert loop: evict when full, then take e in. *)
InsertOver(c, e, routed) ==       \* fault: full is noticed one too late
  LET kept == IF Cardinality(DOMAIN c) > S THEN DOMAIN c \ {Victim(c, routed)} ELSE DOMAIN c
  IN [x \in kept \cup {e} |-> IF x = e THEN t + 1 ELSE c[x]]

Insert(c, e, routed) ==
  LET kept == IF Cardinality(DOMAIN c) >= S THEN DOMAIN c \ {Victim(c, routed)} ELSE DOMAIN c
  IN [x \in kept \cup {e} |-> IF x = e THEN t + 1 ELSE c[x]]

(* The loop over ins, round by round. *)
Touched(c, R) == [x \in DOMAIN c |-> IF x \in R THEN t + 1 ELSE c[x]]
Rounds(c, R) ==
  LET w[j \in 0 .. InsCount(c, R)] ==
        IF j = 0 THEN Touched(c, R) ELSE Insert(w[j - 1], Ins(c, R)[j], R)
  IN w

(* step(uniq): the cache it leaves; a wide step only reads. *)
After(c, R) ==
  IF Cardinality(R) > MaxDistinct THEN c ELSE Rounds(c, R)[InsCount(c, R)]

SimStep == stamp' = After(stamp, trace[t + 1])

SimSpec == TraceInit /\ SimInit /\ [][Advance /\ SimStep]_<<trace, ranked, t, stamp>>

----------------------------------------------------------------------------
(* Properties.                                                             *)

(* The simulator keeps the contract the kernel keeps: as many inserts, the *)
(* least recently used unrouted experts out first.                         *)
Contract == INSTANCE LruContract WITH
  Capacity <- S, resident <- DOMAIN stamp,
  lastUse <- [e \in DOMAIN stamp |-> stamp[e] + S],
  clock <- t + S, routed <- IF t = 0 THEN {} ELSE trace[t]

SimulatesLru == Contract!Spec
=============================================================================
