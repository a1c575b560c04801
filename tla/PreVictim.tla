----------------------------- MODULE PreVictim -----------------------------
(***************************************************************************)
(* The manager before batched victim selection (r4d_lru_pre_victim.hip):   *)
(* one round per missing expert, each of which looks for the smallest      *)
(* (stamp, slot) among the slots that may go now, the ones just filled     *)
(* included in the search.  What a launch leaves is computed here round by *)
(* round and compared with what ExpertCache says of the new kernel.        *)
(***************************************************************************)
EXTENDS ExpertCache

(* What the loop starts from: the hits have been stamped, and the missing  *)
(* experts listed by id, up to the cap.                                    *)
LoopStart(R) ==
  [table |-> table, map_cold |-> map_cold, s_se |-> slot_expert, s_st |-> Refreshed(R),
   miss |-> [j \in Entries |-> IF j < Nins(R) THEN <<MissAt(R, j), miss[j][2]>> ELSE miss[j]],
   s_nins |-> 0]

(* Fault: a slot is judged by the expert it held when the launch began. *)
OpenAtStart(R, w) == {s \in Slots : slot_expert[s] \notin R}

Open(R, w) == {s \in Slots : ~ (w.s_se[s] >= 0 /\ w.s_se[s] \in R)}

ArgMin(R, w) ==
  LET key == [s \in Slots |-> w.s_st[s] * SlotBase + s]
  IN CHOOSE s \in Open(R, w) : \A q \in Open(R, w) : key[s] <= key[q]

(* One round for expert e: nothing evictable ends the loop. *)
Round(R, w, e) ==
  LET sl  == ArgMin(R, w)
      old == w.s_se[sl]
  IN IF Open(R, w) = {} THEN w
     ELSE [table    |-> [x \in Experts |->
                           IF x = e THEN sl ELSE IF x = old THEN None ELSE w.table[x]],
           map_cold |-> [x \in Experts |->
                           IF x = e THEN None ELSE IF x = old THEN x ELSE w.map_cold[x]],
           s_se     |-> [w.s_se EXCEPT ![sl] = e],
           s_st     |-> [w.s_st EXCEPT ![sl] = step + 1],
           miss     |-> [j \in Entries |-> IF j = w.s_nins THEN <<w.miss[j][1], sl>> ELSE w.miss[j]],
           s_nins   |-> w.s_nins + 1]

(* The state after each round, the last of which is what the launch leaves. *)
Rounds(R) ==
  LET w[r \in 0 .. Nins(R)] ==
        IF r = 0 THEN LoopStart(R) ELSE Round(R, w[r - 1], MissAt(R, r - 1))
  IN w

SerialLoop(R) == Rounds(R)[Nins(R)]

(* "It is the same answer, not an approximation" (pickVictims): every      *)
(* launch that is not read through leaves each table, stamp and miss entry *)
(* as the serial loop would have.  The loop looks again after each insert, *)
(* the new kernel ranks once on the stamps and residents it began with.    *)
SerialAgrees ==
  [][Cardinality(routed') <= MaxDistinct =>
       SerialLoop(routed') =
         [table |-> table', map_cold |-> map_cold', s_se |-> slot_expert',
          s_st |-> slot_stamp', miss |-> miss', s_nins |-> n_miss']]_vars
============================================================================
