------------------------------ MODULE HeadVote ------------------------------
(***************************************************************************)
(* The tensor-parallel heads: whether the draft lm_head runs in W4         *)
(* (mtp.py) and the target's in fp8 (model.py) is decided at the first     *)
(* eager call, by a vote that one all-reduce makes unanimous; afterwards   *)
(* every call reduces the shards' best (value, index) pairs to one token.  *)
(*                                                                         *)
(* All ranks are given the same calls in the same order, but run them at   *)
(* their own pace; they meet only in collectives, which the communicator   *)
(* pairs by position in each rank's sequence, whatever they are for.       *)
(***************************************************************************)
EXTENDS Integers, Sequences, FiniteSets

CONSTANTS
  TP,            (* tensor-parallel ranks                                   *)
  ShardSize,     (* rows of a shard, padding included                       *)
  Padding,       (* [rank] rows of padding at the end of its shard          *)
  LogitCases,    (* [token] exact logits a call may have, the padding's too *)
  MaxCalls       (* bound: calls                                            *)

Ranks == 0 .. TP-1
Heads == {"draft", "target"}
Kept  == {"w4", "fp8", "bf16"}

ASSUME HeadAssumption ==
  /\ TP \in Nat \ {0} /\ ShardSize \in Nat \ {0} /\ MaxCalls \in Nat
  /\ Padding \in [Ranks -> 0 .. ShardSize-1]
  /\ LogitCases \subseteq [0 .. TP * ShardSize - 1 -> Nat]

VARIABLES
  calls,    \* [kind, capturing, logits] of the calls so far
  pos,      \* [rank] calls it has begun
  pc,       \* [rank] where it is
  state,    \* [kind][rank] "undecided", "packed" or "refused"
  vote,     \* [rank] its own verdict
  tally,    \* [rank] what the all-reduce returned to it
  pair,     \* [rank] best (value, token) of its shard, and the head it used
  top       \* [call] the token, once there is one

vars == <<calls, pos, pc, state, vote, tally, pair, top>>

Kind(r) == calls[pos[r]].kind
Goto(r, p) == pc' = [pc EXCEPT ![r] = p]

----------------------------------------------------------------------------
(* The scheduler hands a call to all ranks, eagerly or under capture.      *)
NewCall ==
  /\ Len(calls) < MaxCalls
  /\ \E k \in Heads, c \in BOOLEAN, l \in LogitCases :
       calls' = Append(calls, [kind |-> k, capturing |-> c, logits |-> l])
  /\ UNCHANGED <<pos, pc, state, vote, tally, pair, top>>

(* The decision is taken once, never while a graph is captured. *)
Begin(r) ==
  /\ pc[r] = "ready" /\ pos[r] < Len(calls)
  /\ pos' = [pos EXCEPT ![r] = @ + 1]
  /\ LET c == calls[pos[r] + 1]
     IN Goto(r, IF state[c.kind][r] = "undecided" /\ ~ c.capturing THEN "guards" ELSE "head")
  /\ UNCHANGED <<calls, state, vote, tally, pair, top>>

RefuseEarly(r) ==        \* fault: a refusal returns ahead of the all-reduce
  /\ pc[r] = "guards"
  /\ \E ok \in BOOLEAN :
       /\ vote' = [vote EXCEPT ![r] = ok]
       /\ Goto(r, IF ok THEN "all_reduce" ELSE "settle")
  /\ UNCHANGED <<calls, pos, state, tally, pair, top>>

(* Every guard is evaluated per rank (the module may be missing, the       *)
(* library's entry point, the shard's shape), and none returns early.      *)
EvaluateGuards(r) ==
  /\ pc[r] = "guards"
  /\ \E ok \in BOOLEAN : vote' = [vote EXCEPT ![r] = ok]
  /\ Goto(r, IF TP > 1 THEN "all_reduce" ELSE "settle")
  /\ UNCHANGED <<calls, pos, state, tally, pair, top>>

(* Only a missing module is caught: whatever else the import or the packing *)
(* raises ends the rank, ahead of the all-reduce.                           *)
Raise(r) ==
  /\ pc[r] = "guards" /\ Goto(r, "dead")
  /\ UNCHANGED <<calls, pos, state, vote, tally, pair, top>>

AllReduce ==
  /\ \A r \in Ranks : pc[r] = "all_reduce"
  /\ tally' = [r \in Ranks |-> Cardinality({q \in Ranks : vote[q]})]
  /\ pc' = [r \in Ranks |-> "settle"]
  /\ UNCHANGED <<calls, pos, state, vote, pair, top>>

OwnVote(r)   == vote[r]                \* fault
Unanimous(r) == vote[r] /\ (TP > 1 => tally[r] = TP)

Settle(r) ==
  /\ pc[r] = "settle"
  /\ state' = [state EXCEPT ![Kind(r)][r] = IF Unanimous(r) THEN "packed" ELSE "refused"]
  /\ Goto(r, "head")
  /\ UNCHANGED <<calls, pos, vote, tally, pair, top>>

(* The head a call runs through: the draft falls back on the module it     *)
(* shares with the target, whose quant_method the fp8 head replaces.       *)
HeadOf(r) ==
  IF Kind(r) = "draft" /\ state["draft"][r] = "packed" THEN "w4"
  ELSE IF state["target"][r] = "packed" THEN "fp8" ELSE "bf16"

(* A head's values are off by an amount of its own. *)
Offset == [w4 |-> 2, fp8 |-> 1, bf16 |-> 0]

Shard(r)  == r * ShardSize .. (r + 1) * ShardSize - 1
Unmasked(r) == Shard(r)                \* fault
Masked(r) == r * ShardSize .. (r + 1) * ShardSize - 1 - Padding[r]

(* The shard's padding is masked out; among equal values any may win. *)
LocalArgmax(r) ==
  /\ pc[r] = "head"
  /\ LET l == calls[pos[r]].logits
     IN \E t \in Masked(r) :
          /\ \A u \in Masked(r) : l[u] <= l[t]
          /\ pair' = [pair EXCEPT ![r] = [value |-> l[t] + Offset[HeadOf(r)],
                                          token |-> t, head |-> HeadOf(r)]]
  /\ Goto(r, IF TP > 1 THEN "all_gather" ELSE "reduce")
  /\ UNCHANGED <<calls, pos, state, vote, tally, top>>

(* Pairs of ranks that are in different calls would be gathered together.  *)
AllGather ==
  /\ \A r \in Ranks : pc[r] = "all_gather"
  /\ pc' = [r \in Ranks |-> "reduce"]
  /\ \E w \in Ranks :
       /\ \A r \in Ranks : pair[r].value <= pair[w].value
       /\ top' = Append(top, pair[w])
  /\ UNCHANGED <<calls, pos, state, vote, tally, pair>>

Reduce(r) ==
  /\ pc[r] = "reduce"
  /\ top' = IF TP = 1 THEN Append(top, pair[r]) ELSE top
  /\ Goto(r, "ready")
  /\ UNCHANGED <<calls, pos, state, vote, tally, pair>>

Init ==
  /\ calls = <<>> /\ top = <<>>
  /\ pos = [r \in Ranks |-> 0] /\ pc = [r \in Ranks |-> "ready"]
  /\ state = [k \in Heads |-> [r \in Ranks |-> "undecided"]]
  /\ vote = [r \in Ranks |-> FALSE] /\ tally = [r \in Ranks |-> 0]
  /\ pair = [r \in Ranks |-> [value |-> 0, token |-> 0, head |-> "bf16"]]

(* No further request comes. *)
Quiet == UNCHANGED vars

RankNext(r) == Begin(r) \/ EvaluateGuards(r) \/ Settle(r) \/ LocalArgmax(r) \/ Reduce(r)

Next == NewCall \/ (\E r \in Ranks : RankNext(r) \/ Raise(r)) \/ AllReduce \/ AllGather \/ Quiet

(* A rank keeps running unless it raises, which it need not, and a         *)
(* collective all ranks have entered ends.                                 *)
HeadFairness ==
  /\ \A r \in Ranks : WF_vars(RankNext(r))
  /\ WF_vars(AllReduce) /\ WF_vars(AllGather)

Spec == Init /\ [][Next]_vars /\ HeadFairness

----------------------------------------------------------------------------
(* Properties.                                                             *)

Calls == [kind : Heads, capturing : BOOLEAN, logits : LogitCases]
Pairs == [value : Nat, token : Nat, head : Kept]

(* A rank that is not between calls is in one of those there have been.    *)
TypeOK ==
  /\ calls \in Seq(Calls)
  /\ pos \in [Ranks -> Nat]
  /\ pc \in [Ranks -> {"ready", "guards", "all_reduce", "settle", "head", "all_gather", "reduce",
                   "dead"}]
  /\ \A r \in Ranks : pos[r] <= Len(calls) /\ (pc[r] # "ready" => pos[r] >= 1)
  /\ state \in [Heads -> [Ranks -> {"undecided", "packed", "refused"}]]
  /\ vote \in [Ranks -> BOOLEAN] /\ tally \in [Ranks -> Nat]
  /\ pair \in [Ranks -> Pairs]
  /\ top \in Seq(Pairs)

(* "identically on every TP rank": two ranks that have decided a head have *)
(* decided it alike, whatever their own guards said or raised.             *)
SameVerdict ==
  \A k \in Heads : \A r, q \in Ranks :
    {state[k][r], state[k][q]} # {"packed", "refused"}

(* The token is the one with the largest logit over all shards, never a    *)
(* padding row: the values compared come from one kind of head, so neither *)
(* shard is favoured, and belong to one call.                              *)
TopIsBest ==
  \A n \in 1 .. Len(top) :
    LET real == {t \in 0 .. TP * ShardSize - 1 :
                   t % ShardSize < ShardSize - Padding[t \div ShardSize]}
    IN /\ top[n].token \in real
       /\ \A u \in real : calls[n].logits[u] <= calls[n].logits[top[n].token]

(* No rank waits for good in a collective the others skip ("a guard that   *)
(* diverged across ranks would deadlock instead of disagreeing"), unless   *)
(* one of them died on its way there.                                      *)
EveryCallAnswered ==
  \A n \in 1 .. MaxCalls :
    Len(calls) >= n ~> Len(top) >= n \/ \E r \in Ranks : pc[r] = "dead"
=============================================================================
