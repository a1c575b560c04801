---------------------------- MODULE HostProofs -----------------------------
(***************************************************************************)
(* Proofs about three programs of the host: the vote of the ranks on their *)
(* heads, for any number of ranks and calls; the benchmark, for any number *)
(* of streams and samples; and the offline simulator, for any trace and    *)
(* profile.                                                                *)
(***************************************************************************)
EXTENDS HeadVote, ConcurrentBench, KernelLRU, RankingProofs, FunctionTheorems, TLAPS

-----------------------------------------------------------------------------
(***************************************************************************)
(* The vote.  It decides each head alike on all ranks,                     *)
(* whatever their guards said or raised, and however far apart the         *)
(* ranks run.                                                              *)
(*                                                                         *)
(* The argument: the reduction at the end of a call keeps the ranks within *)
(* one call of each other (Lockstep), so the verdicts of earlier calls are *)
(* common knowledge; the same calls then take all ranks into the vote or   *)
(* none (InVote), and what they take out of it depends on all the votes    *)
(* and on nothing else (Settled).  A single rank agrees with itself.       *)
(*                                                                         *)
(* Hence the pairs that meet in a reduction are of one call and of one     *)
(* kind of head, and each is the best of its shard (Offered): the winner   *)
(* is the best of the vocabulary.                                          *)
(***************************************************************************)

Between == {"ready", "reduce"}
Voting  == {"guards", "all_reduce", "settle", "dead"}

(* Done with as many calls as have a token, or in the one after these. *)
Lockstep ==
  \A r \in Ranks :
    \/ pc[r] \in Between /\ pos[r] = Len(top)
    \/ pc[r] \notin Between /\ pos[r] = Len(top) + 1

Opens(r) == state[Kind(r)][r] = "undecided" /\ ~ calls[pos[r]].capturing

(* A rank votes in the calls that open a vote, until it has settled, and   *)
(* dies in no other.                                                       *)
InVote == \A r \in Ranks : pc[r] \notin Between => (pc[r] \in Voting <=> Opens(r))

Settling == \E r \in Ranks : pc[r] = "settle"
Verdict  == IF \A r \in Ranks : vote[r] THEN "packed" ELSE "refused"

(* Between the all-reduce and the last rank's verdict every rank is there, *)
(* and those that have decided took the verdict of all.                    *)
Settled ==
  Settling => \A r \in Ranks :
    /\ pc[r] \in {"settle", "head", "all_gather"}
    /\ tally[r] = Cardinality({q \in Ranks : vote[q]})
    /\ pc[r] # "settle" => state[Kind(r)][r] = Verdict

(* Two ranks differ only in the head that is being decided, while one of   *)
(* them has not settled.                                                   *)
Agreed ==
  \A k \in Heads : \A r, q \in Ranks :
    state[k][r] = state[k][q] \/ (Settling /\ k = Kind(r))

IInv == TypeOK /\ (TP > 1 => Lockstep /\ InVote /\ Settled /\ Agreed)

----------------------------------------------------------------------------
(* Counting votes.                                                         *)

(* There are TP ranks. *)
LEMMA RanksCounted == IsFiniteSet(Ranks) /\ Cardinality(Ranks) = TP
<1>1. TP \in Nat /\ 0 \in Int /\ TP - 1 \in Int  BY HeadAssumption
<1>2. IsFiniteSet(0 .. TP - 1) /\ Cardinality(0 .. TP - 1) = IF 0 > TP - 1 THEN 0 ELSE TP - 1 - 0 + 1
  BY <1>1, FS_Interval
<1> QED  BY <1>1, <1>2, HeadAssumption DEF Ranks

(* The sum of the votes is TP just when every rank votes for it. *)
LEMMA Unanimity ==
  Cardinality({q \in Ranks : vote[q]}) = TP <=> \A q \in Ranks : vote[q]
<1> DEFINE Yes == {q \in Ranks : vote[q]}
<1>1. IsFiniteSet(Yes) /\ Cardinality(Yes) <= Cardinality(Ranks)
      /\ (Cardinality(Ranks) = Cardinality(Yes) => Ranks = Yes)
  BY RanksCounted, FS_Subset
<1>2. ASSUME \A q \in Ranks : vote[q] PROVE Yes = Ranks  BY <1>2
<1>3. ASSUME Yes = Ranks PROVE \A q \in Ranks : vote[q]  BY <1>3
<1> HIDE DEF Yes
<1>4. Cardinality(Yes) = TP <=> \A q \in Ranks : vote[q]  BY <1>1, <1>2, <1>3, RanksCounted
<1> QED  BY <1>4 DEF Yes

(* A token of a shard is one of the vocabulary. *)
LEMMA TokenInVocabulary ==
  ASSUME NEW r \in Ranks, NEW tok \in Masked(r)
  PROVE  tok \in 0 .. TP * ShardSize - 1
<1> DEFINE rest == TP - r - 1
<1>1. /\ r \in Nat /\ rest \in Nat /\ TP = r + 1 + rest
      /\ ShardSize \in Nat /\ ShardSize >= 1 /\ Padding[r] \in Nat
  BY HeadAssumption DEF Ranks
<1>2. TP * ShardSize = (r + 1) * ShardSize + rest * ShardSize  BY <1>1
<1>3. rest * ShardSize \in Nat /\ r * ShardSize \in Nat /\ (r + 1) * ShardSize \in Nat  BY <1>1
<1>4. tok \in Int /\ r * ShardSize <= tok /\ tok <= (r + 1) * ShardSize - 1 - Padding[r]
  BY <1>1, <1>3 DEF Masked
<1> HIDE DEF rest
<1> QED  BY <1>1, <1>2, <1>3, <1>4

----------------------------------------------------------------------------
(* Type correctness.                                                       *)

LEMMA TypeInit == Init => TypeOK
<1> SUFFICES ASSUME Init PROVE TypeOK  OBVIOUS
<1>1. <<>> \in Seq(Calls) /\ <<>> \in Seq(Pairs) /\ Len(<<>>) = 0  OBVIOUS
<1>2. [value |-> 0, token |-> 0, head |-> "bf16"] \in Pairs  BY DEF Pairs, Kept
<1> QED  BY <1>1, <1>2 DEF Init, TypeOK

LEMMA TypeStep == TypeOK /\ [Next]_vars => TypeOK'
<1> SUFFICES ASSUME TypeOK, [Next]_vars PROVE TypeOK'  OBVIOUS
<1> USE DEF TypeOK
<1>1. CASE NewCall
  <2>1. PICK k \in Heads, c \in BOOLEAN, l \in LogitCases :
          calls' = Append(calls, [kind |-> k, capturing |-> c, logits |-> l])
    BY <1>1 DEF NewCall
  <2>2. [kind |-> k, capturing |-> c, logits |-> l] \in Calls  BY DEF Calls
  <2>3. calls' \in Seq(Calls) /\ Len(calls') = Len(calls) + 1 /\ Len(calls) \in Nat  BY <2>1, <2>2
  <2>4. \A r \in Ranks : pos[r] <= Len(calls')  BY <2>3
  <2> QED  BY <2>3, <2>4, <1>1 DEF NewCall
<1>2. ASSUME NEW r \in Ranks, Begin(r) PROVE TypeOK'
  BY <1>2 DEF Begin, Goto
<1>3. ASSUME NEW r \in Ranks, EvaluateGuards(r) PROVE TypeOK'
  BY <1>3 DEF EvaluateGuards, Goto
<1>4. CASE AllReduce
  <2>1. Cardinality({q \in Ranks : vote[q]}) \in Nat
    BY RanksCounted, FS_Subset, FS_CardinalityType
  <2> QED  BY <1>4, <2>1 DEF AllReduce
<1>5. ASSUME NEW r \in Ranks, Settle(r) PROVE TypeOK'
  BY <1>5 DEF Settle, Goto, Heads
<1>6. ASSUME NEW r \in Ranks, LocalArgmax(r) PROVE TypeOK'
  <2>1. PICK tok \in Masked(r) :
          pair' = [pair EXCEPT ![r] = [value |-> calls[pos[r]].logits[tok] + Offset[HeadOf(r)],
                                       token |-> tok, head |-> HeadOf(r)]]
    BY <1>6 DEF LocalArgmax
  <2>2. tok \in 0 .. TP * ShardSize - 1 /\ tok \in Nat  BY TokenInVocabulary
  <2>3. pos[r] \in 1 .. Len(calls)  BY <1>6 DEF LocalArgmax
  <2>4. calls[pos[r]].logits \in LogitCases
    <3>1. \A s \in Seq(Calls), i \in Nat : i \in 1 .. Len(s) => s[i] \in Calls  OBVIOUS
    <3>2. calls \in Seq(Calls) /\ pos[r] \in Nat  OBVIOUS
    <3>3. calls[pos[r]] \in Calls  BY <2>3, <3>1, <3>2
    <3> QED  BY <3>3 DEF Calls
  <2>5. calls[pos[r]].logits[tok] \in Nat  BY <2>2, <2>4, HeadAssumption
  <2>6. HeadOf(r) \in Kept /\ Offset[HeadOf(r)] \in Nat  BY DEF HeadOf, Kept, Offset
  <2>7. \A v \in Nat, u \in Nat, h \in Kept : [value |-> v, token |-> u, head |-> h] \in Pairs
    BY DEF Pairs
  <2>8. calls[pos[r]].logits[tok] + Offset[HeadOf(r)] \in Nat
    <3>1. \A a \in Nat, b \in Nat : a + b \in Nat  OBVIOUS
    <3> QED  BY <2>5, <2>6, <3>1, Zenon
  <2>9. pair' \in [Ranks -> Pairs]  BY <2>1, <2>2, <2>6, <2>7, <2>8
  <2> QED  BY <1>6, <2>9 DEF LocalArgmax, Goto
<1>7. CASE AllGather
  <2>1. PICK w \in Ranks : top' = Append(top, pair[w])  BY <1>7 DEF AllGather
  <2>2. top' \in Seq(Pairs)  BY <2>1
  <2> QED  BY <1>7, <2>2 DEF AllGather
<1>8. ASSUME NEW r \in Ranks, Reduce(r) PROVE TypeOK'
  <2>1. top' = Append(top, pair[r]) \/ top' = top  BY <1>8 DEF Reduce
  <2>2. top \in Seq(Pairs) /\ Append(top, pair[r]) \in Seq(Pairs)  OBVIOUS
  <2>3. top' \in Seq(Pairs)  BY <2>1, <2>2
  <2> QED  BY <1>8, <2>3 DEF Reduce, Goto
<1>9. CASE UNCHANGED vars  BY <1>9 DEF vars
<1>10. ASSUME NEW r \in Ranks, Raise(r) PROVE TypeOK'
  BY <1>10 DEF Raise, Goto
<1> QED  BY <1>1, <1>2, <1>3, <1>4, <1>5, <1>6, <1>7, <1>8, <1>9, <1>10 DEF Next, RankNext, Quiet

----------------------------------------------------------------------------
(* Agreement.                                                              *)

Together == Lockstep /\ InVote /\ Settled /\ Agreed

LEMMA TogetherInit == Init /\ TP > 1 => Together
<1> SUFFICES ASSUME Init, TP > 1 PROVE Together  OBVIOUS
<1>1. Len(top) = 0  BY DEF Init
<1>2. \A r \in Ranks : pc[r] = "ready" /\ pos[r] = 0  BY DEF Init
<1>3. ~ Settling  BY <1>2 DEF Settling
<1>4. Agreed  BY DEF Init, Agreed
<1> QED  BY <1>1, <1>2, <1>3, <1>4 DEF Together, Lockstep, Between, InVote, Settled

(* Once all have settled, or as long as none has voted, all agree. *)
LEMMA AllAgree ==
  ASSUME Agreed, ~ Settling, NEW k \in Heads, NEW r \in Ranks, NEW q \in Ranks
  PROVE  state[k][r] = state[k][q]
BY DEF Agreed

(* While some rank settles, all are in the same call. *)
LEMMA SameCall ==
  ASSUME Together, Settling, NEW r \in Ranks, NEW q \in Ranks
  PROVE  pos[r] = pos[q] /\ Kind(r) = Kind(q) /\ pc[r] \notin Between
<1>1. pc[r] \in {"settle", "head", "all_gather"} /\ pc[q] \in {"settle", "head", "all_gather"}
  BY DEF Together, Settled
<1>2. pos[r] = Len(top) + 1 /\ pos[q] = Len(top) + 1  BY <1>1 DEF Together, Lockstep, Between
<1> QED  BY <1>1, <1>2 DEF Kind, Between

LEMMA NewCallKeeps == TypeOK /\ Together /\ NewCall => Together'
<1> SUFFICES ASSUME TypeOK, Together, NewCall PROVE Together'  OBVIOUS
<1>1. \A r \in Ranks : pc[r] \notin Between => calls'[pos[r]] = calls[pos[r]]
  <2> SUFFICES ASSUME NEW r \in Ranks, pc[r] \notin Between PROVE calls'[pos[r]] = calls[pos[r]]
    OBVIOUS
  <2>1. pos[r] \in 1 .. Len(calls)  BY DEF TypeOK, Between
  <2>2. PICK c : calls' = Append(calls, c)  BY DEF NewCall
  <2>3. calls \in Seq(Calls)  BY DEF TypeOK
  <2> QED  BY <2>1, <2>2, <2>3
<1>2. UNCHANGED <<pos, pc, state, vote, tally, pair, top>>  BY DEF NewCall
<1>3. Lockstep'  BY <1>2 DEF Together, Lockstep
<1>4. InVote'  BY <1>1, <1>2 DEF Together, InVote, Opens, Kind
<1>5. Settling' = Settling /\ Verdict' = Verdict  BY <1>2 DEF Settling, Verdict
<1>6. Settled'
  <2>1. \A r \in Ranks : pc[r] \in {"settle", "head", "all_gather"} => pc[r] \notin Between
    BY DEF Between
  <2> QED  BY <1>1, <1>2, <1>5, <2>1 DEF Together, Settled, Kind
<1>7. Agreed'
  <2>1. ASSUME Settling, NEW r \in Ranks PROVE Kind(r)' = Kind(r)
    BY <1>1, <1>2, <2>1, SameCall DEF Kind
  <2> QED  BY <1>2, <1>5, <2>1 DEF Together, Agreed
<1> QED  BY <1>3, <1>4, <1>6, <1>7 DEF Together

LEMMA BeginKeeps ==
  ASSUME TypeOK, Together, NEW r \in Ranks, Begin(r)
  PROVE  Together'
<1>1. /\ pc[r] = "ready" /\ pos' = [pos EXCEPT ![r] = @ + 1]
      /\ UNCHANGED <<calls, state, vote, tally, pair, top>>
      /\ pc' = [pc EXCEPT ![r] = IF state[calls[pos[r] + 1].kind][r] = "undecided"
                                    /\ ~ calls[pos[r] + 1].capturing THEN "guards" ELSE "head"]
  BY DEF Begin, Goto
<1>2. pos \in [Ranks -> Nat] /\ DOMAIN pc = Ranks  BY DEF TypeOK
<1>3. ~ Settling  BY <1>1 DEF Together, Settled
<1>4. ~ Settling'  BY <1>1, <1>2, <1>3 DEF Settling
<1>5. Lockstep'  BY <1>1, <1>2 DEF Together, Lockstep, Between
<1>6. InVote'
  <2> SUFFICES ASSUME NEW q \in Ranks, pc'[q] \notin Between
               PROVE  pc'[q] \in Voting <=> Opens(q)'
    BY DEF InVote
  <2>1. CASE q = r  BY <1>1, <1>2, <2>1 DEF Opens, Kind, Voting
  <2>2. CASE q # r  BY <1>1, <1>2, <2>2 DEF Together, InVote, Opens, Kind
  <2> QED  BY <2>1, <2>2
<1>7. Settled' /\ Agreed'  BY <1>1, <1>3, <1>4 DEF Together, Settled, Agreed
<1> QED  BY <1>5, <1>6, <1>7 DEF Together

LEMMA EvaluateGuardsKeeps ==
  ASSUME TypeOK, Together, TP > 1, NEW r \in Ranks, EvaluateGuards(r)
  PROVE  Together'
<1>1. /\ pc[r] = "guards" /\ pc' = [pc EXCEPT ![r] = "all_reduce"]
      /\ UNCHANGED <<calls, pos, state, tally, pair, top>>
  BY DEF EvaluateGuards, Goto
<1>2. DOMAIN pc = Ranks  BY DEF TypeOK
<1>3. ~ Settling  BY <1>1 DEF Together, Settled
<1>4. ~ Settling'  BY <1>1, <1>2, <1>3 DEF Settling
<1>5. Lockstep'  BY <1>1, <1>2 DEF Together, Lockstep, Between
<1>6. InVote'  BY <1>1, <1>2 DEF Together, InVote, Opens, Kind, Voting, Between
<1>7. Settled' /\ Agreed'  BY <1>1, <1>3, <1>4 DEF Together, Settled, Agreed
<1> QED  BY <1>5, <1>6, <1>7 DEF Together

(* No vote can end without the rank that died. *)
LEMMA RaiseKeeps ==
  ASSUME TypeOK, Together, NEW r \in Ranks, Raise(r)
  PROVE  Together'
<1>1. /\ pc[r] = "guards" /\ pc' = [pc EXCEPT ![r] = "dead"]
      /\ UNCHANGED <<calls, pos, state, vote, tally, pair, top>>
  BY DEF Raise, Goto
<1>2. DOMAIN pc = Ranks  BY DEF TypeOK
<1>3. ~ Settling  BY <1>1 DEF Together, Settled
<1>4. ~ Settling'  BY <1>1, <1>2, <1>3 DEF Settling
<1>5. Lockstep'  BY <1>1, <1>2 DEF Together, Lockstep, Between
<1>6. InVote'  BY <1>1, <1>2 DEF Together, InVote, Opens, Kind, Voting, Between
<1>7. Settled' /\ Agreed'  BY <1>1, <1>3, <1>4 DEF Together, Settled, Agreed
<1> QED  BY <1>5, <1>6, <1>7 DEF Together

LEMMA AllReduceKeeps ==
  ASSUME TypeOK, Together, AllReduce
  PROVE  Together'
<1>1. /\ \A q \in Ranks : pc[q] = "all_reduce" /\ pc'[q] = "settle"
                          /\ tally'[q] = Cardinality({x \in Ranks : vote[x]})
      /\ UNCHANGED <<calls, pos, state, vote, pair, top>>
  BY DEF AllReduce
<1>2. ~ Settling  BY <1>1 DEF Settling
<1>3. Lockstep'  BY <1>1 DEF Together, Lockstep, Between
<1>4. InVote'  BY <1>1 DEF Together, InVote, Opens, Kind, Voting, Between
<1>5. Settled'  BY <1>1 DEF Settled
<1>6. Agreed'  BY <1>1, <1>2 DEF Together, Agreed
<1> QED  BY <1>3, <1>4, <1>5, <1>6 DEF Together

LEMMA SettleKeeps ==
  ASSUME TypeOK, Together, TP > 1, NEW r \in Ranks, Settle(r)
  PROVE  Together'
<1>1. /\ pc[r] = "settle" /\ pc' = [pc EXCEPT ![r] = "head"]
      /\ state' = [state EXCEPT ![Kind(r)][r] = IF Unanimous(r) THEN "packed" ELSE "refused"]
      /\ UNCHANGED <<calls, pos, vote, tally, pair, top>>
  BY DEF Settle, Goto
<1>2. DOMAIN pc = Ranks /\ state \in [Heads -> [Ranks -> {"undecided", "packed", "refused"}]]
  BY DEF TypeOK
<1>3. Settling  BY <1>1 DEF Settling
<1>4. \A q \in Ranks : pos[q] = pos[r] /\ Kind(q) = Kind(r) /\ Kind(q)' = Kind(r)
                      /\ pc[q] \notin Between
  BY <1>1, <1>3, SameCall DEF Kind
<1>5. Kind(r) \in Heads
  <2>1. pos[r] \in 1 .. Len(calls)  BY <1>1 DEF TypeOK
  <2>2. \A c \in Seq(Calls), i \in Nat : i \in 1 .. Len(c) => c[i] \in Calls  OBVIOUS
  <2>3. calls[pos[r]] \in Calls  BY <2>1, <2>2 DEF TypeOK
  <2> QED  BY <2>3 DEF Kind, Calls
<1>6. (IF Unanimous(r) THEN "packed" ELSE "refused") = Verdict
  <2>1. tally[r] = Cardinality({q \in Ranks : vote[q]})  BY <1>3 DEF Together, Settled
  <2>2. tally[r] = TP <=> \A q \in Ranks : vote[q]  BY <2>1, Unanimity
  <2>3. Unanimous(r) <=> \A q \in Ranks : vote[q]  BY <2>2 DEF Unanimous
  <2> QED  BY <2>3 DEF Verdict
<1>7. /\ state'[Kind(r)][r] = Verdict
      /\ \A k \in Heads, q \in Ranks : k # Kind(r) \/ q # r => state'[k][q] = state[k][q]
  BY <1>1, <1>2, <1>5, <1>6
<1>8. Verdict' = Verdict /\ Verdict # "undecided"  BY <1>1 DEF Verdict
<1>9. Lockstep'  BY <1>1, <1>2 DEF Together, Lockstep, Between
<1>10. InVote'
  <2> SUFFICES ASSUME NEW q \in Ranks, pc'[q] \notin Between
               PROVE  pc'[q] \in Voting <=> Opens(q)'
    BY DEF InVote
  <2>1. CASE q = r  BY <1>1, <1>2, <1>4, <1>7, <1>8, <2>1 DEF Opens, Voting
  <2>2. CASE q # r
    <3>1. pc'[q] = pc[q] /\ state'[Kind(q)][q] = state[Kind(q)][q]  BY <1>1, <1>2, <1>4, <1>5, <1>7, <2>2
    <3> QED  BY <1>1, <1>4, <3>1 DEF Together, InVote, Opens
  <2> QED  BY <2>1, <2>2
<1>11. Settled'
  <2> SUFFICES ASSUME NEW q \in Ranks
               PROVE  /\ pc'[q] \in {"settle", "head", "all_gather"}
                      /\ tally'[q] = Cardinality({x \in Ranks : vote'[x]})
                      /\ pc'[q] # "settle" => state'[Kind(q)'][q] = Verdict'
    BY DEF Settled
  <2>1. CASE q = r  BY <1>1, <1>2, <1>3, <1>4, <1>7, <1>8, <2>1 DEF Together, Settled
  <2>2. CASE q # r
    <3>1. pc'[q] = pc[q] /\ state'[Kind(q)'][q] = state[Kind(q)][q]
      BY <1>1, <1>2, <1>4, <1>5, <1>7, <2>2
    <3> QED  BY <1>1, <1>3, <1>8, <3>1 DEF Together, Settled
  <2> QED  BY <2>1, <2>2
<1>12. Agreed'
  <2> SUFFICES ASSUME NEW k \in Heads, NEW a \in Ranks, NEW b \in Ranks
               PROVE  state'[k][a] = state'[k][b] \/ (Settling' /\ k = Kind(a)')
    BY DEF Agreed
  <2>1. CASE k # Kind(r)
    <3>1. state[k][a] = state[k][b]  BY <1>4, <2>1 DEF Together, Agreed
    <3> QED  BY <1>7, <2>1, <3>1
  <2>2. CASE k = Kind(r) /\ Settling'  BY <1>4, <2>2
  <2>3. CASE k = Kind(r) /\ ~ Settling'
    <3>1. \A q \in Ranks : state'[k][q] = Verdict
      <4> SUFFICES ASSUME NEW q \in Ranks PROVE state'[k][q] = Verdict  OBVIOUS
      <4>1. CASE q = r  BY <1>7, <2>3, <4>1
      <4>2. CASE q # r
        <5>1. pc[q] # "settle"  BY <1>1, <1>2, <2>3, <4>2 DEF Settling
        <5>2. state[k][q] = Verdict  BY <1>3, <1>4, <2>3, <5>1 DEF Together, Settled
        <5> QED  BY <1>7, <4>2, <5>2
      <4> QED  BY <4>1, <4>2
    <3> QED  BY <3>1
  <2> QED  BY <2>1, <2>2, <2>3
<1> QED  BY <1>9, <1>10, <1>11, <1>12 DEF Together

LEMMA LocalArgmaxKeeps ==
  ASSUME TypeOK, Together, TP > 1, NEW r \in Ranks, LocalArgmax(r)
  PROVE  Together'
<1>1. /\ pc[r] = "head" /\ pc' = [pc EXCEPT ![r] = "all_gather"]
      /\ UNCHANGED <<calls, pos, state, vote, tally, top>>
  BY DEF LocalArgmax, Goto
<1>2. DOMAIN pc = Ranks  BY DEF TypeOK
<1>3. Settling' = Settling /\ Verdict' = Verdict  BY <1>1, <1>2 DEF Settling, Verdict
<1>4. \A q \in Ranks : Kind(q)' = Kind(q)  BY <1>1 DEF Kind
<1>5. Lockstep'  BY <1>1, <1>2 DEF Together, Lockstep, Between
<1>6. InVote'  BY <1>1, <1>2 DEF Together, InVote, Opens, Kind, Voting, Between
<1>7. Settled'  BY <1>1, <1>2, <1>3, <1>4 DEF Together, Settled
<1>8. Agreed'  BY <1>1, <1>3, <1>4 DEF Together, Agreed
<1> QED  BY <1>5, <1>6, <1>7, <1>8 DEF Together

LEMMA AllGatherKeeps ==
  ASSUME TypeOK, Together, AllGather
  PROVE  Together'
<1>1. /\ \A q \in Ranks : pc[q] = "all_gather" /\ pc'[q] = "reduce"
      /\ UNCHANGED <<calls, pos, state, vote, tally, pair>>
  BY DEF AllGather
<1>2. Len(top') = Len(top) + 1
  <2>1. PICK w \in Ranks : top' = Append(top, pair[w])  BY DEF AllGather
  <2>2. top \in Seq(Pairs)  BY DEF TypeOK
  <2> QED  BY <2>1, <2>2
<1>3. ~ Settling /\ ~ Settling'  BY <1>1 DEF Settling
<1>4. Lockstep'  BY <1>1, <1>2 DEF Together, Lockstep, Between
<1>5. InVote'  BY <1>1 DEF InVote, Between
<1>6. Settled' /\ Agreed'  BY <1>1, <1>3 DEF Together, Settled, Agreed
<1> QED  BY <1>4, <1>5, <1>6 DEF Together

LEMMA ReduceKeeps ==
  ASSUME TypeOK, Together, TP > 1, NEW r \in Ranks, Reduce(r)
  PROVE  Together'
<1>1. /\ pc[r] = "reduce" /\ pc' = [pc EXCEPT ![r] = "ready"]
      /\ UNCHANGED <<calls, pos, state, vote, tally, pair, top>>
  BY HeadAssumption DEF Reduce, Goto
<1>2. DOMAIN pc = Ranks  BY DEF TypeOK
<1>3. ~ Settling  BY <1>1 DEF Together, Settled
<1>4. ~ Settling'  BY <1>1, <1>2, <1>3 DEF Settling
<1>5. Lockstep'  BY <1>1, <1>2 DEF Together, Lockstep, Between
<1>6. InVote'  BY <1>1, <1>2 DEF Together, InVote, Opens, Kind, Between
<1>7. Settled' /\ Agreed'  BY <1>1, <1>3, <1>4 DEF Together, Settled, Agreed
<1> QED  BY <1>5, <1>6, <1>7 DEF Together

----------------------------------------------------------------------------
(* The invariant, and what follows from it.                                *)

LEMMA IInvInit == Init => IInv
BY TypeInit, TogetherInit DEF IInv, Together

LEMMA IInvStep == IInv /\ [Next]_vars => IInv'
<1> SUFFICES ASSUME IInv, [Next]_vars, TP > 1 PROVE Together'
  BY TypeStep DEF IInv, Together
<1> USE DEF IInv
<1>1. TypeOK /\ Together  BY DEF Together
<1>2. CASE NewCall  BY <1>1, <1>2, NewCallKeeps
<1>3. ASSUME NEW r \in Ranks, RankNext(r) PROVE Together'
  BY <1>1, <1>3, BeginKeeps, EvaluateGuardsKeeps, SettleKeeps, LocalArgmaxKeeps, ReduceKeeps DEF RankNext
<1>4. CASE AllReduce  BY <1>1, <1>4, AllReduceKeeps
<1>5. CASE AllGather  BY <1>1, <1>5, AllGatherKeeps
<1>6. ASSUME NEW r \in Ranks, Raise(r) PROVE Together'
  BY <1>1, <1>6, RaiseKeeps
<1>7. CASE UNCHANGED vars
  BY <1>1, <1>7 DEF vars, Together, Lockstep, InVote, Opens, Kind, Settled, Settling, Verdict, Agreed
<1> QED  BY <1>2, <1>3, <1>4, <1>5, <1>6, <1>7 DEF Next, Quiet

LEMMA IInvAgrees == IInv => SameVerdict
<1> SUFFICES ASSUME IInv, NEW k \in Heads, NEW r \in Ranks, NEW q \in Ranks,
                    state[k][r] = "packed", state[k][q] = "refused"
             PROVE  FALSE
  BY DEF SameVerdict
<1>1. CASE TP = 1
  <2>1. r = 0 /\ q = 0  BY <1>1 DEF Ranks
  <2> QED  BY <2>1
<1>2. CASE TP > 1
  <2>1. Together /\ TypeOK  BY <1>2 DEF IInv, Together
  <2>2. Settling /\ k = Kind(r)  BY <2>1 DEF Together, Agreed
  <2>3. Kind(q) = Kind(r) /\ pc[r] \notin Between /\ pc[q] \notin Between  BY <2>1, <2>2, SameCall
  <2>4. pc[r] # "settle" /\ pc[q] # "settle"
    BY <2>1, <2>2, <2>3 DEF Together, InVote, Opens, Voting
  <2> QED  BY <2>1, <2>2, <2>3, <2>4 DEF Together, Settled
<1> QED  BY <1>1, <1>2, HeadAssumption

LEMMA IInvHolds == Spec => []IInv
<1>1. Init => IInv  BY IInvInit
<1>2. IInv /\ [Next]_vars => IInv'  BY IInvStep
<1> QED  BY <1>1, <1>2, PTL DEF Spec

(* Calls, ranks and pairs stay what they are; in particular a rank never   *)
(* waits in a call there has not been.                                     *)
THEOREM TypeCorrect == Spec => []TypeOK
<1>1. IInv => TypeOK  BY DEF IInv
<1> QED  BY <1>1, IInvHolds, PTL

(* "Decide ONCE, identically on every TP rank": no two ranks ever hold     *)
(* different verdicts on a head, for any number of ranks, calls and        *)
(* outcomes of the guards.                                                 *)
THEOREM OneVerdict == Spec => []SameVerdict
<1>1. IInv => SameVerdict  BY IInvAgrees
<1> QED  BY <1>1, IInvHolds, PTL

----------------------------------------------------------------------------
(* The token.                                                              *)

(* A rank alone is in the call after the last that has a token, or done.   *)
Alone ==
  \A r \in Ranks :
    \/ pc[r] = "ready" /\ pos[r] = Len(top)
    \/ pc[r] \notin {"ready", "all_gather"} /\ pos[r] = Len(top) + 1

(* A rank whose pair is still to be reduced. *)
Offers(r) == pc[r] = IF TP > 1 THEN "all_gather" ELSE "reduce"

Logits(r) == calls[pos[r]].logits

(* What it offers is the best of its shard in this call, in the scale of   *)
(* the head it has settled on.                                             *)
Offer(r) ==
  /\ pair[r].token \in Masked(r)
  /\ \A u \in Masked(r) : Logits(r)[u] <= Logits(r)[pair[r].token]
  /\ pair[r].value = Logits(r)[pair[r].token] + Offset[HeadOf(r)]

Offered == \A r \in Ranks : Offers(r) => Offer(r)

TokenInv == IInv /\ (TP = 1 => Alone) /\ Offered /\ TopIsBest

(* The rows of the vocabulary that are not padding. *)
Real == {tok \in 0 .. TP * ShardSize - 1 : tok % ShardSize < ShardSize - Padding[tok \div ShardSize]}

(* They are the unmasked rows of the shards. *)
LEMMA RealRows ==
  /\ \A r \in Ranks : Masked(r) \subseteq Real
  /\ \A tok \in Real : \E r \in Ranks : tok \in Masked(r)
<1>0. /\ TP \in Nat /\ TP >= 1 /\ ShardSize \in Nat /\ ShardSize >= 1
      /\ \A r \in Ranks : r \in Nat /\ r <= TP - 1 /\ Padding[r] \in 0 .. ShardSize-1
  BY HeadAssumption DEF Ranks
<1>1. ASSUME NEW tok \in Nat, NEW r \in Nat, NEW x \in Nat, tok = r * ShardSize + x, x < ShardSize
      PROVE  tok \div ShardSize = r /\ tok % ShardSize = x
  <2>1. /\ tok \div ShardSize \in Nat /\ tok % ShardSize \in Nat /\ tok % ShardSize < ShardSize
        /\ tok = (tok \div ShardSize) * ShardSize + (tok % ShardSize)
    BY <1>0
  <2> DEFINE a == tok \div ShardSize  b == tok % ShardSize
  <2>2. a \in Nat /\ b \in Nat /\ b < ShardSize /\ a * ShardSize + b = r * ShardSize + x
    BY <1>1, <2>1
  <2> HIDE DEF a, b
  <2>3. ASSUME a < r PROVE FALSE
    <3>1. r = a + 1 + (r - a - 1) /\ r - a - 1 \in Nat  BY <2>2, <2>3
    <3>2. r * ShardSize = a * ShardSize + ShardSize + (r - a - 1) * ShardSize  BY <1>0, <2>2, <3>1
    <3>3. (r - a - 1) * ShardSize \in Nat /\ a * ShardSize \in Nat  BY <1>0, <2>2, <3>1
    <3> QED  BY <1>0, <1>1, <2>2, <3>2, <3>3
  <2>4. ASSUME r < a PROVE FALSE
    <3>1. a = r + 1 + (a - r - 1) /\ a - r - 1 \in Nat  BY <2>2, <2>4
    <3>2. a * ShardSize = r * ShardSize + ShardSize + (a - r - 1) * ShardSize  BY <1>0, <2>2, <3>1
    <3>3. (a - r - 1) * ShardSize \in Nat /\ r * ShardSize \in Nat  BY <1>0, <2>2, <3>1
    <3> QED  BY <1>0, <1>1, <2>2, <3>2, <3>3
  <2>5. a = r  BY <2>2, <2>3, <2>4
  <2>6. b = x  BY <1>0, <1>1, <2>2, <2>5
  <2> QED  BY <2>5, <2>6 DEF a, b
<1>2. ASSUME NEW r \in Ranks, NEW tok \in Masked(r) PROVE tok \in Real
  <2> DEFINE x == tok - r * ShardSize
  <2>1. /\ r \in Nat /\ Padding[r] \in Nat /\ Padding[r] < ShardSize
        /\ r * ShardSize \in Nat /\ (r + 1) * ShardSize = r * ShardSize + ShardSize
    BY <1>0
  <2>2. tok \in 0 .. TP * ShardSize - 1 /\ tok \in Nat  BY TokenInVocabulary
  <2>3. x \in Nat /\ x < ShardSize - Padding[r] /\ x < ShardSize /\ tok = r * ShardSize + x
    BY <1>0, <2>1, <2>2 DEF Masked
  <2> HIDE DEF x
  <2>4. tok \div ShardSize = r /\ tok % ShardSize = x  BY <1>1, <2>1, <2>2, <2>3
  <2> QED  BY <2>2, <2>3, <2>4 DEF Real
<1>3. ASSUME NEW tok \in Real PROVE \E r \in Ranks : tok \in Masked(r)
  <2> DEFINE r == tok \div ShardSize  x == tok % ShardSize
  <2>1. /\ TP * ShardSize \in Nat /\ tok \in Nat /\ tok < TP * ShardSize
        /\ x < ShardSize - Padding[r]
    BY <1>0 DEF Real
  <2>2. r \in Nat /\ x \in Nat /\ tok = r * ShardSize + x  BY <1>0, <2>1
  <2> HIDE DEF r, x
  <2>3. r <= TP - 1
    <3> SUFFICES ASSUME TP <= r PROVE FALSE  BY <1>0, <2>2
    <3>1. r * ShardSize = TP * ShardSize + (r - TP) * ShardSize  BY <1>0, <2>2
    <3>2. (r - TP) * ShardSize \in Nat  BY <1>0, <2>2
    <3> QED  BY <2>1, <2>2, <3>1, <3>2
  <2>4. r \in Ranks  BY <1>0, <2>2, <2>3 DEF Ranks
  <2>5. (r + 1) * ShardSize = r * ShardSize + ShardSize /\ r * ShardSize \in Nat  BY <1>0, <2>2
  <2>6. tok \in Masked(r)  BY <1>0, <2>1, <2>2, <2>4, <2>5 DEF Masked
  <2> QED  BY <2>4, <2>6
<1> QED  BY <1>2, <1>3

(* The calls that have a token stay what they are. *)
LEMMA TopKept ==
  ASSUME TypeOK, TopIsBest, Len(top) <= Len(calls), top' = top,
         calls' = calls \/ NewCall
  PROVE  TopIsBest'
<1>1. top \in Seq(Pairs) /\ calls \in Seq(Calls)  BY DEF TypeOK
<1>2. \A n \in 1 .. Len(top) : calls'[n] = calls[n]
  <2>1. CASE calls' = calls  BY <2>1
  <2>2. CASE NewCall
    <3>1. PICK c : calls' = Append(calls, c)  BY <2>2 DEF NewCall
    <3> QED  BY <1>1, <3>1
  <2> QED  BY <2>1, <2>2
<1> QED  BY <1>2 DEF TopIsBest

(* The best of the shards' best is the best of all. *)
LEMMA TopAppended ==
  ASSUME TypeOK, TopIsBest, NEW w \in Ranks, top' = Append(top, pair[w]), calls' = calls,
         \A r \in Ranks : /\ Offer(r) /\ pos[r] = Len(top) + 1 /\ HeadOf(r) = HeadOf(w)
                          /\ pair[r].value <= pair[w].value
  PROVE  TopIsBest'
<1>1. top \in Seq(Pairs)  BY DEF TypeOK
<1> DEFINE N == Len(top) + 1  l == Logits(w)
<1>2. /\ N \in Nat /\ Len(top') = N /\ top'[N] = pair[w]
      /\ \A n \in 1 .. Len(top) : top'[n] = top[n]
  BY <1>1
<1>3. calls'[N].logits = l  BY DEF Logits
<1>4. pair[w].token \in Real  BY RealRows DEF Offer
<1>5. \A tok \in Real : l[tok] \in Nat
  <2>1. pos[w] \in 1 .. Len(calls)  BY <1>2 DEF TypeOK
  <2>2. \A s \in Seq(Calls), i \in Nat : i \in 1 .. Len(s) => s[i] \in Calls  OBVIOUS
  <2>3. calls[pos[w]] \in Calls  BY <2>1, <2>2 DEF TypeOK
  <2> QED  BY <2>3, HeadAssumption DEF Calls, Logits, Real
<1>6. ASSUME NEW u \in Real PROVE l[u] <= l[pair[w].token]
  <2>1. PICK r \in Ranks : u \in Masked(r)  BY RealRows
  <2>2. Logits(r) = l  BY DEF Logits
  <2>3. l[u] <= l[pair[r].token]  BY <2>1, <2>2 DEF Offer
  <2>4. l[pair[r].token] + Offset[HeadOf(w)] <= l[pair[w].token] + Offset[HeadOf(w)]
    BY <2>2 DEF Offer
  <2>5. pair[r].token \in Real  BY RealRows DEF Offer
  <2>6. Offset[HeadOf(w)] \in Nat  BY DEF HeadOf, Offset
  <2> HIDE DEF l
  <2> QED  BY <1>4, <1>5, <2>3, <2>4, <2>5, <2>6
<1>7. \A n \in 1 .. Len(top) :
        /\ top'[n].token \in Real
        /\ \A u \in Real : calls'[n].logits[u] <= calls'[n].logits[top'[n].token]
  BY <1>2 DEF TopIsBest, Real
<1>8. \A n \in 1 .. N : n = N \/ n \in 1 .. Len(top)  BY <1>1
<1> HIDE DEF N, l
<1> QED  BY <1>2, <1>3, <1>4, <1>6, <1>7, <1>8 DEF TopIsBest, Real

(* An offer stands while nothing it rests on changes. *)
LEMMA OfferKept ==
  ASSUME TypeOK, NEW q \in Ranks, Offer(q), pc[q] # "ready",
         pair'[q] = pair[q], pos'[q] = pos[q], calls' = calls \/ NewCall,
         \A k \in Heads : state'[k][q] = state[k][q]
  PROVE  Offer(q)'
<1>1. calls'[pos'[q]] = calls[pos[q]]
  <2>1. pos[q] \in 1 .. Len(calls)  BY DEF TypeOK
  <2>2. CASE calls' = calls  BY <2>2
  <2>3. CASE NewCall
    <3>1. PICK c : calls' = Append(calls, c)  BY <2>3 DEF NewCall
    <3>2. calls \in Seq(Calls)  BY DEF TypeOK
    <3> QED  BY <2>1, <3>1, <3>2
  <2> QED  BY <2>2, <2>3
<1>2. HeadOf(q)' = HeadOf(q)  BY <1>1 DEF HeadOf, Kind, Heads
<1>3. Logits(q)' = Logits(q)  BY <1>1 DEF Logits
<1> QED  BY <1>2, <1>3 DEF Offer

LEMMA OfferedStep == TypeOK /\ (TP = 1 => Alone) /\ Offered /\ [Next]_vars => Offered'
<1> SUFFICES ASSUME TypeOK, TP = 1 => Alone, Offered, [Next]_vars, NEW q \in Ranks, Offers(q)'
             PROVE  Offer(q)'
  BY DEF Offered
<1>0. DOMAIN pc = Ranks /\ DOMAIN pair = Ranks /\ DOMAIN pos = Ranks  BY DEF TypeOK
<1>1. ASSUME pc'[q] = pc[q], pair'[q] = pair[q], pos'[q] = pos[q], calls' = calls \/ NewCall,
             \A k \in Heads : state'[k][q] = state[k][q]
      PROVE  Offer(q)'
  <2>1. Offers(q) /\ pc[q] # "ready"  BY <1>1 DEF Offers
  <2>2. Offer(q)  BY <2>1 DEF Offered
  <2> QED  BY <1>1, <2>1, <2>2, OfferKept
<1>2. CASE NewCall  BY <1>1, <1>2 DEF NewCall
<1>3. ASSUME NEW r \in Ranks, Begin(r) PROVE Offer(q)'
  BY <1>0, <1>1, <1>3 DEF Begin, Goto, Offers
<1>4. ASSUME NEW r \in Ranks, EvaluateGuards(r) PROVE Offer(q)'
  BY <1>0, <1>1, <1>4 DEF EvaluateGuards, Goto, Offers
<1>5. ASSUME NEW r \in Ranks, Raise(r) PROVE Offer(q)'
  BY <1>0, <1>1, <1>5 DEF Raise, Goto, Offers
<1>6. CASE AllReduce  BY <1>6 DEF AllReduce, Offers
<1>7. ASSUME NEW r \in Ranks, Settle(r) PROVE Offer(q)'
  <2>1. q # r  BY <1>0, <1>7 DEF Settle, Goto, Offers
  <2>2. \A k \in Heads : state'[k][q] = state[k][q]  BY <1>7, <2>1 DEF Settle, TypeOK
  <2> QED  BY <1>0, <1>1, <1>7, <2>1, <2>2 DEF Settle, Goto
<1>8. ASSUME NEW r \in Ranks, LocalArgmax(r) PROVE Offer(q)'
  <2>1. CASE q # r  BY <1>0, <1>1, <1>8, <2>1 DEF LocalArgmax, Goto
  <2>2. CASE q = r
    <3>1. PICK tok \in Masked(r) :
            /\ \A u \in Masked(r) : Logits(r)[u] <= Logits(r)[tok]
            /\ pair' = [pair EXCEPT ![r] = [value |-> Logits(r)[tok] + Offset[HeadOf(r)],
                                            token |-> tok, head |-> HeadOf(r)]]
      BY <1>8 DEF LocalArgmax, Logits
    <3>2. HeadOf(r)' = HeadOf(r) /\ Logits(r)' = Logits(r)
      BY <1>8 DEF LocalArgmax, HeadOf, Kind, Logits
    <3>3. pair'[r].token = tok /\ pair'[r].value = Logits(r)[tok] + Offset[HeadOf(r)]  BY <1>0, <3>1
    <3> QED  BY <2>2, <3>1, <3>2, <3>3 DEF Offer
  <2> QED  BY <2>1, <2>2
<1>9. CASE AllGather
  <2>1. pc[q] = "all_gather" /\ pc'[q] = "reduce"  BY <1>9 DEF AllGather
  <2>2. TP = 1  BY <2>1, HeadAssumption DEF Offers
  <2> QED  BY <2>1, <2>2 DEF Alone
<1>10. ASSUME NEW r \in Ranks, Reduce(r) PROVE Offer(q)'
  BY <1>0, <1>1, <1>10 DEF Reduce, Goto, Offers
<1>11. CASE UNCHANGED vars  BY <1>1, <1>11 DEF vars
<1> QED  BY <1>2, <1>3, <1>4, <1>5, <1>6, <1>7, <1>8, <1>9, <1>10, <1>11 DEF Next, RankNext, Quiet

LEMMA AloneStep == TypeOK /\ TP = 1 /\ Alone /\ [Next]_vars => Alone'
<1> SUFFICES ASSUME TypeOK, TP = 1, Alone, [Next]_vars, NEW q \in Ranks
             PROVE  \/ pc'[q] = "ready" /\ pos'[q] = Len(top')
                    \/ pc'[q] \notin {"ready", "all_gather"} /\ pos'[q] = Len(top') + 1
  BY DEF Alone
<1>0. /\ DOMAIN pc = Ranks /\ DOMAIN pos = Ranks /\ \A r \in Ranks : r = q
      /\ top \in Seq(Pairs) /\ pos[q] \in Nat
      /\ \/ pc[q] = "ready" /\ pos[q] = Len(top)
         \/ pc[q] \notin {"ready", "all_gather"} /\ pos[q] = Len(top) + 1
  BY DEF TypeOK, Ranks, Alone
<1>1. CASE NewCall  BY <1>0, <1>1 DEF NewCall
<1>2. ASSUME NEW r \in Ranks, Begin(r) PROVE pc'[q] \in {"guards", "head"} /\ pos'[q] = Len(top') + 1
  BY <1>0, <1>2 DEF Begin, Goto
<1>3. ASSUME NEW r \in Ranks, EvaluateGuards(r) \/ Raise(r) \/ Settle(r) \/ LocalArgmax(r)
      PROVE  pc'[q] \notin {"ready", "all_gather"} /\ pos'[q] = Len(top') + 1
  BY <1>0, <1>3 DEF EvaluateGuards, Raise, Settle, LocalArgmax, Goto
<1>4. CASE AllReduce  BY <1>0, <1>4 DEF AllReduce
<1>5. CASE AllGather  BY <1>0, <1>5 DEF AllGather
<1>6. ASSUME NEW r \in Ranks, Reduce(r) PROVE pc'[q] = "ready" /\ pos'[q] = Len(top')
  <2>1. Len(Append(top, pair[r])) = Len(top) + 1  BY <1>0
  <2> QED  BY <1>0, <1>6, <2>1 DEF Reduce, Goto
<1>7. CASE UNCHANGED vars  BY <1>0, <1>7 DEF vars
<1> QED  BY <1>1, <1>2, <1>3, <1>4, <1>5, <1>6, <1>7 DEF Next, RankNext, Quiet

LEMMA TopStep == TokenInv /\ [Next]_vars => TopIsBest'
<1> SUFFICES ASSUME TokenInv, [Next]_vars PROVE TopIsBest'
  OBVIOUS
<1>1. TypeOK /\ TopIsBest /\ Offered  BY DEF TokenInv, IInv
<1>2. Len(top) <= Len(calls)
  <2>1. 0 \in Ranks  BY HeadAssumption DEF Ranks
  <2>2. Len(top) \in Nat /\ Len(calls) \in Nat /\ pos[0] \in Nat /\ pos[0] <= Len(calls)
    BY <1>1, <2>1 DEF TypeOK
  <2>3. pos[0] = Len(top) \/ pos[0] = Len(top) + 1
    BY <2>1, HeadAssumption DEF TokenInv, IInv, Lockstep, Alone
  <2> QED  BY <2>2, <2>3
<1>3. CASE AllGather /\ TP > 1
  <2>1. Together  BY <1>3 DEF TokenInv, IInv, Together
  <2>2. PICK w \in Ranks : /\ \A r \in Ranks : pair[r].value <= pair[w].value
                           /\ top' = Append(top, pair[w])
    BY <1>3 DEF AllGather
  <2>3. \A r \in Ranks : pc[r] = "all_gather" /\ pos[r] = Len(top) + 1
    BY <1>3, <2>1 DEF AllGather, Together, Lockstep, Between
  <2>4. \A r \in Ranks : Offer(r)  BY <1>1, <1>3, <2>3 DEF Offered, Offers
  <2>5. ~ Settling  BY <2>3 DEF Settling
  <2>6. \A r \in Ranks : HeadOf(r) = HeadOf(w)
    BY <2>1, <2>3, <2>5, AllAgree DEF Together, HeadOf, Kind, Heads
  <2> QED  BY <1>1, <1>3, <2>2, <2>3, <2>4, <2>6, TopAppended DEF AllGather
<1>4. ASSUME NEW w \in Ranks, Reduce(w), TP = 1 PROVE TopIsBest'
  <2>1. \A r \in Ranks : r = w  BY <1>4 DEF Ranks
  <2>2. Offer(w) /\ pos[w] = Len(top) + 1
    BY <1>1, <1>4 DEF Offered, Offers, Reduce, TokenInv, Alone
  <2>3. pair[w].value <= pair[w].value
    BY <1>1 DEF TypeOK, Pairs
  <2> QED  BY <1>1, <1>4, <2>1, <2>2, <2>3, TopAppended DEF Reduce
<1>5. CASE top' = top /\ (calls' = calls \/ NewCall)  BY <1>1, <1>2, <1>5, TopKept
<1>6. ~ (AllGather /\ TP = 1)
  <2>1. 0 \in Ranks  BY HeadAssumption DEF Ranks
  <2> QED  BY <2>1 DEF AllGather, TokenInv, Alone
<1>7. \/ \E w \in Ranks : Reduce(w) /\ TP = 1
      \/ AllGather
      \/ top' = top /\ (calls' = calls \/ NewCall)
  BY DEF Next, RankNext, Quiet, vars, NewCall, Begin, EvaluateGuards, Raise, AllReduce, Settle,
         LocalArgmax, Reduce
<1> QED  BY <1>3, <1>4, <1>5, <1>6, <1>7, HeadAssumption

LEMMA TokenInvInit == Init => TokenInv
<1> SUFFICES ASSUME Init PROVE TokenInv  OBVIOUS
<1>1. Len(top) = 0 /\ \A r \in Ranks : pc[r] = "ready" /\ pos[r] = 0  BY DEF Init
<1>2. TopIsBest /\ Offered /\ Alone  BY <1>1 DEF TopIsBest, Offered, Offers, Alone
<1> QED  BY <1>2, IInvInit DEF TokenInv

(* The token of every call is the unmasked row with the largest logit over *)
(* all shards, for any number of ranks and any padding: the values the     *)
(* reduction compares come from one kind of head and from one call.        *)
THEOREM TokenIsBest == Spec => []TopIsBest
<1>1. Init => TokenInv  BY TokenInvInit
<1>2. TokenInv /\ [Next]_vars => TokenInv'
  BY IInvStep, AloneStep, OfferedStep, TopStep DEF TokenInv, IInv
<1>3. TokenInv => TopIsBest  BY DEF TokenInv
<1> QED  BY <1>1, <1>2, <1>3, PTL DEF Spec

-----------------------------------------------------------------------------
(***************************************************************************)
(* The benchmark.  A steady window holds what the engine did in it.        *)
(*                                                                         *)
(* The argument: a stream posts once.  When the engine publishes that all  *)
(* B streams run, none of them waits and none will again (AllIn), so from  *)
(* then on the running streams only get fewer; what is published is never  *)
(* less than what runs (Published).  If B are published a second time, no  *)
(* step between the two ran with fewer: each added B drafts (Exact).  That *)
(* holds of every two rows, since a row is a copy of what was published    *)
(* (Scraped).                                                              *)
(***************************************************************************)

Late == {"read", "done", "failed"}
Statuses == {"made", "started", "barrier", "post"} \cup Late
Counts == [drafts : Nat, running : Nat, steps : Nat]
Rows == [drafts : Nat, running : Nat, steps : Nat, later : BOOLEAN]

BenchTypeOK ==
  /\ ths \in [Streams -> Statuses] /\ rows \in Seq(Rows) /\ metrics \in Counts
  /\ waiting \in SUBSET Streams /\ running \in SUBSET Streams
  /\ drafts \in Nat /\ steps \in Nat

(* A stream that has a request has posted it, and has it in one place. *)
Posted ==
  /\ \A i \in waiting \cup running : ths[i] \in Late
  /\ waiting \cap running = {}

(* What a scrape reads are the engine's counters, and no stream runs that  *)
(* was not counted.                                                        *)
Published ==
  /\ metrics.drafts = drafts /\ metrics.steps = steps
  /\ Cardinality(running) <= metrics.running /\ metrics.running <= B

(* Once all ran together nobody waits, and nobody will again.              *)
AllIn == waiting = {} /\ \A i \in Streams : ths[i] \in Late

Exact(r0, r1) ==
  /\ r0.steps <= r1.steps
  /\ r0.running = B /\ r1.running = B => r1.drafts - r0.drafts = B * (r1.steps - r0.steps)

Scraped ==
  /\ metrics.running = B => AllIn
  /\ \A k \in 1 .. Len(rows) : (rows[k].running = B => AllIn) /\ Exact(rows[k], metrics)
  /\ \A k \in 1 .. Len(rows) : \A j \in k .. Len(rows) : Exact(rows[k], rows[j])

BenchInv == BenchTypeOK /\ Posted /\ Published /\ Scraped

----------------------------------------------------------------------------
LEMMA StreamsCounted ==
  /\ IsFiniteSet(Streams) /\ Cardinality(Streams) = B
  /\ \A some \in SUBSET Streams :
       /\ IsFiniteSet(some) /\ Cardinality(some) \in Nat /\ Cardinality(some) <= B
       /\ Cardinality(some) = B => some = Streams
       /\ \A R \in SUBSET some : Cardinality(R) <= Cardinality(some)
<1> B \in Nat /\ B > 0
  BY BenchAssumption
<1>1. IsFiniteSet(Streams) /\ Cardinality(Streams) = B
  <2> (B - 1) \in Int /\ 0 \in Int
    OBVIOUS
  <2>1. IsFiniteSet(0 .. B - 1) /\ Cardinality(0 .. B - 1) = IF 0 > B - 1 THEN 0 ELSE (B - 1) - 0 + 1
    BY ONLY FS_Interval, (B - 1) \in Int, 0 \in Int
  <2> QED
    BY <2>1 DEF Streams
<1>2. ASSUME NEW some \in SUBSET Streams
      PROVE /\ IsFiniteSet(some) /\ Cardinality(some) \in Nat /\ Cardinality(some) <= B
            /\ Cardinality(some) = B => some = Streams
            /\ \A R \in SUBSET some : Cardinality(R) <= Cardinality(some)
  <2>1. IsFiniteSet(some) /\ Cardinality(some) <= Cardinality(Streams)
        /\ (Cardinality(Streams) = Cardinality(some) => Streams = some)
    BY <1>1, FS_Subset, Zenon
  <2>2. Cardinality(some) \in Nat
    BY <2>1, FS_CardinalityType, Zenon
  <2>3. \A R \in SUBSET some : Cardinality(R) <= Cardinality(some)
    BY <2>1, FS_Subset, Zenon
  <2> QED
    BY <1>1, <2>1, <2>2, <2>3
<1> QED
  BY <1>1, <1>2

LEMMA BenchInvInit == BenchInit => BenchInv
<1> SUFFICES ASSUME BenchInit PROVE BenchInv
  OBVIOUS
<1> B \in Nat \ {0}
  BY BenchAssumption
<1>1. Cardinality({}) = 0
  BY FS_EmptySet
<1> QED
  BY <1>1 DEF BenchInit, BenchInv, BenchTypeOK, Posted, Published, Scraped, Exact, AllIn,
     Statuses, Late, Counts, Rows

(* A step that leaves engine and rows alone, and sends no stream back. *)
LEMMA OnwardKeeps ==
  ASSUME BenchInv, UNCHANGED <<rows, engine>>,
         ths' \in [Streams -> Statuses], \A i \in Streams : ths[i] \in Late => ths'[i] \in Late
  PROVE  BenchInv'
BY DEF BenchInv, BenchTypeOK, Posted, Published, Scraped, Exact, AllIn, engine

LEMMA ReleaseKeeps == ASSUME BenchInv, ReleaseBarrier PROVE BenchInv'
<1> B \in Nat \ {0}
  BY BenchAssumption
<1>1. ~ \E i \in Streams : ths[i] \in Late
  <2>1. {i \in Streams : ths[i] = "barrier"} = Streams
    BY StreamsCounted DEF ReleaseBarrier, Parties
  <2> QED
    BY <2>1 DEF Late
<1> QED
  BY <1>1, OnwardKeeps DEF ReleaseBarrier, Statuses

LEMMA PostKeeps == ASSUME BenchInv, NEW i \in Streams, Post(i) PROVE BenchInv'
<1> ths[i] \notin Late
  BY DEF Post, Late
<1> QED
  BY DEF BenchInv, BenchTypeOK, Posted, Published, Scraped, Exact, AllIn, Post, Statuses, Late

LEMMA FailKeeps == ASSUME BenchInv, NEW i \in Streams, Fail(i) PROVE BenchInv'
<1>1. Cardinality(running') <= Cardinality(running) /\ Cardinality(running) \in Nat
        /\ Cardinality(running') \in Nat
  <2> running \in SUBSET Streams /\ running' \in SUBSET running
    BY DEF BenchInv, BenchTypeOK, Fail
  <2> QED
    BY StreamsCounted
<1>2. Published'
  BY <1>1 DEF BenchInv, BenchTypeOK, Published, Fail, Counts
<1>3. BenchTypeOK' /\ Posted' /\ Scraped'
  BY DEF BenchInv, BenchTypeOK, Posted, Scraped, Exact, AllIn, Fail, Statuses, Late
<1> QED
  BY <1>2, <1>3 DEF BenchInv

LEMMA SampleKeeps == ASSUME BenchInv, Sample PROVE BenchInv'
<1>1. CASE UNCHANGED rows
  BY <1>1, OnwardKeeps DEF Sample, BenchInv, BenchTypeOK
<1>2. ASSUME NEW later \in BOOLEAN, rows' = Append(rows, Stamped(metrics, later))
      PROVE  BenchInv'
  <2> DEFINE row == Stamped(metrics, later)
  <2> UNCHANGED <<ths, engine>>
    BY DEF Sample
  <2>0. row \in Rows /\ row.drafts = metrics.drafts /\ row.running = metrics.running /\ row.steps = metrics.steps
    BY DEF BenchInv, BenchTypeOK, Stamped, Counts, Rows
  <2> HIDE DEF row
  <2>1. BenchTypeOK' /\ Posted' /\ Published'
    BY <1>2, <2>0 DEF BenchInv, BenchTypeOK, Posted, Published, engine, row
  <2>2. rows \in Seq(Rows) /\ metrics \in Counts /\ metrics' = metrics /\ (AllIn <=> AllIn')
    BY DEF BenchInv, BenchTypeOK, engine, AllIn
  <2>3. Len(rows') = Len(rows) + 1 /\ Len(rows) \in Nat
    BY <1>2, <2>2
  <2>4. \A k \in 1 .. Len(rows') : rows'[k] = IF k \in 1 .. Len(rows) THEN rows[k] ELSE row
    BY <1>2, <2>0, <2>2 DEF row
  <2>5. Exact(row, metrics) /\ Exact(row, row) /\ \A r : Exact(r, metrics) => Exact(r, row)
    BY <2>0, <2>2, BenchAssumption DEF Exact, Counts
  <2>7. row.running = B => AllIn
    BY <2>0 DEF BenchInv, Scraped
  <2>6. Scraped'
    <3>1. Scraped
      BY DEF BenchInv
    <3>2. metrics'.running = B => AllIn'
      BY <2>2, <3>1 DEF Scraped
    <3>3. ASSUME NEW k \in 1 .. Len(rows') PROVE (rows'[k].running = B => AllIn') /\ Exact(rows'[k], metrics)
      <4> HIDE DEF Exact, AllIn
      <4> QED
      BY <2>2, <2>3, <2>4, <2>5, <2>7, <3>1 DEF Scraped
    <3>4. ASSUME NEW k \in 1 .. Len(rows'), NEW j \in k .. Len(rows') PROVE Exact(rows'[k], rows'[j])
      <4>1. CASE j \in 1 .. Len(rows)
        BY <4>1, <2>3, <2>4, <3>1 DEF Scraped
      <4>2. CASE j \notin 1 .. Len(rows)
        BY <4>2, <2>3, <2>4, <2>5, <3>1 DEF Scraped
      <4> QED
        BY <4>1, <4>2
    <3> QED
      BY <2>2, <3>2, <3>3, <3>4 DEF Scraped, Exact
  <2> QED
    BY <2>1, <2>6 DEF BenchInv
<1>3. UNCHANGED rows \/ \E later \in BOOLEAN : rows' = Append(rows, Stamped(metrics, later))
  BY DEF Sample
<1> QED
  BY <1>1, <1>2, <1>3

(* All B streams run at the end of a step: if they all did at an earlier   *)
(* reading they did at the step's begin, and it added B drafts.            *)
LEMMA EngineStepKeeps == ASSUME BenchInv, EngineStep PROVE BenchInv'
<1> B \in Nat \ {0}
  BY BenchAssumption
<1>0. running \in SUBSET Streams /\ waiting \in SUBSET Streams /\ drafts \in Nat /\ steps \in Nat
      /\ rows \in Seq(Rows) /\ metrics \in Counts
  BY DEF BenchInv, BenchTypeOK
<1>1. PICK admitted \in SUBSET waiting :
        /\ running' \in SUBSET (running \cup admitted) /\ waiting' = waiting \ admitted
  BY DEF EngineStep
<1>2. drafts' = drafts + Cardinality(running) /\ steps' = steps + 1
      /\ metrics' = [drafts |-> drafts', running |-> Cardinality(running'), steps |-> steps']
      /\ ths' = ths /\ rows' = rows
  BY DEF EngineStep, clients
<1>3. Cardinality(running) \in Nat /\ running' \in SUBSET Streams /\ Cardinality(running') \in Nat
      /\ Cardinality(running) <= B /\ Cardinality(running') <= B
      /\ (Cardinality(running') = B => running' = Streams)
  BY <1>0, <1>1, StreamsCounted
<1>4. BenchTypeOK' /\ Posted' /\ Published'
  <2>1. BenchTypeOK'
    BY <1>0, <1>1, <1>2, <1>3 DEF BenchInv, BenchTypeOK, Counts
  <2>2. Posted'
    BY <1>0, <1>1, <1>2 DEF BenchInv, Posted
  <2>3. Published'
    BY <1>2, <1>3 DEF Published
  <2> QED
    BY <2>1, <2>2, <2>3
<1>5. metrics'.running = B => AllIn'
  <2> SUFFICES ASSUME metrics'.running = B PROVE AllIn'
    OBVIOUS
  <2>1. running' = Streams
    BY <1>2, <1>3
  <2> QED
    BY <2>1, <1>1, <1>2, <1>4 DEF Posted, AllIn, BenchTypeOK
<1>6. AllIn => AllIn'
  BY <1>1, <1>2 DEF AllIn
<1>7. ASSUME NEW k \in 1 .. Len(rows) PROVE (rows'[k].running = B => AllIn') /\ Exact(rows[k], metrics')
  <2>1. (rows[k].running = B => AllIn) /\ Exact(rows[k], metrics) /\ rows[k] \in Rows
    BY <1>0, <1>7 DEF BenchInv, Scraped
  <2>2. rows[k].steps <= metrics'.steps
    BY <1>0, <1>2, <2>1 DEF Exact, BenchInv, Published, Rows, Counts
  <2>3. ASSUME rows[k].running = B, metrics'.running = B
        PROVE  metrics'.drafts - rows[k].drafts = B * (metrics'.steps - rows[k].steps)
    <3>1. running' = Streams /\ waiting = {}
      BY <1>2, <1>3, <2>1, <2>3 DEF AllIn
    <3>2. running = Streams
      BY <1>0, <1>1, <3>1
    <3>3. Cardinality(running) = B
      BY <3>2, StreamsCounted
    <3>4. metrics.running = B
      <4>1. metrics.running >= B
        BY <3>3, <1>0 DEF BenchInv, Published, Counts
      <4>2. metrics.running <= B
        BY DEF BenchInv, Published
      <4> QED
        BY <4>1, <4>2, <1>0 DEF Counts
    <3>5. drafts - rows[k].drafts = B * (steps - rows[k].steps)
      BY <2>1, <2>3, <3>4 DEF Exact, BenchInv, Published
    <3>6. metrics'.drafts = drafts + B /\ metrics'.steps = steps + 1
      BY <1>2, <3>3
    <3>7. B * ((steps + 1) - rows[k].steps) = B * (steps - rows[k].steps) + B
      <4>1. \A n \in Nat : B * ((steps + 1) - n) = B * (steps - n) + B
        BY <1>0
      <4> QED
        BY <4>1, <2>1 DEF Rows
    <3> QED
      BY <3>5, <3>6, <3>7, <1>0, <2>1 DEF Rows
  <2> QED
    BY <1>2, <1>6, <2>1, <2>2, <2>3 DEF Exact
<1>8. Scraped'
  BY <1>2, <1>5, <1>7 DEF BenchInv, Scraped, Exact
<1> QED
  BY <1>4, <1>8 DEF BenchInv

LEMMA BenchInvStep == BenchInv /\ [BenchNext]_benchVars => BenchInv'
<1> SUFFICES ASSUME BenchInv, [BenchNext]_benchVars PROVE BenchInv'
  OBVIOUS
<1> ths \in [Streams -> Statuses]
  BY DEF BenchInv, BenchTypeOK
<1>1. CASE RunOne
  <2>1. CASE StartStream
    BY <2>1, OnwardKeeps DEF StartStream, Statuses, Late
  <2>2. CASE FirstScrape \/ Join \/ LastScrape
    BY <2>2, OnwardKeeps DEF FirstScrape, Join, LastScrape
  <2> QED
    BY <1>1, <2>1, <2>2 DEF RunOne
<1>2. ASSUME NEW i \in Streams, Wait(i) \/ Read(i) PROVE BenchInv'
  BY <1>2, OnwardKeeps DEF Wait, Read, Statuses, Late
<1>3. CASE UNCHANGED benchVars
  BY <1>3, OnwardKeeps DEF benchVars, clients
<1> QED
  BY <1>1, <1>2, <1>3, SampleKeeps, ReleaseKeeps, EngineStepKeeps, PostKeeps, FailKeeps
  DEF BenchNext, Proceed

LEMMA BenchInvExact == BenchInv => SteadyIsExact
<1> SUFFICES ASSUME BenchInv PROVE SteadyIsExact
  OBVIOUS
<1> B \in Nat \ {0}
  BY BenchAssumption
<1>1. ASSUME NEW k \in 1 .. Len(rows) - 1
      PROVE  /\ Exact(rows[k], rows[k + 1])
             /\ rows[k] \in Rows /\ rows[k + 1] \in Rows
  <2>1. rows \in Seq(Rows) /\ Scraped
    BY DEF BenchInv, BenchTypeOK
  <2>2. k \in 1 .. Len(rows) /\ k + 1 \in k .. Len(rows) /\ k + 1 \in 1 .. Len(rows)
    BY <2>1
  <2> QED
    BY <2>1, <2>2 DEF Scraped
<1>2. ASSUME NEW k \in Windows
      PROVE  rows[k + 1].drafts - rows[k].drafts = B * (rows[k + 1].steps - rows[k].steps)
  BY <1>1 DEF Windows, Steady, Exact
<1>3. ASSUME NEW k \in 1 .. Len(rows) - 1, Steady(rows[k], rows[k + 1]), rows[k + 1].later, k \notin Windows
      PROVE  rows[k].steps = rows[k + 1].steps
  <2>1. ~ rows[k + 1].drafts > rows[k].drafts
    BY <1>3 DEF Windows
  <2>2. rows[k + 1].drafts - rows[k].drafts = B * (rows[k + 1].steps - rows[k].steps)
        /\ rows[k].steps <= rows[k + 1].steps
    BY <1>1, <1>3 DEF Steady, Exact
  <2> DEFINE d == rows[k + 1].steps - rows[k].steps
             x == rows[k + 1].drafts - rows[k].drafts
  <2>3. d \in Nat /\ x \in Int /\ x <= 0 /\ x = B * d
    BY <1>1, <2>1, <2>2 DEF Rows
  <2>4. d = 0
    <3> HIDE DEF d, x
    <3> SUFFICES ASSUME d >= 1 PROVE FALSE
      BY <2>3
    <3>1. B * d >= B
      BY <2>3
    <3> QED
      BY <3>1, <2>3
  <2> QED
    BY <2>4, <1>1 DEF Rows
<1> QED
  BY <1>2, <1>3 DEF SteadyIsExact

(* concurrent_bench's engine_steps: in a window at whose ends B streams    *)
(* are running, the drafts are B for each step of the engine, and a window *)
(* that is dropped though the clock went on has no step; for any number of *)
(* streams, however requests and scrapes fail and interleave.              *)
THEOREM WindowsAreExact == BenchSpec => []SteadyIsExact
<1>1. BenchSpec => []BenchInv
  BY BenchInvInit, BenchInvStep, PTL DEF BenchSpec
<1> QED
  BY <1>1, BenchInvExact, PTL

-----------------------------------------------------------------------------
(***************************************************************************)
(* The simulator.  It keeps the contract that the kernel keeps, so that    *)
(* the slots it sizes are spent as the studies say, but for ties.          *)
(*                                                                         *)
(* The argument goes round by round: whatever was taken in so far is       *)
(* routed, so as long as an expert is missing an unrouted one is there to  *)
(* go (RoundServes), and it is the oldest (VictimIsLeast); what went       *)
(* before was older still (Served).  When the loop ends as many have gone  *)
(* as came in, and those are all that were missing or as many as the cap   *)
(* allows (NarrowStepServes).                                              *)
(***************************************************************************)

(* A full cache: every stamp is of a step, or of a place in the profile.   *)
IsCache(c) ==
  /\ DOMAIN c \subseteq Experts /\ Cardinality(DOMAIN c) = S
  /\ c = [x \in DOMAIN c |-> c[x]]
  /\ \A x \in DOMAIN c : c[x] \in Int /\ c[x] + S \in Nat

(* What the loop has taken in after j rounds.                              *)
Taken(c, R, j) == {Ins(c, R)[i] : i \in 1 .. j}

(* And what is left: of the routed experts those that were there and those *)
(* taken in, of the others none that is older than one that had to go.     *)
Served(c, R, j, d) ==
  /\ IsCache(d)
  /\ \A x \in R : x \in DOMAIN d <=> x \in DOMAIN c \/ x \in Taken(c, R, j)
  /\ \A x \in DOMAIN d : x \notin R => x \in DOMAIN c
  /\ \A x \in DOMAIN d : d[x] = IF x \in R THEN t + 1 ELSE c[x]
  /\ \A v \in DOMAIN c \ DOMAIN d, k \in DOMAIN d : k \notin R => c[v] <= c[k]

LEMMA ExpertsFinite ==
  /\ IsFiniteSet(Experts) /\ S \in Nat \ {0} /\ E \in Nat
  /\ \A V \in SUBSET Experts : IsFiniteSet(V) /\ Cardinality(V) \in Nat
<1>1. IsFiniteSet(Experts)
  BY FS_Interval, TraceAssumption DEF Experts
<1> QED BY <1>1, FS_Subset, FS_CardinalityType, TraceAssumption, SimAssumption

(* The missing experts by id, one after the other.                         *)
LEMMA InsFacts ==
  ASSUME NEW c, NEW R \in SUBSET Experts
  PROVE  /\ InsCount(c, R) \in Nat
         /\ InsCount(c, R) = Cardinality(Missing(c, R)) \/ InsCount(c, R) = MaxInserts
         /\ \A i \in 1 .. InsCount(c, R) : Ins(c, R)[i] \in Missing(c, R)
         /\ \A i, j \in 1 .. InsCount(c, R) : Ins(c, R)[i] = Ins(c, R)[j] => i = j
<1> DEFINE V == Missing(c, R)
           key == [e \in V |-> e]
           n == InsCount(c, R)
<1>1. V \in SUBSET Experts /\ IsFiniteSet(V) /\ Cardinality(V) \in Nat
  BY ExpertsFinite DEF Missing
<1>2. KeyOf(V, key)
  BY <1>1 DEF KeyOf, Experts
<1>3. \A i \in 0 .. Cardinality(V) - 1 : Nth(V, key, i) \in V /\ Rank(V, key, Nth(V, key, i)) = i
  BY <1>1, <1>2, RankBijective
<1>4. n \in {Cardinality(V), MaxInserts} /\ n <= Cardinality(V) /\ n \in Nat
  <2>1. {Cardinality(V), MaxInserts} \in SUBSET Nat
    BY <1>1, SimAssumption
  <2> QED BY <1>1, <2>1, MinIsLeast DEF InsCount
<1> HIDE DEF V, key, n
<1>5. \A i \in 1 .. n : Ins(c, R)[i] = Nth(V, key, i - 1) /\ i - 1 \in 0 .. Cardinality(V) - 1
  BY <1>1, <1>4 DEF Ins, V, key, n
<1>6. \A i \in 1 .. n : Ins(c, R)[i] \in V /\ Rank(V, key, Ins(c, R)[i]) = i - 1
  BY <1>3, <1>5
<1>7. ASSUME NEW i \in 1 .. n, NEW j \in 1 .. n, Ins(c, R)[i] = Ins(c, R)[j]
      PROVE  i = j
  <2>1. i - 1 = j - 1
    BY <1>6, <1>7
  <2> QED BY <1>4, <2>1
<1> QED BY <1>4, <1>6, <1>7 DEF V, n

(* The expert that goes is older than any other, or as old and of a        *)
(* smaller id.                                                             *)
LEMMA VictimIsLeast ==
  ASSUME NEW c, IsCache(c), NEW R, DOMAIN c \ R # {}
  PROVE  /\ Victim(c, R) \in DOMAIN c \ R
         /\ \A y \in DOMAIN c \ R : c[Victim(c, R)] <= c[y]
<1> DEFINE D == DOMAIN c \ R
           ages == {c[x] + S : x \in D}
<1>1. \A x \in D : x \in Nat /\ c[x] \in Int /\ c[x] + S \in Nat
  BY DEF IsCache, Experts
<1>2. PICK m \in ages : \A a \in ages : m <= a
  <2>1. ages \in SUBSET Nat /\ ages # {}
    BY <1>1
  <2> HIDE DEF ages
  <2> QED BY <2>1, LeastNatural
<1> DEFINE oldest == {x \in D : c[x] + S = m}
<1>3. PICK v \in oldest : \A x \in oldest : v <= x
  <2>1. oldest \in SUBSET Nat /\ oldest # {}
    BY <1>1, <1>2
  <2> HIDE DEF oldest
  <2> QED BY <2>1, LeastNatural
<1>4. v \in D /\ \A y \in D : v = y \/ Before(c, v, y)
  <2>1. v \in D /\ c[v] + S = m
    BY <1>3
  <2>2. ASSUME NEW y \in D, v # y PROVE Before(c, v, y)
    <3>1. c[v] + S <= c[y] + S /\ c[v] \in Int /\ c[y] \in Int /\ S \in Int /\ v \in Int /\ y \in Int
      BY <1>1, <1>2, <2>1, ExpertsFinite
    <3>2. c[v] = c[y] => v <= y
      BY <1>3, <2>1, <2>2
    <3> QED BY <2>2, <3>1, <3>2 DEF Before
  <2> QED BY <2>1, <2>2
<1>5. Victim(c, R) \in D /\ \A y \in D : Victim(c, R) = y \/ Before(c, Victim(c, R), y)
  BY <1>4 DEF Victim
<1>6. \A y \in D : c[Victim(c, R)] <= c[y]
  <2> DEFINE u == Victim(c, R)
  <2> HIDE DEF u
  <2>1. u \in D /\ \A y \in D : u = y \/ Before(c, u, y)
    BY <1>5 DEF u
  <2>2. \A y \in D : c[u] <= c[y]
    BY <1>1, <2>1 DEF Before
  <2> QED BY <2>2 DEF u
<1> QED BY <1>5, <1>6

(* The loop starts with the hits stamped.                                  *)
LEMMA LoopStarts ==
  ASSUME NEW c, IsCache(c), NEW R \in SUBSET Experts, t \in Nat
  PROVE  Served(c, R, 0, Touched(c, R))
<1>1. DOMAIN Touched(c, R) = DOMAIN c /\ \A x \in DOMAIN c : Touched(c, R)[x] = IF x \in R THEN t + 1 ELSE c[x]
  BY DEF Touched
<1>2. \A x \in DOMAIN c : Touched(c, R)[x] \in Int /\ Touched(c, R)[x] + S \in Nat
  BY <1>1, ExpertsFinite DEF IsCache
<1>3. Touched(c, R) = [x \in DOMAIN Touched(c, R) |-> Touched(c, R)[x]]
  BY DEF Touched
<1>4. IsCache(Touched(c, R))
  BY <1>1, <1>2, <1>3 DEF IsCache
<1>5. Taken(c, R, 0) = {}
  BY DEF Taken
<1> QED BY <1>1, <1>4, <1>5 DEF Served

(* A round takes one more in.                                              *)
LEMMA RoundServes ==
  ASSUME NEW c, IsCache(c), NEW R \in SUBSET Experts, Cardinality(R) <= MaxDistinct, t \in Nat,
         NEW j \in Nat, j < InsCount(c, R), NEW d, Served(c, R, j, d)
  PROVE  Served(c, R, j + 1, Insert(d, Ins(c, R)[j + 1], R))
<1> DEFINE e == Ins(c, R)[j + 1]
           v == Victim(d, R)
           n == Insert(d, e, R)
<1>1. e \in R /\ e \notin DOMAIN c /\ e \notin Taken(c, R, j)
  <2>1. InsCount(c, R) \in Nat /\ j + 1 \in 1 .. InsCount(c, R) /\ \A i \in 1 .. j : i \in 1 .. InsCount(c, R) /\ i # j + 1
    BY InsFacts
  <2> QED BY <2>1, InsFacts DEF Taken, Missing
<1>2. Taken(c, R, j + 1) = Taken(c, R, j) \cup {e}
  <2>1. 1 .. j + 1 = (1 .. j) \cup {j + 1}
    OBVIOUS
  <2> QED BY <2>1 DEF Taken
<1> HIDE DEF e
<1>3. /\ IsCache(d) /\ e \notin DOMAIN d
      /\ IsFiniteSet(DOMAIN d) /\ Cardinality(DOMAIN d) = S
  BY <1>1, ExpertsFinite DEF Served, IsCache
<1>4. DOMAIN d \ R # {}
  <2> SUFFICES ASSUME DOMAIN d \subseteq R PROVE FALSE
    OBVIOUS
  <2>1. IsFiniteSet(R) /\ Cardinality(R) \in Nat /\ Cardinality(R) <= S
    BY ExpertsFinite, SimAssumption
  <2>2. Cardinality(DOMAIN d) <= Cardinality(R) /\ (Cardinality(DOMAIN d) = Cardinality(R) => DOMAIN d = R)
    BY <2>1, FS_Subset
  <2>3. DOMAIN d = R
    BY <1>3, <2>1, <2>2, ExpertsFinite
  <2> QED BY <1>1, <1>3, <2>3
<1>5. v \in DOMAIN d /\ v \notin R /\ \A y \in DOMAIN d : y \notin R => d[v] <= d[y]
  BY <1>3, <1>4, VictimIsLeast
<1> HIDE DEF v
<1>6. /\ DOMAIN n = (DOMAIN d \ {v}) \cup {e}
      /\ \A x \in DOMAIN n : n[x] = IF x = e THEN t + 1 ELSE d[x]
      /\ n = [x \in DOMAIN n |-> n[x]]
  BY <1>3, ExpertsFinite DEF Insert, v
<1> HIDE DEF n
<1>7. Cardinality(DOMAIN n) = S
  <2>1. IsFiniteSet(DOMAIN d \ {v}) /\ Cardinality(DOMAIN d \ {v}) = S - 1
    BY <1>3, <1>5, FS_RemoveElement
  <2>2. Cardinality((DOMAIN d \ {v}) \cup {e}) = S - 1 + 1
    BY <1>3, <2>1, FS_AddElement
  <2> QED BY <1>6, <2>2, ExpertsFinite
<1>8. \A x \in DOMAIN n : x \in Experts /\ n[x] \in Int /\ n[x] + S \in Nat
  BY <1>1, <1>3, <1>6, ExpertsFinite DEF IsCache
<1>9. IsCache(n)
  BY <1>6, <1>7, <1>8 DEF IsCache
<1>10. \A x \in R : x \in DOMAIN n <=> x \in DOMAIN c \/ x \in Taken(c, R, j + 1)
  BY <1>2, <1>5, <1>6 DEF Served
<1>11. \A x \in DOMAIN n : x \notin R => x \in DOMAIN c
  BY <1>1, <1>6 DEF Served
<1>12. \A x \in DOMAIN n : n[x] = IF x \in R THEN t + 1 ELSE c[x]
  BY <1>1, <1>6 DEF Served
<1>13. ASSUME NEW o \in DOMAIN c \ DOMAIN n, NEW k \in DOMAIN n, k \notin R
       PROVE  c[o] <= c[k]
  <2>1. k \in DOMAIN d /\ d[k] = c[k]
    BY <1>1, <1>6, <1>13 DEF Served
  <2>2. CASE o \in DOMAIN d
    <3>1. o = v /\ d[v] = c[v]
      BY <1>5, <1>6, <1>13, <2>2 DEF Served
    <3> QED BY <1>5, <1>13, <2>1, <3>1
  <2>3. CASE o \notin DOMAIN d
    BY <1>13, <2>1, <2>3 DEF Served
  <2> QED BY <2>2, <2>3
<1>14. Served(c, R, j + 1, n)
  BY <1>9, <1>10, <1>11, <1>12, <1>13 DEF Served
<1> QED BY <1>14 DEF n, e

(* The loop as a whole.                                                    *)
LEMMA LoopServes ==
  ASSUME NEW c, IsCache(c), NEW R \in SUBSET Experts, Cardinality(R) <= MaxDistinct, t \in Nat
  PROVE  Served(c, R, InsCount(c, R), Rounds(c, R)[InsCount(c, R)])
<1> DEFINE n == InsCount(c, R)
           D == 0 .. n
           w == Rounds(c, R)
           Def(f) == f = [j \in D |-> IF j = 0 THEN Touched(c, R) ELSE Insert(f[j - 1], Ins(c, R)[j], R)]
           OnD(f) == f = [j \in D |-> f[j]]
           UpTo(f, k) == \A j \in D : j <= k => f[j] = IF j = 0 THEN Touched(c, R) ELSE Insert(f[j - 1], Ins(c, R)[j], R)
<1>1. n \in Nat
  BY InsFacts
<1>2. w = CHOOSE f : Def(f)
  BY DEF Rounds
<1> HIDE DEF n, w
<1>3. \E f : Def(f)
  <2> DEFINE A == {k \in Nat : \E f : OnD(f) /\ UpTo(f, k)}
  <2>1. 0 \in A
    <3> DEFINE f == [j \in D |-> Touched(c, R)]
    <3>1. OnD(f) /\ UpTo(f, 0)
      BY <1>1
    <3> QED BY <3>1
  <2>2. ASSUME NEW k \in A PROVE k + 1 \in A
    <3>1. k \in Nat
      OBVIOUS
    <3>2. PICK f : OnD(f) /\ UpTo(f, k)
      OBVIOUS
    <3> DEFINE g == [j \in D |-> IF j = k + 1 THEN Insert(f[k], Ins(c, R)[k + 1], R) ELSE f[j]]
    <3>3. ASSUME NEW j \in D, j <= k + 1
          PROVE  g[j] = IF j = 0 THEN Touched(c, R) ELSE Insert(g[j - 1], Ins(c, R)[j], R)
      <4>1. CASE j = k + 1
        <5>1. k \in D /\ j - 1 = k /\ k # k + 1 /\ j # 0
          BY <1>1, <3>1, <4>1
        <5>2. g[k] = f[k] /\ g[j] = Insert(f[k], Ins(c, R)[j], R)
          BY <4>1, <5>1
        <5> QED BY <5>1, <5>2
      <4>2. CASE j # k + 1
        <5>1. j <= k /\ (j # 0 => j - 1 \in D /\ j - 1 # k + 1)
          BY <1>1, <3>1, <3>3, <4>2
        <5>2. g[j] = f[j] /\ (j # 0 => g[j - 1] = f[j - 1])
          BY <4>2, <5>1
        <5> QED BY <3>2, <5>1, <5>2
      <4> QED BY <4>1, <4>2
    <3>4. OnD(g)
      OBVIOUS
    <3> HIDE DEF g
    <3>5. UpTo(g, k + 1)
      BY <3>3
    <3>6. k + 1 \in Nat
      BY <3>1
    <3> HIDE DEF UpTo, OnD
    <3> QED BY <3>4, <3>5, <3>6
  <2>3. n \in A
    <3>1. A \in SUBSET Nat
      OBVIOUS
    <3> HIDE DEF A
    <3> QED BY <1>1, <2>1, <2>2, <3>1, NatSetInduction
  <2>4. PICK f : OnD(f) /\ UpTo(f, n)
    <3> HIDE DEF UpTo, OnD
    <3> QED BY <2>3
  <2>5. \A j \in D : f[j] = IF j = 0 THEN Touched(c, R) ELSE Insert(f[j - 1], Ins(c, R)[j], R)
    <3>1. UpTo(f, n)
      <4> HIDE DEF UpTo, OnD
      <4> QED BY <2>4
    <3> QED BY <1>1, <3>1
  <2>6. Def(f)
    BY <2>4, <2>5, Zenon
  <2> QED BY <2>6
<1>4. Def(w)
  <2> HIDE DEF Def
  <2> QED BY <1>2, <1>3
<1>5. \A j \in D : w[j] = IF j = 0 THEN Touched(c, R) ELSE Insert(w[j - 1], Ins(c, R)[j], R)
  BY <1>4
<1> DEFINE A == {j \in Nat : j \in D => Served(c, R, j, w[j])}
<1>6. 0 \in A
  BY <1>1, <1>5, LoopStarts
<1>7. ASSUME NEW j \in A PROVE j + 1 \in A
  <2>1. j \in Nat /\ j + 1 # 0 /\ (j + 1) - 1 = j
    OBVIOUS
  <2>2. ASSUME j + 1 \in D PROVE Served(c, R, j + 1, w[j + 1])
    <3>1. j \in D /\ j < n
      BY <1>1, <2>1, <2>2
    <3>2. Served(c, R, j, w[j])
      BY <3>1
    <3>3. Served(c, R, j + 1, Insert(w[j], Ins(c, R)[j + 1], R))
      BY <2>1, <3>1, <3>2, RoundServes DEF n
    <3> QED BY <1>5, <2>1, <2>2, <3>3
  <2> QED BY <2>1, <2>2
<1>8. n \in A
  <2>1. A \in SUBSET Nat
    OBVIOUS
  <2> HIDE DEF A
  <2> QED BY <1>1, <1>6, <1>7, <2>1, NatSetInduction
<1>9. Served(c, R, n, w[n])
  BY <1>1, <1>8
<1> QED BY <1>9 DEF n, w

----------------------------------------------------------------------------
(* The contract's own cardinality. *)
LEMMA ContractCounts == \A X : Contract!Cardinality(X) = Cardinality(X)
  BY DEF Contract!Cardinality, Cardinality

(* Of two sets of one size, as many are only in the one as in the other.   *)
LEMMA Exchange ==
  ASSUME NEW P, NEW Q, IsFiniteSet(P), IsFiniteSet(Q), Cardinality(P) = Cardinality(Q)
  PROVE  Cardinality(P \ Q) = Cardinality(Q \ P)
<1>1. Cardinality(P \ Q) = Cardinality(P) - Cardinality(P \cap Q)
  BY FS_Difference
<1>2. Cardinality(Q \ P) = Cardinality(Q) - Cardinality(Q \cap P)
  BY FS_Difference
<1>3. P \cap Q = Q \cap P
  OBVIOUS
<1> QED BY <1>1, <1>2, <1>3

(* A step that is not read through serves its request.                     *)
LEMMA NarrowStepServes ==
  ASSUME IsCache(stamp), NEW R \in (SUBSET Experts) \ {{}}, Cardinality(R) <= MaxDistinct,
         t \in Nat, t' = t + 1, trace[t + 1] = R, trace' = trace, stamp' = After(stamp, R)
  PROVE  IsCache(stamp)' /\ Contract!Serve(R)
<1> DEFINE n == InsCount(stamp, R)
           d == Rounds(stamp, R)[n]
           ins == Taken(stamp, R, n)
           vic == DOMAIN stamp \ DOMAIN d
<1>1. Served(stamp, R, n, d) /\ stamp' = d
  <2>1. ~ (Cardinality(R) > MaxDistinct)
    BY ExpertsFinite, SimAssumption
  <2> QED BY <2>1, LoopServes DEF After
<1>2. n \in Nat /\ (n = Cardinality(Missing(stamp, R)) \/ n = MaxInserts)
      /\ ins \subseteq Missing(stamp, R)
      /\ \A i, j \in 1 .. n : Ins(stamp, R)[i] = Ins(stamp, R)[j] => i = j
  BY InsFacts DEF Taken
<1>3. Cardinality(ins) = n
  <2> DEFINE f == [i \in 1 .. n |-> Ins(stamp, R)[i]]
  <2>1. f \in [1 .. n -> ins] /\ (\A x \in ins : \E i \in 1 .. n : f[i] = x)
        /\ \A i, j \in 1 .. n : f[i] = f[j] => i = j
    BY <1>2 DEF Taken
  <2>2. ExistsBijection(1 .. n, ins)
    <3> HIDE DEF f, ins, n
    <3>1. f \in Bijection(1 .. n, ins)
      BY <2>1, Fun_IsBij
    <3> QED BY <3>1, Fun_ExistsBij
  <2>3. IsFiniteSet(1 .. n) /\ Cardinality(1 .. n) = n
    BY <1>2, FS_Interval
  <2> QED BY <2>2, <2>3, FS_Bijection
<1> HIDE DEF n, d, ins
<1>4. ins \in SUBSET (R \ DOMAIN stamp) /\ vic \in SUBSET (DOMAIN stamp \ R)
      /\ DOMAIN d = (DOMAIN stamp \ vic) \cup ins
  <2>1. ins \subseteq R \ DOMAIN stamp
    BY <1>2 DEF Missing
  <2>2. \A x \in R : x \in DOMAIN d <=> x \in DOMAIN stamp \/ x \in ins
    BY <1>1 DEF Served, ins
  <2>3. \A x \in DOMAIN d : x \notin R => x \in DOMAIN stamp
    BY <1>1 DEF Served
  <2> QED BY <2>1, <2>2, <2>3
<1>5. IsCache(d)
  BY <1>1 DEF Served
<1>6. /\ IsFiniteSet(DOMAIN stamp) /\ Cardinality(DOMAIN stamp) = S
      /\ IsFiniteSet(DOMAIN d) /\ Cardinality(DOMAIN d) = S
  BY <1>5, ExpertsFinite DEF IsCache
<1>7. Cardinality(vic) = Cardinality(ins)
  <2>1. ins = DOMAIN d \ DOMAIN stamp
    BY <1>4
  <2> QED BY <1>6, <2>1, Exchange
<1>8. ins = R \ DOMAIN stamp \/ Cardinality(ins) = MaxInserts
  <2>1. R \ DOMAIN stamp \in SUBSET Experts /\ IsFiniteSet(R \ DOMAIN stamp)
    BY ExpertsFinite
  <2>2. Cardinality(ins) = Cardinality(R \ DOMAIN stamp) => ins = R \ DOMAIN stamp
    BY <1>4, <2>1, FS_Subset
  <2> QED BY <1>2, <1>3, <2>2 DEF Missing
<1>9. \A x \in DOMAIN d : d[x] = IF x \in R THEN t + 1 ELSE stamp[x]
  BY <1>1 DEF Served
<1>10. \A v \in vic, k \in (DOMAIN stamp \ R) \ vic : stamp[v] <= stamp[k]
  BY <1>1 DEF Served
<1> DEFINE use == [e \in DOMAIN stamp |-> stamp[e] + S]
<1>11. \A v \in vic, k \in (DOMAIN stamp \ R) \ vic : use[v] <= use[k]
  <2>1. \A x \in DOMAIN stamp : stamp[x] \in Int
    BY DEF IsCache
  <2> QED BY <1>10, <2>1, ExpertsFinite
<1>12. [e \in DOMAIN d |-> d[e] + S] =
         [e \in (DOMAIN stamp \ vic) \cup ins |-> IF e \in R THEN t + S + 1 ELSE use[e]]
  <2>1. \A e \in DOMAIN d : d[e] + S = IF e \in R THEN t + S + 1 ELSE use[e]
    <3>1. \A e \in DOMAIN d : e \notin R => e \in DOMAIN stamp
      BY <1>4
    <3> QED BY <1>9, <3>1, ExpertsFinite
  <2> HIDE DEF use, vic
  <2> QED BY <1>4, <2>1
<1>13. (IF t = 0 THEN {} ELSE trace[t])' = R
  OBVIOUS
<1>14. (t + S)' = t + S + 1
  BY ExpertsFinite
<1>15. IsCache(stamp)'
  BY <1>1, <1>5 DEF IsCache
<1> HIDE DEF vic, use
<1>16. (DOMAIN stamp)' = (DOMAIN stamp \ vic) \cup ins
  BY <1>1, <1>4
<1>17. [e \in DOMAIN stamp |-> stamp[e] + S]' =
         [e \in (DOMAIN stamp \ vic) \cup ins |-> IF e \in R THEN t + S + 1 ELSE use[e]]
  BY <1>1, <1>12
<1>18. Contract!Serve(R)
  BY <1>4, <1>7, <1>8, <1>11, <1>13, <1>14, <1>16, <1>17, ContractCounts DEF Contract!Serve, use
<1> QED BY <1>15, <1>18

SimInv ==
  /\ trace \in [1 .. T -> Steps] /\ t \in 0 .. T
  /\ IsCache(stamp)

(* The profile's hottest experts are a full cache of the contract.         *)
LEMMA SimStarts ==
  ASSUME TraceInit, SimInit
  PROVE  SimInv /\ Contract!Init
<1>1. ranked \in [1 .. E -> Experts] /\ ToSet(ranked) = Experts
  BY TraceAssumption DEF TraceInit
<1>2. E \in Nat \ {0} /\ S \in Nat /\ 0 < S /\ S < E /\ IsFiniteSet(1 .. E) /\ Cardinality(1 .. E) = E
      /\ Cardinality(Experts) = E
  BY FS_Interval, TraceAssumption, SimAssumption DEF Experts
<1>3. \A i, j \in 1 .. E : ranked[i] = ranked[j] => i = j
  <2>1. ranked \in Surjection(1 .. E, Experts)
    BY <1>1 DEF ToSet, Surjection
  <2>2. ranked \in Injection(1 .. E, Experts)
    BY <1>2, <2>1, FS_SurjSameCardinalityImpliesInj
  <2> QED BY <2>2 DEF Injection, IsInjective
<1> DEFINE hot == SubSeq(ranked, 1, S)
<1>4. Len(hot) = S /\ DOMAIN hot = 1 .. S /\ \A i \in 1 .. S : hot[i] = ranked[i]
  <2>1. ranked \in Seq(Experts) /\ Len(ranked) = E
    BY <1>1, <1>2
  <2> QED BY <1>2, <2>1
<1> HIDE DEF hot
<1>5. \A i \in 1 .. S : hot[i] \in Experts
  BY <1>1, <1>2, <1>4
<1>6. \A i, j \in 1 .. S : hot[i] = hot[j] => i = j
  BY <1>2, <1>3, <1>4
<1>7. stamp = [e \in ToSet(hot) |-> -(CHOOSE j \in 0 .. Len(hot) - 1 : hot[j + 1] = e)]
  BY DEF SimInit, WarmStamps, hot
<1>8. ASSUME NEW e \in ToSet(hot)
      PROVE  stamp[e] \in Int /\ stamp[e] + S \in 0 .. S
  <2> DEFINE j == CHOOSE k \in 0 .. Len(hot) - 1 : hot[k + 1] = e
  <2>1. PICK i \in 1 .. S : hot[i] = e
    BY <1>4 DEF ToSet
  <2>2. i - 1 \in 0 .. Len(hot) - 1 /\ hot[(i - 1) + 1] = e
    BY <1>2, <1>4, <2>1
  <2>3. j \in 0 .. S - 1
    BY <1>4, <2>2
  <2>4. stamp[e] = -j
    BY <1>7
  <2> HIDE DEF j
  <2> QED BY <1>2, <2>3, <2>4
<1>9. DOMAIN stamp = ToSet(hot) /\ stamp = [x \in DOMAIN stamp |-> stamp[x]]
  BY <1>7
<1>10. ToSet(hot) \in SUBSET Experts /\ Cardinality(ToSet(hot)) = S
  <2> DEFINE f == [i \in 1 .. S |-> hot[i]]
  <2>1. f \in [1 .. S -> ToSet(hot)] /\ (\A x \in ToSet(hot) : \E i \in 1 .. S : f[i] = x)
        /\ \A i, j \in 1 .. S : f[i] = f[j] => i = j
    BY <1>4, <1>6 DEF ToSet
  <2>2. ExistsBijection(1 .. S, ToSet(hot))
    <3> HIDE DEF f
    <3>1. f \in Bijection(1 .. S, ToSet(hot))
      BY <2>1, Fun_IsBij
    <3> QED BY <3>1, Fun_ExistsBij
  <2>3. IsFiniteSet(1 .. S) /\ Cardinality(1 .. S) = S
    BY <1>2, FS_Interval
  <2> QED BY <1>4, <1>5, <2>2, <2>3, FS_Bijection DEF ToSet
<1>11. IsCache(stamp)
  <2>1. \A x \in DOMAIN stamp : stamp[x] \in Int /\ stamp[x] + S \in Nat
    BY <1>2, <1>8, <1>9
  <2> QED BY <1>9, <1>10, <2>1 DEF IsCache
<1>12. [e \in DOMAIN stamp |-> stamp[e] + S] \in [DOMAIN stamp -> 0 .. S]
  BY <1>8, <1>9
<1>13. t = 0 /\ trace \in [1 .. T -> Steps] /\ t \in 0 .. T
  BY TraceAssumption DEF TraceInit
<1>14. t + S = S /\ (IF t = 0 THEN {} ELSE trace[t]) = {}
  BY <1>2, <1>13
<1> QED BY <1>9, <1>10, <1>11, <1>12, <1>13, <1>14, ContractCounts DEF SimInv, Contract!Init, Contract!Universe, Experts

(* A step of the simulator is one request.                                 *)
LEMMA SimStepServes ==
  ASSUME SimInv, [Advance /\ SimStep]_<<trace, ranked, t, stamp>>
  PROVE  SimInv' /\ [Contract!Next]_(Contract!contractVars)
<1>1. CASE UNCHANGED <<trace, ranked, t, stamp>>
  BY <1>1 DEF SimInv, IsCache, Contract!contractVars
<1>2. CASE Advance /\ SimStep
  <2>1. PICK R : R = trace[t + 1]
    OBVIOUS
  <2>2. /\ t \in Nat /\ t' = t + 1 /\ t' \in 0 .. T /\ trace' = trace /\ stamp' = After(stamp, R)
        /\ R \in (SUBSET Experts) \ {{}} /\ Cardinality(R) \in Nat
    <3>1. t \in Nat /\ t' = t + 1 /\ t' \in 0 .. T /\ t + 1 \in 1 .. T /\ trace' = trace
      BY <1>2, TraceAssumption DEF SimInv, Advance
    <3>2. R \in (SUBSET Experts) \ {{}}
      BY <2>1, <3>1, TraceAssumption DEF SimInv
    <3> QED BY <1>2, <2>1, <3>1, <3>2, ExpertsFinite DEF SimStep
  <2>3. IsCache(stamp)' /\ (Contract!ReadThrough(R) \/ Contract!Serve(R))
    <3>1. CASE Cardinality(R) > MaxDistinct
      <4>1. stamp' = stamp
        BY <2>2, <3>1 DEF After
      <4>2. (IF t = 0 THEN {} ELSE trace[t])' = R /\ (t + S)' = t + S + 1
        BY <2>1, <2>2, ExpertsFinite
      <4> QED BY <3>1, <4>1, <4>2, ContractCounts DEF SimInv, IsCache, Contract!ReadThrough
    <3>2. CASE Cardinality(R) <= MaxDistinct
      BY <2>1, <2>2, <3>2, NarrowStepServes DEF SimInv
    <3> QED BY <2>2, <3>1, <3>2, SimAssumption
  <2>4. Contract!Next
    BY <2>2, <2>3 DEF Contract!Next, Contract!Universe, Experts
  <2> QED BY <2>2, <2>3, <2>4 DEF SimInv
<1> QED BY <1>1, <1>2

(* The simulator is an LRU cache of the kind the kernel is: on every trace *)
(* and from every profile it keeps the contract.                           *)
THEOREM SimulatorIsLru == SimSpec => SimulatesLru
<1>1. TraceInit /\ SimInit => SimInv /\ Contract!Init
  BY SimStarts
<1>2. SimInv /\ [Advance /\ SimStep]_<<trace, ranked, t, stamp>> => SimInv' /\ [Contract!Next]_(Contract!contractVars)
  BY SimStepServes
<1> QED BY <1>1, <1>2, PTL DEF SimSpec, SimulatesLru, Contract!Spec
=============================================================================
