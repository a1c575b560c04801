--------------------------- MODULE MoeLayerProofs ---------------------------
(***************************************************************************)
(* Proofs about MoeLayer, for every layer, every set of routings and any   *)
(* number of forwards the host is ahead: each row of an output is computed *)
(* with the weights of its expert.                                         *)
(*                                                                         *)
(* The streams' queues are the rest of a program that OnCur and OnSide     *)
(* wrote; what matters of them is the operation at each head and that the  *)
(* operations follow each other as the program has them.  The invariant    *)
(* says where the two heads can be with respect to each other, and, for    *)
(* every place of the current stream's head, what has been computed.       *)
(***************************************************************************)
EXTENDS MoeLayer, ExpertCacheProofs, SequenceTheorems

----------------------------------------------------------------------------
(* The program of a forward, operation by operation.                       *)

Names == {"manage", "manage_align", "gather", "align_hot", "align_cold", "record_fork",
          "hot", "cold", "wait_join", "act_quant", "moe_sum", "wait_fork", "record_join"}
Ops == [op : Names, stage : 0 .. 2, ids : RoutedIds, fwd : Nat]

Fused(ids) == env.lru /\ Len(ids) <= FuseMax

(* The operations on the current stream, and those on the side stream.     *)
OnCurrent(o) ==
  \/ o.stage = 0 /\ \/ o.op = "manage" /\ env.lru /\ ~ Fused(o.ids)
                    \/ o.op = "manage_align" /\ env.lru /\ Fused(o.ids)
                    \/ o.op = "gather" /\ env.lru
                    \/ o.op \in {"align_hot", "align_cold"} /\ ~ Fused(o.ids)
                    \/ o.op \in {"act_quant", "moe_sum"}
  \/ o.stage \in {1, 2} /\ \/ o.op \in {"record_fork", "wait_join"} /\ env.side
                           \/ o.op = "hot" /\ ~ env.side
                           \/ o.op = "cold" /\ (env.side \/ ~ SkipCold(o.ids))

OnAside(o) == env.side /\ o.stage \in {1, 2} /\ o.op \in {"wait_fork", "hot", "record_join"}

(* How a forward, a projection and what comes after a projection begin.    *)
Opening(ids, f) ==
  IF env.lru THEN IF Fused(ids) THEN Op("manage_align", 0, ids, f) ELSE Op("manage", 0, ids, f)
             ELSE Op("align_hot", 0, ids, f)
Forking(k, ids, f) ==
  IF env.side THEN Op("record_fork", k, ids, f) ELSE Op("hot", k, ids, f)
Leaving(k, ids, f) ==
  IF k = 1 THEN Op("act_quant", 0, ids, f) ELSE Op("moe_sum", 0, ids, f)

(* b comes right after a on the current stream.                            *)
Succeeds(a, b) ==
  /\ a.op \in {"manage", "manage_align"} => b = Op("gather", 0, a.ids, a.fwd)
  /\ a.op = "gather" => b = IF Fused(a.ids) THEN Forking(1, a.ids, a.fwd)
                            ELSE Op("align_hot", 0, a.ids, a.fwd)
  /\ a.op = "align_hot" => b = Op("align_cold", 0, a.ids, a.fwd)
  /\ a.op = "align_cold" => b = Forking(1, a.ids, a.fwd)
  /\ a.op = "record_fork" => b = Op("cold", a.stage, a.ids, a.fwd)
  /\ a.op = "hot" => b = IF SkipCold(a.ids) THEN Leaving(a.stage, a.ids, a.fwd)
                         ELSE Op("cold", a.stage, a.ids, a.fwd)
  /\ a.op = "cold" => b = IF env.side THEN Op("wait_join", a.stage, a.ids, a.fwd)
                          ELSE Leaving(a.stage, a.ids, a.fwd)
  /\ a.op = "wait_join" => b = Leaving(a.stage, a.ids, a.fwd)
  /\ a.op = "act_quant" => b = Forking(2, a.ids, a.fwd)
  /\ a.op = "moe_sum" => b = Opening(b.ids, a.fwd + 1)

(* And on the side stream.                                                 *)
SucceedsAside(a, b) ==
  /\ a.op = "wait_fork" => b = Op("hot", a.stage, a.ids, a.fwd)
  /\ a.op = "hot" => b = Op("record_join", a.stage, a.ids, a.fwd)
  /\ a.op = "record_join" => b = IF a.stage = 1 THEN Op("wait_fork", 2, a.ids, a.fwd)
                                 ELSE Op("wait_fork", 1, b.ids, a.fwd + 1)

CurPairs  == {p \in Ops \X Ops : Succeeds(p[1], p[2])}
SidePairs == {p \in Ops \X Ops : SucceedsAside(p[1], p[2])}
Linked(s, R) == \A n \in 1 .. Len(s)-1 : <<s[n], s[n+1]>> \in R

(* What is queued ends with the last forward, and the two queues agree on  *)
(* what each forward routes.                                               *)
QueuesOK ==
  /\ queue \in [Streams -> Seq(Ops)] /\ fwd \in Nat
  /\ env \in [side : BOOLEAN, lru : BOOLEAN]
  /\ \A n \in 1 .. Len(queue.cur) : OnCurrent(queue.cur[n]) /\ queue.cur[n].fwd <= fwd
  /\ \A n \in 1 .. Len(queue.side) : OnAside(queue.side[n]) /\ queue.side[n].fwd <= fwd
  /\ Linked(queue.cur, CurPairs) /\ Linked(queue.side, SidePairs)
  /\ queue.cur # <<>> => /\ queue.cur[Len(queue.cur)].op = "moe_sum"
                         /\ queue.cur[Len(queue.cur)].fwd = fwd
  /\ queue.side # <<>> => /\ queue.side[Len(queue.side)].op = "record_join"
                          /\ queue.side[Len(queue.side)].stage = 2
                          /\ queue.side[Len(queue.side)].fwd = fwd
  /\ \A m \in 1 .. Len(queue.cur) : \A n \in 1 .. Len(queue.side) :
       queue.cur[m].fwd = queue.side[n].fwd => queue.cur[m].ids = queue.side[n].ids

----------------------------------------------------------------------------
(* Where the heads are.                                                    *)

Place(o) ==
  CASE o.op \in {"manage", "manage_align"} -> 1
    [] o.op = "gather" -> 2
    [] o.op = "align_hot" -> 3
    [] o.op = "align_cold" -> 4
    [] o.op \in {"record_fork", "hot"} -> 4 * o.stage + 1
    [] o.op = "cold" -> 4 * o.stage + 2
    [] o.op = "wait_join" -> 4 * o.stage + 3
    [] o.op = "act_quant" -> 8
    [] o.op = "moe_sum" -> 12

SidePlace(o) ==
  CASE o.op = "wait_fork" -> 4 * o.stage + 1
    [] o.op = "hot" -> 4 * o.stage + 2
    [] o.op = "record_join" -> 4 * o.stage + 3

(* A stream with nothing to do is ahead of its next forward.               *)
CurFwd  == IF queue.cur = <<>> THEN fwd + 1 ELSE Cur("cur").fwd
CurAt   == IF queue.cur = <<>> THEN 0 ELSE Place(Cur("cur"))
SideFwd == IF queue.side = <<>> THEN fwd + 1 ELSE Cur("side").fwd
SideAt  == IF queue.side = <<>> THEN 5 ELSE SidePlace(Cur("side"))

(* The side stream runs the hot GEMM of a projection while the current     *)
(* stream is at the cold one or waits, and at no other time.               *)
Lag ==
  env.side =>
    \/ SideFwd = CurFwd /\ SideAt = 5 /\ CurAt <= 7
    \/ SideFwd = CurFwd /\ SideAt \in {6, 7} /\ CurAt \in {6, 7}
    \/ SideFwd = CurFwd /\ SideAt = 9 /\ CurAt \in 6 .. 11
    \/ SideFwd = CurFwd /\ SideAt \in {10, 11} /\ CurAt \in {10, 11}
    \/ SideFwd = CurFwd + 1 /\ SideAt = 5 /\ CurAt \in 10 .. 12

(* An event that has been recorded lies behind the head of its stream.     *)
Recorded ==
  \A k \in {1, 2}, f \in Nat :
    /\ <<"fork", k, f, env>> \in events => f < CurFwd \/ (f = CurFwd /\ CurAt > 4 * k + 1)
    /\ <<"join", k, f, env>> \in events => f < SideFwd \/ (f = SideFwd /\ SideAt > 4 * k + 3)

RunningOK ==
  /\ busy \in SUBSET Streams /\ DOMAIN todo = Streams
  /\ \A q \in busy : /\ queue[q] # <<>> /\ Cur(q).op \in {"gather", "hot", "cold"}
                     /\ todo[q] \subseteq Pieces(Cur(q).op)

----------------------------------------------------------------------------
(* What has been computed.                                                 *)

Ids == Cur("cur").ids
AtForward(a, b) == queue.cur # <<>> /\ CurAt \in a .. b

(* The miss list of the last launch is where its experts went.             *)
MissesPlaced ==
  \A j \in 0 .. n_miss-1 : /\ j \in Entries /\ miss[j][2] \in Slots
                           /\ slot_expert[miss[j][2]] = miss[j][1]

(* Every slab holds its expert, or the gather has still to copy it.        *)
ToCopy == IF "cur" \in busy THEN todo["cur"] ELSE (0 .. n_miss-1) \X Slabs
SlabsFollow ==
  /\ slab \in [Slabs -> [Slots -> Experts]]
  /\ \A b \in Slabs, s \in Slots :
       slab[b][s] # slot_expert[s] =>
         CurAt = 2 /\ \E j \in 0 .. n_miss-1 : <<j, b>> \in ToCopy /\ miss[j][2] = s

AlignedHot ==
  AtForward(4, 12) \/ (AtForward(2, 2) /\ Fused(Ids)) => hot = HotOf(Ids, table)
AlignedCold ==
  AtForward(5, 12) \/ (AtForward(2, 2) /\ Fused(Ids)) => cold = ColdOfTable(Ids, table)

(* Nothing is left cold where the cold GEMM is skipped.                    *)
SkippedIsEmpty ==
  AtForward(2, 12) /\ SkipCold(Ids) => \A i \in 1 .. Len(Ids) : table[Ids[i]] # None

(* Row i of the k-th projection has been computed, by the hot GEMM or by   *)
(* the cold one.                                                           *)
HotStream == IF env.side THEN "side" ELSE "cur"
HotPast(k) == IF env.side THEN SideFwd # CurFwd \/ SideAt > 4 * k + 2 ELSE CurAt > 4 * k + 1
HotNow(k) == HotStream \in busy /\ Cur(HotStream).op = "hot" /\ Cur(HotStream).stage = k
HotDone(k, i) == hot[i] # None /\ (HotPast(k) \/ (HotNow(k) /\ i \notin todo[HotStream]))
ColdDone(k, i) ==
  /\ cold[i] # None
  /\ CurAt > 4 * k + 2 \/ (CurAt = 4 * k + 2 /\ "cur" \in busy /\ i \notin todo["cur"])
RowDone(k, i) == HotDone(k, i) \/ ColdDone(k, i)

Value(i) == <<CurFwd, Ids[i]>>

RowsOfFirst ==
  /\ DOMAIN ic1 = Rows
  /\ AtForward(5, 8) => \A i \in 1 .. Len(Ids) : RowDone(1, i) => ic1[i] = Value(i)
Quantised ==
  AtForward(9, 12) => \A i \in 1 .. Len(Ids) : q2[i] = Value(i)
RowsOfSecond ==
  /\ DOMAIN ic3 = Rows
  /\ AtForward(9, 12) => \A i \in 1 .. Len(Ids) : RowDone(2, i) => ic3[i] = <<Value(i), Ids[i]>>

LastOut ==
  \A i \in 1 .. Len(out.ids) : out.rows[i] = << <<out.fwd, out.ids[i]>>, out.ids[i]>>

Computed ==
  /\ CacheInv /\ MissesPlaced /\ SlabsFollow
  /\ AlignedHot /\ AlignedCold /\ SkippedIsEmpty
  /\ RowsOfFirst /\ Quantised /\ RowsOfSecond /\ LastOut

IInv == QueuesOK /\ Lag /\ Recorded /\ RunningOK /\ Computed
----------------------------------------------------------------------------
(* Sequences whose neighbours are related.                                 *)

LEMMA JoinLinked ==
  ASSUME NEW X, NEW R, NEW s \in Seq(X), NEW t \in Seq(X), Linked(s, R), Linked(t, R),
         s # <<>> /\ t # <<>> => <<s[Len(s)], t[1]>> \in R
  PROVE  /\ s \o t \in Seq(X) /\ Linked(s \o t, R)
         /\ Len(s \o t) = Len(s) + Len(t)
         /\ \A n \in 1 .. Len(s) : (s \o t)[n] = s[n]
         /\ \A n \in 1 .. Len(t) : (s \o t)[Len(s) + n] = t[n]
<1> DEFINE u == s \o t
<1>1. /\ u \in Seq(X) /\ Len(u) = Len(s) + Len(t)
      /\ \A i \in 1 .. Len(s) + Len(t) : u[i] = IF i <= Len(s) THEN s[i] ELSE t[i - Len(s)]
  BY ConcatProperties
<1> HIDE DEF u
<1>2. Len(s) \in Nat /\ Len(t) \in Nat
  OBVIOUS
<1>3. /\ \A n \in 1 .. Len(s) : u[n] = s[n]
      /\ \A n \in 1 .. Len(t) : u[Len(s) + n] = t[n]
  <2>1. ASSUME NEW n \in 1 .. Len(s) PROVE u[n] = s[n]
    <3>1. n \in 1 .. Len(s) + Len(t) /\ n <= Len(s)
      BY <1>2
    <3> QED BY <1>1, <3>1
  <2>2. ASSUME NEW n \in 1 .. Len(t) PROVE u[Len(s) + n] = t[n]
    <3>1. Len(s) + n \in 1 .. Len(s) + Len(t) /\ ~ (Len(s) + n <= Len(s))
          /\ (Len(s) + n) - Len(s) = n
      BY <1>2
    <3> QED BY <1>1, <3>1
  <2> QED BY <2>1, <2>2
<1>4. ASSUME NEW n \in 1 .. Len(u)-1
      PROVE  <<u[n], u[n+1]>> \in R
  <2>1. CASE n < Len(s)
    BY <1>1, <1>2, <1>3, <2>1 DEF Linked
  <2>2. CASE n = Len(s)
    <3>1. s # <<>> /\ t # <<>>
      BY <1>1, <1>2, <2>2
    <3>2. u[n] = s[Len(s)] /\ u[n+1] = t[1]
      BY <1>1, <1>2, <1>3, <2>2
    <3> QED BY <3>1, <3>2
  <2>3. CASE n > Len(s)
    <3> DEFINE m == n - Len(s)
    <3>1. m \in 1 .. Len(t)-1 /\ n = Len(s) + m
      BY <1>1, <1>2, <2>3
    <3>2. u[n] = t[m] /\ u[n+1] = t[m+1]
      BY <1>1, <1>2, <1>3, <3>1
    <3> QED BY <3>1, <3>2 DEF Linked
  <2> QED BY <1>1, <1>2, <2>1, <2>2, <2>3
<1>5. Linked(u, R)
  BY <1>4 DEF Linked
<1> QED BY <1>1, <1>3, <1>5, Zenon DEF u

LEMMA HeadIsFirst ==
  ASSUME NEW X, NEW s \in Seq(X), s # <<>>
  PROVE  Head(s) \in X /\ Head(s) = s[1] /\ 1 \in 1 .. Len(s)
<1>1. Len(s) \in Nat /\ Len(s) # 0 /\ Head(s) = s[1]
  OBVIOUS
<1> QED BY <1>1, HeadTailProperties

LEMMA TailLinked ==
  ASSUME NEW X, NEW R, NEW s \in Seq(X), s # <<>>, Linked(s, R), NEW t, t = Tail(s)
  PROVE  /\ t \in Seq(X) /\ Linked(t, R) /\ Len(t) = Len(s)-1
         /\ Head(s) = s[1] /\ 1 \in 1 .. Len(s)
         /\ \A n \in 1 .. Len(t) : t[n] = s[n+1] /\ n+1 \in 1 .. Len(s)
         /\ t # <<>> => t[Len(t)] = s[Len(s)] /\ <<Head(s), Head(t)>> \in R
         /\ t = <<>> => Head(s) = s[Len(s)]
<1>1. /\ t \in Seq(X) /\ Len(t) = Len(s)-1
      /\ \A i \in 1 .. Len(t) : t[i] = s[i+1]
  BY HeadTailProperties
<1>2. Len(s) \in Nat /\ Len(s) # 0 /\ Head(s) = s[1]
  OBVIOUS
<1>3. \A n \in 1 .. Len(t) : t[n] = s[n+1] /\ n+1 \in 1 .. Len(s)
  BY <1>1, <1>2
<1>4. Linked(t, R)
  BY <1>1, <1>2, <1>3 DEF Linked
<1>5. ASSUME t # <<>>
      PROVE  t[Len(t)] = s[Len(s)] /\ <<Head(s), Head(t)>> \in R
  <2>1. Len(t) \in Nat /\ Len(t) # 0 /\ Head(t) = t[1]
    BY <1>1, <1>5
  <2> QED BY <1>1, <1>2, <1>3, <2>1 DEF Linked
<1>6. ASSUME t = <<>> PROVE Head(s) = s[Len(s)]
  <2>0. Len(<<>>) = 0
    OBVIOUS
  <2>1. Len(t) = 0
    BY <1>6, <2>0, Zenon
  <2>2. Len(s) = 1
    BY <1>1, <1>2, <2>1
  <2> QED BY <1>2, <2>2
<1>7. 1 \in 1 .. Len(s)
  BY <1>2
<1> QED BY <1>1, <1>2, <1>3, <1>4, <1>5, <1>6, <1>7

----------------------------------------------------------------------------
(* What ApplySplit queues.                                                 *)

LEMMA RoutedIdsOK ==
  ASSUME NEW ids \in RoutedIds
  PROVE  ids \in Seq(Experts) /\ Len(ids) \in Nat /\ Len(ids) >= 1
BY LayerAssumption DEF Rows

LEMMA OpsOK ==
  ASSUME NEW ids \in RoutedIds, NEW f \in Nat, NEW k \in 0 .. 2, NEW n \in Names
  PROVE  /\ Op(n, k, ids, f) \in Ops /\ Op(n, k, ids, f).op = n
         /\ Op(n, k, ids, f).stage = k /\ Op(n, k, ids, f).ids = ids
         /\ Op(n, k, ids, f).fwd = f
BY DEF Op, Ops

(* A stretch of one forward on the current stream.                         *)
Stretch(s, first, ids, f) ==
  /\ s \in Seq(Ops) /\ Len(s) >= 1 /\ Linked(s, CurPairs) /\ s[1] = first
  /\ \A n \in 1 .. Len(s) : OnCurrent(s[n]) /\ s[n].ids = ids /\ s[n].fwd = f

LEMMA JoinStretches ==
  ASSUME NEW s, NEW t, NEW a, NEW b, NEW ids, NEW f,
         Stretch(s, a, ids, f), Stretch(t, b, ids, f), Succeeds(s[Len(s)], b)
  PROVE  Stretch(s \o t, a, ids, f) /\ (s \o t)[Len(s \o t)] = t[Len(t)]
<1> DEFINE u == s \o t
<1>1. /\ s \in Seq(Ops) /\ t \in Seq(Ops) /\ Linked(s, CurPairs) /\ Linked(t, CurPairs)
      /\ Len(s) \in Nat /\ Len(s) >= 1 /\ Len(t) \in Nat /\ Len(t) >= 1
      /\ s[1] = a /\ t[1] = b
  BY DEF Stretch
<1>2. <<s[Len(s)], t[1]>> \in CurPairs
  <2>1. s[Len(s)] \in Ops /\ t[1] \in Ops
    BY <1>1
  <2> QED BY <1>1, <2>1 DEF CurPairs
<1>3. /\ u \in Seq(Ops) /\ Linked(u, CurPairs) /\ Len(u) = Len(s) + Len(t)
      /\ \A n \in 1 .. Len(s) : u[n] = s[n]
      /\ \A n \in 1 .. Len(t) : u[Len(s) + n] = t[n]
  BY <1>1, <1>2, JoinLinked
<1> HIDE DEF u
<1>4. Len(u) >= 1 /\ u[1] = a /\ u[Len(u)] = t[Len(t)]
  BY <1>1, <1>3
<1>5. ASSUME NEW n \in 1 .. Len(u)
      PROVE  OnCurrent(u[n]) /\ u[n].ids = ids /\ u[n].fwd = f
  <2>1. CASE n <= Len(s)
    <3>1. u[n] = s[n] /\ n \in 1 .. Len(s)
      BY <1>1, <1>3, <2>1
    <3> QED BY <3>1 DEF Stretch
  <2>2. CASE n > Len(s)
    <3> DEFINE m == n - Len(s)
    <3>1. m \in 1 .. Len(t) /\ n = Len(s) + m
      BY <1>1, <1>3, <2>2
    <3>2. u[n] = t[m]
      BY <1>3, <3>1
    <3> QED BY <3>1, <3>2 DEF Stretch
  <2> QED BY <1>1, <2>1, <2>2
<1>6. Stretch(u, a, ids, f)
  BY <1>3, <1>4, <1>5 DEF Stretch
<1> QED BY <1>4, <1>6, Zenon DEF u

(* Stretches of one, two, three and four operations.                       *)
LEMMA ShortStretches ==
  ASSUME NEW ids, NEW f, NEW a \in Ops, OnCurrent(a), a.ids = ids, a.fwd = f,
         NEW b \in Ops, OnCurrent(b), b.ids = ids, b.fwd = f
  PROVE  /\ Stretch(<<a>>, a, ids, f) /\ <<a>>[Len(<<a>>)] = a
         /\ Succeeds(a, b) => /\ Stretch(<<a, b>>, a, ids, f)
                              /\ <<a, b>>[Len(<<a, b>>)] = b
<1>1. Stretch(<<a>>, a, ids, f) /\ <<a>>[Len(<<a>>)] = a
  BY DEF Stretch, Linked
<1>2. ASSUME Succeeds(a, b)
      PROVE  Stretch(<<a, b>>, a, ids, f) /\ <<a, b>>[Len(<<a, b>>)] = b
  <2>1. <<a, b>> \in CurPairs
    BY <1>2 DEF CurPairs
  <2> QED BY <2>1 DEF Stretch, Linked
<1> QED BY <1>1, <1>2

LEMMA ThreeStretch ==
  ASSUME NEW ids, NEW f, NEW a \in Ops, OnCurrent(a), a.ids = ids, a.fwd = f,
         NEW b \in Ops, OnCurrent(b), b.ids = ids, b.fwd = f, Succeeds(a, b),
         NEW c \in Ops, OnCurrent(c), c.ids = ids, c.fwd = f, Succeeds(b, c)
  PROVE  Stretch(<<a, b, c>>, a, ids, f) /\ <<a, b, c>>[Len(<<a, b, c>>)] = c
<1>1. <<a, b>> \in CurPairs /\ <<b, c>> \in CurPairs
  BY DEF CurPairs
<1> QED BY <1>1 DEF Stretch, Linked

(* The bookkeeping, and one projection.                                    *)
LEMMA BookkeepingStretch ==
  ASSUME QueuesOK, NEW ids \in RoutedIds, NEW f \in Nat
  PROVE  LET s == Bookkeeping(ids, f)
         IN  /\ Stretch(s, Opening(ids, f), ids, f)
             /\ Succeeds(s[Len(s)], Forking(1, ids, f))
<1> DEFINE o(n) == Op(n, 0, ids, f)
<1>0. \A n \in Names : /\ o(n) \in Ops /\ o(n).op = n /\ o(n).stage = 0
                        /\ o(n).ids = ids /\ o(n).fwd = f
  BY OpsOK
<1>1. env.lru \in BOOLEAN
  BY DEF QueuesOK
<1> DEFINE fork == Forking(1, ids, f)
<1> HIDE DEF o, fork
<1>2. CASE env.lru /\ Len(ids) <= FuseMax
  <2>1. /\ OnCurrent(o("manage_align")) /\ OnCurrent(o("gather"))
        /\ Succeeds(o("manage_align"), o("gather")) /\ Succeeds(o("gather"), fork)
    BY <1>0, <1>2 DEF OnCurrent, Succeeds, Fused, Names, o, fork
  <2>2. o("manage_align") \in Ops /\ o("gather") \in Ops
    BY <1>0 DEF Names
  <2>3. /\ Bookkeeping(ids, f) = <<o("manage_align"), o("gather")>>
        /\ Opening(ids, f) = o("manage_align")
    BY <1>2 DEF Bookkeeping, Opening, Fused, o
  <2> DEFINE s == <<o("manage_align"), o("gather")>>
  <2>4. Stretch(s, o("manage_align"), ids, f) /\ s[Len(s)] = o("gather")
    BY <1>0, <2>1, <2>2, ShortStretches DEF Names
  <2> HIDE DEF s
  <2>5. Bookkeeping(ids, f) = s
    BY <2>3 DEF s
  <2> QED BY <2>1, <2>3, <2>4, <2>5, Zenon DEF fork
<1>3. CASE env.lru /\ ~ (Len(ids) <= FuseMax)
  <2>1. /\ OnCurrent(o("manage")) /\ OnCurrent(o("gather"))
        /\ OnCurrent(o("align_hot")) /\ OnCurrent(o("align_cold"))
        /\ Succeeds(o("manage"), o("gather")) /\ Succeeds(o("gather"), o("align_hot"))
        /\ Succeeds(o("align_hot"), o("align_cold")) /\ Succeeds(o("align_cold"), fork)
    BY <1>0, <1>3 DEF OnCurrent, Succeeds, Fused, Names, o, fork
  <2>2. /\ o("manage") \in Ops /\ o("gather") \in Ops
        /\ o("align_hot") \in Ops /\ o("align_cold") \in Ops
    BY <1>0 DEF Names
  <2> DEFINE s == <<o("manage"), o("gather")>>
             t == <<o("align_hot"), o("align_cold")>>
  <2>3. Bookkeeping(ids, f) = s \o t /\ Opening(ids, f) = o("manage")
    BY <1>3 DEF Bookkeeping, Aligns, Opening, Fused, o
  <2>4. /\ Stretch(s, o("manage"), ids, f) /\ s[Len(s)] = o("gather")
        /\ Stretch(t, o("align_hot"), ids, f) /\ t[Len(t)] = o("align_cold")
    BY <1>0, <2>1, <2>2, ShortStretches DEF Names
  <2> HIDE DEF s, t
  <2>5. Stretch(s \o t, o("manage"), ids, f) /\ (s \o t)[Len(s \o t)] = o("align_cold")
    BY <2>1, <2>4, JoinStretches
  <2> QED BY <2>1, <2>3, <2>5, Zenon DEF fork
<1>4. CASE ~ env.lru
  <2>1. /\ OnCurrent(o("align_hot")) /\ OnCurrent(o("align_cold"))
        /\ Succeeds(o("align_hot"), o("align_cold")) /\ Succeeds(o("align_cold"), fork)
    BY <1>0, <1>4 DEF OnCurrent, Succeeds, Fused, Names, o, fork
  <2>2. o("align_hot") \in Ops /\ o("align_cold") \in Ops
    BY <1>0 DEF Names
  <2>3. /\ Bookkeeping(ids, f) = <<o("align_hot"), o("align_cold")>>
        /\ Opening(ids, f) = o("align_hot")
    BY <1>4 DEF Bookkeeping, Aligns, Opening, o
  <2> DEFINE s == <<o("align_hot"), o("align_cold")>>
  <2>4. Stretch(s, o("align_hot"), ids, f) /\ s[Len(s)] = o("align_cold")
    BY <1>0, <2>1, <2>2, ShortStretches DEF Names
  <2> HIDE DEF s
  <2>5. Bookkeeping(ids, f) = s
    BY <2>3 DEF s
  <2> QED BY <2>1, <2>3, <2>4, <2>5, Zenon DEF fork
<1> QED BY <1>1, <1>2, <1>3, <1>4

LEMMA SplitStretch ==
  ASSUME QueuesOK, NEW ids \in RoutedIds, NEW f \in Nat, NEW k \in {1, 2}
  PROVE  LET s == SplitOnCur(k, ids, f)
         IN  /\ Stretch(s, Forking(k, ids, f), ids, f)
             /\ Succeeds(s[Len(s)], Leaving(k, ids, f))
<1> DEFINE o(n) == Op(n, k, ids, f)
           leave == Leaving(k, ids, f)
<1>0. \A n \in Names : /\ o(n) \in Ops /\ o(n).op = n /\ o(n).stage = k
                        /\ o(n).ids = ids /\ o(n).fwd = f
  BY OpsOK
<1>1. env.side \in BOOLEAN
  BY DEF QueuesOK
<1> HIDE DEF o, leave
<1>2. CASE env.side
  <2>1. /\ OnCurrent(o("record_fork")) /\ OnCurrent(o("cold")) /\ OnCurrent(o("wait_join"))
        /\ Succeeds(o("record_fork"), o("cold")) /\ Succeeds(o("cold"), o("wait_join"))
        /\ Succeeds(o("wait_join"), leave)
    BY <1>0, <1>2 DEF OnCurrent, Succeeds, Names, o, leave
  <2>2. o("record_fork") \in Ops /\ o("cold") \in Ops /\ o("wait_join") \in Ops
    BY <1>0 DEF Names
  <2>3. /\ SplitOnCur(k, ids, f) = <<o("record_fork"), o("cold"), o("wait_join")>>
        /\ Forking(k, ids, f) = o("record_fork")
    BY <1>2 DEF SplitOnCur, Forking, o
  <2> DEFINE s == <<o("record_fork"), o("cold"), o("wait_join")>>
  <2>4. Stretch(s, o("record_fork"), ids, f) /\ s[Len(s)] = o("wait_join")
    BY <1>0, <2>1, <2>2, ThreeStretch DEF Names
  <2> HIDE DEF s
  <2>5. SplitOnCur(k, ids, f) = s
    BY <2>3 DEF s
  <2> QED BY <2>1, <2>3, <2>4, <2>5, Zenon DEF leave
<1>3. CASE ~ env.side /\ SkipCold(ids)
  <2>1. OnCurrent(o("hot")) /\ Succeeds(o("hot"), leave)
    BY <1>0, <1>3 DEF OnCurrent, Succeeds, Names, o, leave
  <2>2. o("hot") \in Ops
    BY <1>0 DEF Names
  <2> DEFINE s == <<o("hot")>>
  <2>3. Forking(k, ids, f) = o("hot")
    BY <1>3 DEF Forking, o
  <2>4. Stretch(s, o("hot"), ids, f) /\ s[Len(s)] = o("hot")
    BY <1>0, <2>1, <2>2, ShortStretches DEF Names
  <2>5. SplitOnCur(k, ids, f) = s \o <<>>
    BY <1>3 DEF SplitOnCur, o
  <2> HIDE DEF s
  <2>6. s \o <<>> = s
    BY <2>4, ConcatEmptySeq DEF Stretch
  <2> QED BY <2>1, <2>3, <2>4, <2>5, <2>6, Zenon DEF leave
<1>4. CASE ~ env.side /\ ~ SkipCold(ids)
  <2>1. /\ OnCurrent(o("hot")) /\ OnCurrent(o("cold"))
        /\ Succeeds(o("hot"), o("cold")) /\ Succeeds(o("cold"), leave)
    BY <1>0, <1>4 DEF OnCurrent, Succeeds, Names, o, leave
  <2>2. o("hot") \in Ops /\ o("cold") \in Ops
    BY <1>0 DEF Names
  <2> DEFINE s == <<o("hot")>>
             t == <<o("cold")>>
  <2>3. SplitOnCur(k, ids, f) = s \o t /\ Forking(k, ids, f) = o("hot")
    BY <1>4 DEF SplitOnCur, Forking, o
  <2>4. /\ Stretch(s, o("hot"), ids, f) /\ s[Len(s)] = o("hot")
        /\ Stretch(t, o("cold"), ids, f) /\ t[Len(t)] = o("cold")
    BY <1>0, <2>1, <2>2, ShortStretches DEF Names
  <2> HIDE DEF s, t
  <2>5. Stretch(s \o t, o("hot"), ids, f) /\ (s \o t)[Len(s \o t)] = o("cold")
    BY <2>1, <2>4, JoinStretches
  <2> QED BY <2>1, <2>3, <2>5, Zenon DEF leave
<1> QED BY <1>1, <1>2, <1>3, <1>4

(* A whole forward.                                                        *)
LEMMA OnCurStretch ==
  ASSUME QueuesOK, NEW ids \in RoutedIds, NEW f \in Nat
  PROVE  LET s == OnCur(ids, f)
         IN  /\ Stretch(s, Opening(ids, f), ids, f)
             /\ s[Len(s)] = Op("moe_sum", 0, ids, f)
<1> DEFINE act == Op("act_quant", 0, ids, f)
           sum == Op("moe_sum", 0, ids, f)
           b == Bookkeeping(ids, f)
           s1 == SplitOnCur(1, ids, f)
           s2 == SplitOnCur(2, ids, f)
           first == Opening(ids, f)
           fork1 == Forking(1, ids, f)
           fork2 == Forking(2, ids, f)
<1>1. /\ act \in Ops /\ sum \in Ops /\ OnCurrent(act) /\ OnCurrent(sum)
      /\ act.ids = ids /\ act.fwd = f /\ sum.ids = ids /\ sum.fwd = f
      /\ Succeeds(act, fork2)
  <2>1. /\ act \in Ops /\ act.op = "act_quant" /\ act.stage = 0 /\ act.ids = ids /\ act.fwd = f
        /\ sum \in Ops /\ sum.op = "moe_sum" /\ sum.stage = 0 /\ sum.ids = ids /\ sum.fwd = f
    BY OpsOK DEF Names
  <2> HIDE DEF act, sum
  <2>2. OnCurrent(act) /\ OnCurrent(sum)
    BY <2>1 DEF OnCurrent
  <2>3. Succeeds(act, fork2)
    BY <2>1 DEF Succeeds
  <2> QED BY <2>1, <2>2, <2>3
<1>2. Leaving(1, ids, f) = act /\ Leaving(2, ids, f) = sum
  BY DEF Leaving
<1>3. Stretch(b, first, ids, f) /\ Succeeds(b[Len(b)], fork1)
  BY BookkeepingStretch
<1>4. Stretch(s1, fork1, ids, f) /\ Succeeds(s1[Len(s1)], act)
  BY <1>2, SplitStretch
<1>5. Stretch(s2, fork2, ids, f) /\ Succeeds(s2[Len(s2)], sum)
  BY <1>2, SplitStretch
<1>6. OnCur(ids, f) = b \o s1 \o <<act>> \o s2 \o <<sum>>
  BY DEF OnCur
<1> HIDE DEF act, sum, b, s1, s2, first, fork1, fork2
<1>7. /\ Stretch(<<act>>, act, ids, f) /\ <<act>>[Len(<<act>>)] = act
      /\ Stretch(<<sum>>, sum, ids, f) /\ <<sum>>[Len(<<sum>>)] = sum
  BY <1>1, ShortStretches
<1> DEFINE t1 == b \o s1
           a1 == <<act>>
           t2 == t1 \o a1
           t3 == t2 \o s2
           a2 == <<sum>>
           t4 == t3 \o a2
<1>8. Stretch(t1, first, ids, f) /\ Succeeds(t1[Len(t1)], act)
  BY <1>3, <1>4, JoinStretches
<1> HIDE DEF t1, a1
<1>9. Stretch(t2, first, ids, f) /\ Succeeds(t2[Len(t2)], fork2)
  BY <1>1, <1>7, <1>8, JoinStretches DEF a1
<1> HIDE DEF t2
<1>10. Stretch(t3, first, ids, f) /\ Succeeds(t3[Len(t3)], sum)
  BY <1>5, <1>9, JoinStretches
<1> HIDE DEF t3, a2
<1>11. Stretch(t4, first, ids, f) /\ t4[Len(t4)] = sum
  BY <1>7, <1>10, JoinStretches DEF a2
<1>12. OnCur(ids, f) = t4
  BY <1>6, Zenon DEF t1, a1, t2, t3, a2, t4
<1> HIDE DEF t4
<1> QED BY <1>11, <1>12, Zenon DEF first, sum

(* The side stream's share.                                                *)
LEMMA OnSideStretch ==
  ASSUME QueuesOK, NEW ids \in RoutedIds, NEW f \in Nat
  PROVE  LET s == OnSide(ids, f)
         IN  /\ s \in Seq(Ops) /\ Linked(s, SidePairs)
             /\ \A n \in 1 .. Len(s) : OnAside(s[n]) /\ s[n].ids = ids /\ s[n].fwd = f
             /\ s # <<>> <=> env.side
             /\ env.side => /\ s[1] = Op("wait_fork", 1, ids, f)
                            /\ s[Len(s)] = Op("record_join", 2, ids, f)
<1>1. env.side \in BOOLEAN
  BY DEF QueuesOK
<1>2. CASE env.side
  <2> DEFINE s(k) == SplitOnSide(k, ids, f)
  <2>1. ASSUME NEW k \in {1, 2}
        PROVE  /\ s(k) \in Seq(Ops) /\ Linked(s(k), SidePairs) /\ Len(s(k)) = 3
               /\ \A n \in 1 .. 3 : /\ OnAside(s(k)[n])
                                    /\ s(k)[n].ids = ids /\ s(k)[n].fwd = f
               /\ s(k)[1] = Op("wait_fork", k, ids, f)
               /\ s(k)[3] = Op("record_join", k, ids, f)
    <3> DEFINE o(n) == Op(n, k, ids, f)
    <3>1. ASSUME NEW n \in {"wait_fork", "hot", "record_join"}
          PROVE  /\ o(n) \in Ops /\ OnAside(o(n)) /\ o(n).ids = ids /\ o(n).fwd = f
                 /\ o(n).op = n /\ o(n).stage = k
      <4>1. n \in Names /\ k \in 0 .. 2
        BY DEF Names
      <4>2. /\ o(n) \in Ops /\ o(n).op = n /\ o(n).stage = k
            /\ o(n).ids = ids /\ o(n).fwd = f
        BY <4>1, OpsOK
      <4> HIDE DEF o
      <4> QED BY <1>2, <4>2 DEF OnAside
    <3>2. /\ <<o("wait_fork"), o("hot")>> \in SidePairs
          /\ <<o("hot"), o("record_join")>> \in SidePairs
      BY <3>1 DEF SidePairs, SucceedsAside
    <3>3. s(k) = <<o("wait_fork"), o("hot"), o("record_join")>>
      BY <1>2 DEF SplitOnSide
    <3> HIDE DEF o, s
    <3>4. s(k) \in Seq(Ops) /\ Len(s(k)) = 3 /\ Linked(s(k), SidePairs)
      BY <3>1, <3>2, <3>3 DEF Linked
    <3>5. s(k)[1] = o("wait_fork") /\ s(k)[2] = o("hot") /\ s(k)[3] = o("record_join")
      BY <3>3
    <3>6. \A n \in 1 .. 3 : n = 1 \/ n = 2 \/ n = 3
      OBVIOUS
    <3> QED BY <3>1, <3>4, <3>5, <3>6 DEF o
  <2>2. OnSide(ids, f) = s(1) \o s(2)
    BY DEF OnSide
  <2>3. <<s(1)[Len(s(1))], s(2)[1]>> \in SidePairs
    <3>1. s(1)[3] = Op("record_join", 1, ids, f) /\ s(2)[1] = Op("wait_fork", 2, ids, f)
      BY <2>1
    <3>2. Op("record_join", 1, ids, f) \in Ops /\ Op("wait_fork", 2, ids, f) \in Ops
      BY OpsOK DEF Names
    <3>3. /\ Op("record_join", 1, ids, f).op = "record_join"
          /\ Op("record_join", 1, ids, f).stage = 1 /\ Op("record_join", 1, ids, f).ids = ids
          /\ Op("record_join", 1, ids, f).fwd = f
      BY DEF Op
    <3>4. <<Op("record_join", 1, ids, f), Op("wait_fork", 2, ids, f)>> \in SidePairs
      BY <3>2, <3>3 DEF SidePairs, SucceedsAside
    <3>5. Len(s(1)) = 3
      BY <2>1
    <3> HIDE DEF s
    <3> QED BY <3>1, <3>4, <3>5
  <2> HIDE DEF s
  <2> DEFINE u == s(1) \o s(2)
  <2>4. /\ u \in Seq(Ops) /\ Linked(u, SidePairs) /\ Len(u) = 6
        /\ \A n \in 1 .. 3 : u[n] = s(1)[n]
        /\ \A n \in 1 .. 3 : u[3 + n] = s(2)[n]
    <3>1. /\ s(1) \in Seq(Ops) /\ Linked(s(1), SidePairs) /\ Len(s(1)) = 3
          /\ s(2) \in Seq(Ops) /\ Linked(s(2), SidePairs) /\ Len(s(2)) = 3
      BY <2>1
    <3> DEFINE t1 == s(1)
               t2 == s(2)
    <3> HIDE DEF t1, t2
    <3>2. /\ t1 \o t2 \in Seq(Ops) /\ Linked(t1 \o t2, SidePairs) /\ Len(t1 \o t2) = Len(t1) + Len(t2)
          /\ \A n \in 1 .. Len(t1) : (t1 \o t2)[n] = t1[n]
          /\ \A n \in 1 .. Len(t2) : (t1 \o t2)[Len(t1) + n] = t2[n]
      BY <2>3, <3>1, JoinLinked DEF t1, t2
    <3>3. Len(t1) = 3 /\ Len(t2) = 3 /\ u = t1 \o t2
      BY <3>1 DEF t1, t2, u
    <3> HIDE DEF u
    <3>4. /\ u \in Seq(Ops) /\ Linked(u, SidePairs) /\ Len(u) = 6
          /\ \A n \in 1 .. 3 : u[n] = t1[n]
          /\ \A n \in 1 .. 3 : u[3 + n] = t2[n]
      BY <3>2, <3>3
    <3> QED BY <3>4 DEF t1, t2
  <2> HIDE DEF u
  <2>5. ASSUME NEW n \in 1 .. Len(u)
        PROVE  OnAside(u[n]) /\ u[n].ids = ids /\ u[n].fwd = f
    <3>1. CASE n <= 3
      BY <2>1, <2>4, <3>1
    <3>2. CASE n > 3
      <4> DEFINE m == n - 3
      <4>1. m \in 1 .. 3 /\ n = 3 + m
        BY <2>4, <3>2
      <4>2. u[n] = s(2)[m]
        BY <2>4, <4>1
      <4> QED BY <2>1, <4>1, <4>2
    <3> QED BY <2>4, <3>1, <3>2
  <2>6. u # <<>> /\ u[1] = s(1)[1] /\ u[Len(u)] = s(2)[3]
    <3>1. ASSUME u = <<>> PROVE FALSE
      <4>1. Len(u) = 0
        BY <3>1
      <4> QED BY <2>4, <4>1
    <3>2. u[1] = s(1)[1] /\ u[3 + 3] = s(2)[3]
      <4>1. 1 \in 1 .. 3 /\ 3 \in 1 .. 3
        OBVIOUS
      <4> QED BY <2>4, <4>1, Zenon
    <3>3. Len(u) = 3 + 3
      BY <2>4
    <3> QED BY <3>1, <3>2, <3>3, Zenon
  <2>7. OnSide(ids, f) = u
    BY <2>2, Zenon DEF u
  <2> QED BY <1>2, <2>1, <2>4, <2>5, <2>6, <2>7
<1>3. CASE ~ env.side
  <2>1. OnSide(ids, f) = <<>>
    BY <1>3 DEF OnSide, SplitOnSide
  <2> QED BY <1>3, <2>1 DEF Linked
<1> QED BY <1>1, <1>2, <1>3

----------------------------------------------------------------------------
(* The heads.                                                              *)

LEMMA HeadCur ==
  ASSUME QueuesOK, queue.cur # <<>>
  PROVE  LET o == Cur("cur")
         IN  /\ o \in Ops /\ OnCurrent(o) /\ o.fwd \in Nat /\ o.fwd <= fwd /\ o = queue.cur[1]
             /\ o.ids \in RoutedIds /\ o.stage \in 0 .. 2
             /\ CurFwd = o.fwd /\ CurAt \in 1 .. 12
             /\ o.op \in {"manage", "manage_align"} <=> CurAt = 1
             /\ o.op = "gather" <=> CurAt = 2
             /\ o.op = "align_hot" <=> CurAt = 3
             /\ o.op = "align_cold" <=> CurAt = 4
             /\ o.op \in {"record_fork", "hot"} => o.stage \in {1, 2} /\ CurAt = 4 * o.stage + 1
             /\ o.op = "cold" => o.stage \in {1, 2} /\ CurAt = 4 * o.stage + 2
             /\ o.op = "wait_join" => o.stage \in {1, 2} /\ CurAt = 4 * o.stage + 3
             /\ o.op \in {"record_fork", "hot"} <=> CurAt \in {5, 9}
             /\ o.op = "cold" <=> CurAt \in {6, 10}
             /\ o.op = "wait_join" <=> CurAt \in {7, 11}
             /\ o.op = "act_quant" <=> CurAt = 8
             /\ o.op = "moe_sum" <=> CurAt = 12
<1> DEFINE o == Cur("cur")
<1>1. o \in Ops /\ o = queue.cur[1] /\ 1 \in 1 .. Len(queue.cur)
  <2>1. queue.cur \in Seq(Ops)
    BY DEF QueuesOK, Streams
  <2> QED BY <2>1, HeadIsFirst DEF Cur
<1>2. OnCurrent(o) /\ o.fwd <= fwd
  BY <1>1 DEF QueuesOK
<1>3. CurFwd = o.fwd /\ CurAt = Place(o)
  BY DEF CurFwd, CurAt
<1> HIDE DEF o
<1>4. o.stage \in 0 .. 2 /\ o.fwd \in Nat /\ o.ids \in RoutedIds
  BY <1>1 DEF Ops
<1> DEFINE n == o.op
           k == o.stage
           p == Place(o)
<1>5. \/ k = 0 /\ n \in {"manage", "manage_align"} /\ p = 1
      \/ k = 0 /\ n = "gather" /\ p = 2
      \/ k = 0 /\ n = "align_hot" /\ p = 3
      \/ k = 0 /\ n = "align_cold" /\ p = 4
      \/ k = 0 /\ n = "act_quant" /\ p = 8
      \/ k = 0 /\ n = "moe_sum" /\ p = 12
      \/ k \in {1, 2} /\ n \in {"record_fork", "hot"} /\ p = 4 * k + 1
      \/ k \in {1, 2} /\ n = "cold" /\ p = 4 * k + 2
      \/ k \in {1, 2} /\ n = "wait_join" /\ p = 4 * k + 3
  BY <1>2 DEF OnCurrent, Place
<1> HIDE DEF n, k, p
<1>6. /\ p \in 1 .. 12
      /\ n \in {"manage", "manage_align"} <=> p = 1
      /\ n = "gather" <=> p = 2
      /\ n = "align_hot" <=> p = 3
      /\ n = "align_cold" <=> p = 4
  BY <1>5
<1>7. /\ n \in {"record_fork", "hot"} => k \in {1, 2} /\ p = 4 * k + 1
      /\ n = "cold" => k \in {1, 2} /\ p = 4 * k + 2
      /\ n = "wait_join" => k \in {1, 2} /\ p = 4 * k + 3
  BY <1>5
<1>8. /\ n \in {"record_fork", "hot"} <=> p \in {5, 9}
      /\ n = "cold" <=> p \in {6, 10}
      /\ n = "wait_join" <=> p \in {7, 11}
      /\ n = "act_quant" <=> p = 8
      /\ n = "moe_sum" <=> p = 12
  BY <1>5
<1> QED BY <1>1, <1>2, <1>3, <1>4, <1>6, <1>7, <1>8 DEF o, n, k, p

LEMMA HeadSide ==
  ASSUME QueuesOK, queue.side # <<>>
  PROVE  LET o == Cur("side")
         IN  /\ o \in Ops /\ OnAside(o) /\ o.fwd \in Nat /\ o.fwd <= fwd /\ o = queue.side[1]
             /\ env.side /\ o.stage \in {1, 2}
             /\ SideFwd = o.fwd /\ SideAt \in {5, 6, 7, 9, 10, 11}
             /\ o.op \in {"wait_fork", "hot", "record_join"}
             /\ o.op = "wait_fork" <=> SideAt \in {5, 9}
             /\ o.op = "hot" <=> SideAt \in {6, 10}
             /\ o.op = "record_join" <=> SideAt \in {7, 11}
             /\ o.op = "wait_fork" => SideAt = 4 * o.stage + 1
             /\ o.op = "hot" => SideAt = 4 * o.stage + 2
             /\ o.op = "record_join" => SideAt = 4 * o.stage + 3
<1> DEFINE o == Cur("side")
<1>1. o \in Ops /\ o = queue.side[1] /\ 1 \in 1 .. Len(queue.side)
  <2>1. queue.side \in Seq(Ops)
    BY DEF QueuesOK, Streams
  <2> QED BY <2>1, HeadIsFirst DEF Cur
<1>2. OnAside(o) /\ o.fwd <= fwd
  BY <1>1 DEF QueuesOK
<1>3. SideFwd = o.fwd /\ SideAt = SidePlace(o)
  BY DEF SideFwd, SideAt
<1> HIDE DEF o
<1>4. o.fwd \in Nat
  BY <1>1 DEF Ops
<1> DEFINE n == o.op
           k == o.stage
           p == SidePlace(o)
<1>5. /\ k \in {1, 2} /\ env.side
      /\ \/ n = "wait_fork" /\ p = 4 * k + 1
         \/ n = "hot" /\ p = 4 * k + 2
         \/ n = "record_join" /\ p = 4 * k + 3
  BY <1>2 DEF OnAside, SidePlace
<1> HIDE DEF n, k, p
<1>6. /\ p \in {5, 6, 7, 9, 10, 11} /\ n \in {"wait_fork", "hot", "record_join"}
      /\ n = "wait_fork" <=> p \in {5, 9}
      /\ n = "hot" <=> p \in {6, 10}
      /\ n = "record_join" <=> p \in {7, 11}
  BY <1>5
<1>7. /\ n = "wait_fork" => p = 4 * k + 1
      /\ n = "hot" => p = 4 * k + 2
      /\ n = "record_join" => p = 4 * k + 3
  BY <1>5
<1> QED BY <1>1, <1>2, <1>3, <1>4, <1>5, <1>6, <1>7 DEF o, n, k, p

(* The head of the current stream retires.                                 *)
LEMMA PopCur ==
  ASSUME QueuesOK, queue.cur # <<>>, Done("cur"), fwd' = fwd, env' = env
  PROVE  /\ QueuesOK' /\ queue'.side = queue.side
         /\ queue'.cur = <<>> => Cur("cur").op = "moe_sum" /\ Cur("cur").fwd = fwd
         /\ queue'.cur # <<>> => Succeeds(Cur("cur"), Cur("cur")')
<1> DEFINE c == queue.cur
           d == queue'.cur
<1>1. /\ queue' = [queue EXCEPT !["cur"] = Tail(@)] /\ queue \in [Streams -> Seq(Ops)]
      /\ c \in Seq(Ops) /\ Linked(c, CurPairs) /\ c # <<>>
  BY DEF Done, QueuesOK, Streams
<1>2. d = Tail(c) /\ queue'.side = queue.side
  BY <1>1 DEF Streams
<1>3. Cur("cur") = Head(c) /\ Cur("cur")' = Head(d)
  BY DEF Cur
<1>4. CurPairs' = CurPairs /\ SidePairs' = SidePairs
  BY DEF CurPairs, SidePairs, Succeeds, SucceedsAside, Fused, Forking, Leaving, Opening, SkipCold
<1> HIDE DEF c, d
<1>5. /\ d \in Seq(Ops) /\ Linked(d, CurPairs) /\ Head(c) = c[1] /\ 1 \in 1 .. Len(c)
      /\ \A n \in 1 .. Len(d) : d[n] = c[n+1] /\ n+1 \in 1 .. Len(c)
      /\ d # <<>> => d[Len(d)] = c[Len(c)] /\ <<Head(c), Head(d)>> \in CurPairs
      /\ d = <<>> => Head(c) = c[Len(c)]
  <2> SUFFICES ASSUME NEW s \in Seq(Ops), s # <<>>, Linked(s, CurPairs), NEW t, t = Tail(s)
               PROVE  /\ t \in Seq(Ops) /\ Linked(t, CurPairs)
                      /\ Head(s) = s[1] /\ 1 \in 1 .. Len(s)
                      /\ \A n \in 1 .. Len(t) : t[n] = s[n+1] /\ n+1 \in 1 .. Len(s)
                      /\ t # <<>> => t[Len(t)] = s[Len(s)] /\ <<Head(s), Head(t)>> \in CurPairs
                      /\ t = <<>> => Head(s) = s[Len(s)]
    BY <1>1, <1>2, Zenon
  <2>1. t \in Seq(Ops) BY TailLinked
  <2>2. Linked(t, CurPairs) BY TailLinked
  <2>3. Head(s) = s[1] BY TailLinked
  <2>4. \A n \in 1 .. Len(t) : t[n] = s[n+1] /\ n+1 \in 1 .. Len(s) BY TailLinked
  <2>5. t # <<>> => t[Len(t)] = s[Len(s)] /\ <<Head(s), Head(t)>> \in CurPairs BY TailLinked
  <2>6. t = <<>> => Head(s) = s[Len(s)] BY TailLinked
  <2>7. 1 \in 1 .. Len(s) BY TailLinked
  <2> QED BY <2>1, <2>2, <2>3, <2>4, <2>5, <2>6, <2>7
<1>6. QueuesOK'
  <2>1. queue' \in [Streams -> Seq(Ops)]
    BY <1>1, <1>2, <1>5 DEF c, d
  <2>2. ASSUME NEW n \in 1 .. Len(d)
        PROVE  OnCurrent(queue.cur[n])' /\ d[n].fwd <= fwd'
    <3>1. OnCurrent(c[n+1]) /\ c[n+1].fwd <= fwd /\ d[n] = c[n+1]
      BY <1>5 DEF QueuesOK, c
    <3> QED BY <3>1 DEF OnCurrent, Fused, SkipCold, d
  <2>3. ASSUME NEW n \in 1 .. Len(queue'.side)
        PROVE  OnAside(queue.side[n])' /\ queue'.side[n].fwd <= fwd'
    BY <1>2 DEF QueuesOK, OnAside
  <2>4. Linked(queue.cur, CurPairs)'
    BY <1>4, <1>5 DEF Linked, d
  <2>5. Linked(queue.side, SidePairs)'
    BY <1>2, <1>4 DEF Linked, QueuesOK
  <2>6. d # <<>> => d[Len(d)].op = "moe_sum" /\ d[Len(d)].fwd = fwd'
    BY <1>1, <1>5 DEF QueuesOK, c
  <2>7. ASSUME NEW m \in 1 .. Len(d), NEW n \in 1 .. Len(queue'.side)
        PROVE  d[m].fwd = queue'.side[n].fwd => d[m].ids = queue'.side[n].ids
    BY <1>2, <1>5 DEF QueuesOK, c
  <2>8. queue'.side # <<>> => /\ queue'.side[Len(queue'.side)].op = "record_join"
                             /\ queue'.side[Len(queue'.side)].stage = 2
                             /\ queue'.side[Len(queue'.side)].fwd = fwd'
    BY <1>2 DEF QueuesOK
  <2>9. fwd' \in Nat /\ env' \in [side : BOOLEAN, lru : BOOLEAN]
    BY DEF QueuesOK
  <2> QED BY <2>1, <2>2, <2>3, <2>4, <2>5, <2>6, <2>7, <2>8, <2>9 DEF QueuesOK, d
<1>7. d = <<>> => Head(c).op = "moe_sum" /\ Head(c).fwd = fwd
  BY <1>1, <1>5 DEF QueuesOK, c
<1>8. d # <<>> => Succeeds(Head(c), Head(d))
  BY <1>5 DEF CurPairs
<1> QED BY <1>2, <1>3, <1>6, <1>7, <1>8 DEF d

(* The head of the side stream retires.                                    *)
LEMMA PopSide ==
  ASSUME QueuesOK, queue.side # <<>>, Done("side"), fwd' = fwd, env' = env
  PROVE  /\ QueuesOK' /\ queue'.cur = queue.cur
         /\ queue'.side = <<>> => /\ Cur("side").op = "record_join" /\ Cur("side").stage = 2
                                  /\ Cur("side").fwd = fwd
         /\ queue'.side # <<>> => SucceedsAside(Cur("side"), Cur("side")')
<1> DEFINE c == queue.side
           d == queue'.side
<1>1. /\ queue' = [queue EXCEPT !["side"] = Tail(@)] /\ queue \in [Streams -> Seq(Ops)]
      /\ c \in Seq(Ops) /\ Linked(c, SidePairs) /\ c # <<>>
  BY DEF Done, QueuesOK, Streams
<1>2. d = Tail(c) /\ queue'.cur = queue.cur
  BY <1>1 DEF Streams
<1>3. Cur("side") = Head(c) /\ Cur("side")' = Head(d)
  BY DEF Cur
<1>4. CurPairs' = CurPairs /\ SidePairs' = SidePairs
  BY DEF CurPairs, SidePairs, Succeeds, SucceedsAside, Fused, Forking, Leaving, Opening, SkipCold
<1> HIDE DEF c, d
<1>5. /\ d \in Seq(Ops) /\ Linked(d, SidePairs) /\ Head(c) = c[1] /\ 1 \in 1 .. Len(c)
      /\ \A n \in 1 .. Len(d) : d[n] = c[n+1] /\ n+1 \in 1 .. Len(c)
      /\ d # <<>> => d[Len(d)] = c[Len(c)] /\ <<Head(c), Head(d)>> \in SidePairs
      /\ d = <<>> => Head(c) = c[Len(c)]
  <2> SUFFICES ASSUME NEW s \in Seq(Ops), s # <<>>, Linked(s, SidePairs), NEW t, t = Tail(s)
               PROVE  /\ t \in Seq(Ops) /\ Linked(t, SidePairs)
                      /\ Head(s) = s[1] /\ 1 \in 1 .. Len(s)
                      /\ \A n \in 1 .. Len(t) : t[n] = s[n+1] /\ n+1 \in 1 .. Len(s)
                      /\ t # <<>> => t[Len(t)] = s[Len(s)] /\ <<Head(s), Head(t)>> \in SidePairs
                      /\ t = <<>> => Head(s) = s[Len(s)]
    BY <1>1, <1>2, Zenon
  <2>1. t \in Seq(Ops)  BY TailLinked
  <2>2. Linked(t, SidePairs)  BY TailLinked
  <2>3. Head(s) = s[1]  BY TailLinked
  <2>4. \A n \in 1 .. Len(t) : t[n] = s[n+1] /\ n+1 \in 1 .. Len(s)  BY TailLinked
  <2>5. t # <<>> => t[Len(t)] = s[Len(s)] /\ <<Head(s), Head(t)>> \in SidePairs
    BY TailLinked
  <2>6. t = <<>> => Head(s) = s[Len(s)]  BY TailLinked
  <2>7. 1 \in 1 .. Len(s)  BY TailLinked
  <2> QED BY <2>1, <2>2, <2>3, <2>4, <2>5, <2>6, <2>7
<1>6. QueuesOK'
  <2>1. queue' \in [Streams -> Seq(Ops)]
    BY <1>1, <1>2, <1>5 DEF c, d
  <2>2. ASSUME NEW n \in 1 .. Len(d)
        PROVE  OnAside(queue.side[n])' /\ d[n].fwd <= fwd'
    <3>1. OnAside(c[n+1]) /\ c[n+1].fwd <= fwd /\ d[n] = c[n+1]
      BY <1>5 DEF QueuesOK, c
    <3> QED BY <3>1 DEF OnAside, d
  <2>3. ASSUME NEW n \in 1 .. Len(queue'.cur)
        PROVE  OnCurrent(queue.cur[n])' /\ queue'.cur[n].fwd <= fwd'
    BY <1>2 DEF QueuesOK, OnCurrent, Fused, SkipCold
  <2>4. Linked(queue.side, SidePairs)'
    BY <1>4, <1>5 DEF Linked, d
  <2>5. Linked(queue.cur, CurPairs)'
    BY <1>2, <1>4 DEF Linked, QueuesOK
  <2>6. d # <<>> => /\ d[Len(d)].op = "record_join" /\ d[Len(d)].stage = 2
                    /\ d[Len(d)].fwd = fwd'
    BY <1>1, <1>5 DEF QueuesOK, c
  <2>7. ASSUME NEW m \in 1 .. Len(queue'.cur), NEW n \in 1 .. Len(d)
        PROVE  queue'.cur[m].fwd = d[n].fwd => queue'.cur[m].ids = d[n].ids
    BY <1>2, <1>5 DEF QueuesOK, c
  <2>8. queue'.cur # <<>> => /\ queue'.cur[Len(queue'.cur)].op = "moe_sum"
                            /\ queue'.cur[Len(queue'.cur)].fwd = fwd'
    BY <1>2 DEF QueuesOK
  <2>9. fwd' \in Nat /\ env' \in [side : BOOLEAN, lru : BOOLEAN]
    BY DEF QueuesOK
  <2> QED BY <2>1, <2>2, <2>3, <2>4, <2>5, <2>6, <2>7, <2>8, <2>9 DEF QueuesOK, d
<1>7. d = <<>> => /\ Head(c).op = "record_join" /\ Head(c).stage = 2 /\ Head(c).fwd = fwd
  BY <1>1, <1>5 DEF QueuesOK, c
<1>8. d # <<>> => SucceedsAside(Head(c), Head(d))
  BY <1>5 DEF SidePairs
<1> QED BY <1>2, <1>3, <1>6, <1>7, <1>8 DEF d

(* A forward is appended to both queues.                                   *)
LEMMA Appended ==
  ASSUME QueuesOK, ApplySplit
  PROVE  /\ QueuesOK' /\ env' = env
         /\ queue.cur # <<>> => queue'.cur # <<>> /\ Cur("cur")' = Cur("cur")
         /\ queue.side # <<>> => queue'.side # <<>> /\ Cur("side")' = Cur("side")
         /\ queue.cur = <<>> => /\ queue'.cur # <<>> /\ Cur("cur").fwd' = fwd + 1
                                /\ Cur("cur")' = Opening(Ids', fwd + 1)
         /\ queue.side = <<>> => \/ queue'.side = <<>> /\ ~ env.side
                                 \/ /\ queue'.side # <<>>
                                    /\ Cur("side").op' = "wait_fork"
                                    /\ Cur("side").stage' = 1 /\ Cur("side").fwd' = fwd + 1
<1>1. PICK ids \in RoutedIds :
         queue' = [cur  |-> queue.cur \o OnCur(ids, fwd'), side |-> queue.side \o OnSide(ids, fwd')]
  BY DEF ApplySplit
<1>2. fwd' = fwd + 1 /\ env' = env /\ fwd \in Nat /\ fwd' \in Nat
  BY DEF ApplySplit, QueuesOK
<1> DEFINE c == queue.cur
           d == queue.side
           x == OnCur(ids, fwd')
           y == OnSide(ids, fwd')
           c1 == c \o x
           d1 == d \o y
           first == Opening(ids, fwd')
<1>3. Stretch(x, first, ids, fwd') /\ x[Len(x)] = Op("moe_sum", 0, ids, fwd')
  BY <1>2, OnCurStretch
<1>4. /\ y \in Seq(Ops) /\ Linked(y, SidePairs)
      /\ \A n \in 1 .. Len(y) : OnAside(y[n]) /\ y[n].ids = ids /\ y[n].fwd = fwd'
      /\ y # <<>> <=> env.side
      /\ env.side => /\ y[1] = Op("wait_fork", 1, ids, fwd')
                     /\ y[Len(y)] = Op("record_join", 2, ids, fwd')
  BY <1>2, OnSideStretch
<1>5. queue'.cur = c1 /\ queue'.side = d1 /\ queue' \in [Streams -> {c1, d1}]
  BY <1>1 DEF Streams
<1>6. CurPairs' = CurPairs /\ SidePairs' = SidePairs
  BY <1>2 DEF CurPairs, SidePairs, Succeeds, SucceedsAside, Fused, Forking, Leaving, Opening, SkipCold
<1>7. /\ c \in Seq(Ops) /\ Linked(c, CurPairs) /\ d \in Seq(Ops) /\ Linked(d, SidePairs)
      /\ \A n \in 1 .. Len(c) : OnCurrent(c[n]) /\ c[n].fwd <= fwd /\ c[n] \in Ops
      /\ \A n \in 1 .. Len(d) : OnAside(d[n]) /\ d[n].fwd <= fwd /\ d[n] \in Ops
      /\ c # <<>> => c[Len(c)].op = "moe_sum" /\ c[Len(c)].fwd = fwd
      /\ d # <<>> => d[Len(d)].op = "record_join" /\ d[Len(d)].stage = 2 /\ d[Len(d)].fwd = fwd
      /\ \A m \in 1 .. Len(c) : \A n \in 1 .. Len(d) : c[m].fwd = d[n].fwd => c[m].ids = d[n].ids
  BY DEF QueuesOK, Streams
<1>8. /\ first.op \in {"manage", "manage_align", "align_hot"} /\ first.fwd = fwd' /\ first.ids = ids
      /\ first = Opening(first.ids, fwd')
  BY DEF Opening, Op
<1> HIDE DEF c, d, x, y, first
<1>9. /\ c1 \in Seq(Ops) /\ Linked(c1, CurPairs) /\ Len(c1) = Len(c) + Len(x)
      /\ \A n \in 1 .. Len(c) : c1[n] = c[n]
      /\ \A n \in 1 .. Len(x) : c1[Len(c) + n] = x[n]
  <2>1. x \in Seq(Ops) /\ Linked(x, CurPairs) /\ Len(x) >= 1 /\ x[1] = first
    BY <1>3 DEF Stretch
  <2>2. ASSUME c # <<>> PROVE <<c[Len(c)], x[1]>> \in CurPairs
    <3>1. Len(c) \in 1 .. Len(c) /\ 1 \in 1 .. Len(x)
      BY <1>7, <2>1, <2>2
    <3>2. c[Len(c)] \in Ops /\ x[1] \in Ops
      BY <1>7, <2>1, <3>1
    <3>3. c[Len(c)].op = "moe_sum" /\ c[Len(c)].fwd + 1 = fwd'
      BY <1>2, <1>7, <2>2
    <3>4. Succeeds(c[Len(c)], first)
      BY <1>8, <3>3 DEF Succeeds
    <3> QED BY <2>1, <3>2, <3>4 DEF CurPairs
  <2> QED BY <1>7, <2>1, <2>2, JoinLinked
<1>10. /\ d1 \in Seq(Ops) /\ Linked(d1, SidePairs) /\ Len(d1) = Len(d) + Len(y)
       /\ \A n \in 1 .. Len(d) : d1[n] = d[n]
       /\ \A n \in 1 .. Len(y) : d1[Len(d) + n] = y[n]
  <2>1. ASSUME d # <<>>, y # <<>> PROVE <<d[Len(d)], y[1]>> \in SidePairs
    <3>1. Len(d) \in 1 .. Len(d) /\ 1 \in 1 .. Len(y)
      BY <1>4, <1>7, <2>1
    <3>2. d[Len(d)] \in Ops /\ y[1] \in Ops
      BY <1>4, <1>7, <3>1
    <3>3. /\ d[Len(d)].op = "record_join" /\ d[Len(d)].stage = 2
          /\ d[Len(d)].fwd + 1 = fwd'
      BY <1>2, <1>7, <2>1
    <3>4. y[1] = Op("wait_fork", 1, y[1].ids, fwd')
      BY <1>4, <2>1 DEF Op
    <3>5. SucceedsAside(d[Len(d)], y[1])
      BY <3>3, <3>4 DEF SucceedsAside
    <3> QED BY <3>2, <3>5 DEF SidePairs
  <2> QED BY <1>4, <1>7, <2>1, JoinLinked
<1>11. /\ x \in Seq(Ops) /\ Len(x) \in Nat /\ Len(x) >= 1 /\ x[1] = first
       /\ \A n \in 1 .. Len(x) : OnCurrent(x[n]) /\ x[n].ids = ids /\ x[n].fwd = fwd'
       /\ Len(c) \in Nat /\ Len(d) \in Nat /\ Len(y) \in Nat
  BY <1>3, <1>4, <1>7 DEF Stretch
<1> HIDE DEF c1, d1
<1>12. ASSUME NEW n \in 1 .. Len(c1)
       PROVE  \/ n \in 1 .. Len(c) /\ c1[n] = c[n]
              \/ \E m \in 1 .. Len(x) : n = Len(c) + m /\ c1[n] = x[m]
  <2>1. CASE n <= Len(c)
    BY <1>9, <1>11, <2>1
  <2>2. CASE n > Len(c)
    <3> DEFINE m == n - Len(c)
    <3>1. m \in 1 .. Len(x) /\ n = Len(c) + m
      BY <1>9, <1>11, <2>2
    <3> HIDE DEF m
    <3> QED BY <1>9, <3>1
  <2> QED BY <1>11, <2>1, <2>2
<1>13. ASSUME NEW n \in 1 .. Len(d1)
       PROVE  \/ n \in 1 .. Len(d) /\ d1[n] = d[n]
              \/ \E m \in 1 .. Len(y) : n = Len(d) + m /\ d1[n] = y[m]
  <2>1. CASE n <= Len(d)
    BY <1>10, <1>11, <2>1
  <2>2. CASE n > Len(d)
    <3> DEFINE m == n - Len(d)
    <3>1. m \in 1 .. Len(y) /\ n = Len(d) + m
      BY <1>10, <1>11, <2>2
    <3> HIDE DEF m
    <3> QED BY <1>10, <3>1
  <2> QED BY <1>11, <2>1, <2>2
<1>14. QueuesOK'
  <2>1. queue' \in [Streams -> Seq(Ops)]
    BY <1>5, <1>9, <1>10
  <2>2. ASSUME NEW n \in 1 .. Len(c1)
        PROVE  /\ c1[n].fwd <= fwd'
               /\ c1[n].fwd = fwd' => c1[n].ids = ids
               /\ c1[n].fwd # fwd' => n \in 1 .. Len(c) /\ c1[n] = c[n]
               /\ OnCurrent(c1[n])
    <3>1. CASE n \in 1 .. Len(c) /\ c1[n] = c[n]
      <4>1. OnCurrent(c[n]) /\ c[n].fwd <= fwd /\ c[n].fwd \in Nat
        BY <1>7, <3>1 DEF Ops
      <4> QED BY <1>2, <3>1, <4>1
    <3>2. CASE \E m \in 1 .. Len(x) : n = Len(c) + m /\ c1[n] = x[m]
      BY <1>2, <1>11, <3>2
    <3> QED BY <1>12, <3>1, <3>2
  <2>3. ASSUME NEW n \in 1 .. Len(d1)
        PROVE  /\ d1[n].fwd <= fwd'
               /\ d1[n].fwd = fwd' => d1[n].ids = ids
               /\ d1[n].fwd # fwd' => n \in 1 .. Len(d) /\ d1[n] = d[n]
               /\ OnAside(d1[n])
    <3>1. CASE n \in 1 .. Len(d) /\ d1[n] = d[n]
      <4>1. OnAside(d[n]) /\ d[n].fwd <= fwd /\ d[n].fwd \in Nat
        BY <1>7, <3>1 DEF Ops
      <4> QED BY <1>2, <3>1, <4>1
    <3>2. CASE \E m \in 1 .. Len(y) : n = Len(d) + m /\ d1[n] = y[m]
      BY <1>2, <1>4, <3>2
    <3> QED BY <1>13, <3>1, <3>2
  <2>4. ASSUME NEW n \in 1 .. Len(c1) PROVE OnCurrent(queue.cur[n])'
    <3>1. OnCurrent(c1[n]) /\ queue'.cur[n] = c1[n]
      BY <1>5, <2>2
    <3> QED BY <1>2, <3>1 DEF OnCurrent, Fused, SkipCold
  <2>5. ASSUME NEW n \in 1 .. Len(d1) PROVE OnAside(queue.side[n])'
    <3>1. OnAside(d1[n]) /\ queue'.side[n] = d1[n]
      BY <1>5, <2>3
    <3> QED BY <1>2, <3>1 DEF OnAside
  <2>6. Linked(queue.cur, CurPairs)' /\ Linked(queue.side, SidePairs)'
    BY <1>5, <1>6, <1>9, <1>10 DEF Linked
  <2>7. c1[Len(c1)].op = "moe_sum" /\ c1[Len(c1)].fwd = fwd'
    <3>1. c1[Len(c1)] = x[Len(x)]
      BY <1>9, <1>11
    <3> QED BY <1>3, <3>1 DEF Op
  <2>8. ASSUME d1 # <<>>
        PROVE  /\ d1[Len(d1)].op = "record_join" /\ d1[Len(d1)].stage = 2
               /\ d1[Len(d1)].fwd = fwd'
    <3>1. env.side
      <4>1. Len(d1) \in Nat /\ Len(d1) # 0
        BY <1>10, <2>8
      <4>2. 1 \in 1 .. Len(d1)
        BY <4>1
      <4> QED BY <2>3, <4>2 DEF OnAside
    <3>2. y # <<>> /\ y[Len(y)] = Op("record_join", 2, ids, fwd')
      BY <1>4, <3>1
    <3>3. Len(y) \in 1 .. Len(y)
      BY <1>4, <3>2
    <3>4. d1[Len(d1)] = y[Len(y)]
      BY <1>10, <1>11, <3>3
    <3> QED BY <3>2, <3>4 DEF Op
  <2>9. ASSUME NEW m \in 1 .. Len(c1), NEW n \in 1 .. Len(d1), c1[m].fwd = d1[n].fwd
        PROVE  c1[m].ids = d1[n].ids
    <3>1. CASE c1[m].fwd = fwd'
      BY <2>2, <2>3, <2>9, <3>1
    <3>2. CASE c1[m].fwd # fwd'
      <4>1. /\ m \in 1 .. Len(c) /\ c1[m] = c[m]
            /\ n \in 1 .. Len(d) /\ d1[n] = d[n]
        BY <2>2, <2>3, <2>9, <3>2
      <4> QED BY <1>7, <2>9, <4>1
    <3> QED BY <3>1, <3>2
  <2>10. fwd' \in Nat /\ env' \in [side : BOOLEAN, lru : BOOLEAN]
    BY <1>2 DEF QueuesOK
  <2> QED BY <1>5, <2>1, <2>2, <2>3, <2>4, <2>5, <2>6, <2>7, <2>8, <2>9, <2>10 DEF QueuesOK
<1>15. ASSUME queue.cur # <<>>
       PROVE  queue'.cur # <<>> /\ Cur("cur")' = Cur("cur")
  <2>1. c # <<>> /\ 1 \in 1 .. Len(c) /\ Head(c) = c[1]
    BY <1>7, <1>15, HeadIsFirst DEF c
  <2>2. c1 # <<>> /\ c1[1] = c[1]
    <3>1. Len(c1) \in Nat /\ Len(c1) # 0
      BY <1>9, <1>11
    <3> QED BY <1>9, <2>1, <3>1
  <2>3. Head(c1) = c1[1]
    BY <1>9, <2>2, HeadIsFirst
  <2> QED BY <1>5, <2>1, <2>2, <2>3 DEF Cur, c
<1>16. ASSUME queue.side # <<>>
       PROVE  queue'.side # <<>> /\ Cur("side")' = Cur("side")
  <2>1. d # <<>> /\ 1 \in 1 .. Len(d) /\ Head(d) = d[1]
    BY <1>7, <1>16, HeadIsFirst DEF d
  <2>2. d1 # <<>> /\ d1[1] = d[1]
    <3>1. Len(d1) \in Nat /\ Len(d1) # 0
      BY <1>10, <1>11, <2>1
    <3> QED BY <1>10, <2>1, <3>1
  <2>3. Head(d1) = d1[1]
    BY <1>10, <2>2, HeadIsFirst
  <2> QED BY <1>5, <2>1, <2>2, <2>3 DEF Cur, d
<1>17. ASSUME queue.cur = <<>>
       PROVE  /\ queue'.cur # <<>> /\ Cur("cur").fwd' = fwd + 1
              /\ Cur("cur")' = Opening(Ids', fwd + 1)
  <2>1. Len(c) = 0
    BY <1>17 DEF c
  <2>2. c1[1] = first /\ Len(c1) \in Nat /\ Len(c1) # 0
    <3>1. 1 \in 1 .. Len(x) /\ Len(c) + 1 = 1
      BY <1>11, <2>1
    <3>2. c1[Len(c) + 1] = x[1]
      BY <1>9, <3>1
    <3> QED BY <1>9, <1>11, <2>1, <3>1, <3>2
  <2>3. c1 # <<>>
    BY <2>2
  <2>4. Head(c1) = first
    BY <1>9, <2>2, <2>3, HeadIsFirst
  <2>5. Cur("cur")' = first
    BY <1>5, <2>4 DEF Cur
  <2> QED BY <1>2, <1>5, <1>8, <2>3, <2>5 DEF Ids
<1>18. ASSUME queue.side = <<>>
       PROVE  \/ queue'.side = <<>> /\ ~ env.side
              \/ /\ queue'.side # <<>> /\ Cur("side").op' = "wait_fork"
                 /\ Cur("side").stage' = 1 /\ Cur("side").fwd' = fwd + 1
  <2>1. Len(d) = 0
    BY <1>18 DEF d
  <2>2. CASE y = <<>>
    <3>1. Len(d1) = 0
      BY <1>10, <2>1, <2>2
    <3>2. d1 = <<>>
      BY <1>10, <3>1
    <3> QED BY <1>4, <1>5, <2>2, <3>2
  <2>3. CASE y # <<>>
    <3>1. 1 \in 1 .. Len(y) /\ Len(d) + 1 = 1
      BY <1>4, <2>1, <2>3
    <3>2. d1[Len(d) + 1] = y[1]
      BY <1>10, <3>1
    <3>3. d1[1] = y[1] /\ Len(d1) \in Nat /\ Len(d1) # 0
      BY <1>10, <1>11, <2>1, <3>1, <3>2
    <3>4. d1 # <<>>
      BY <3>3
    <3>5. Head(d1) = Op("wait_fork", 1, ids, fwd')
      BY <1>4, <1>10, <2>3, <3>3, <3>4, HeadIsFirst
    <3>6. Cur("side")' = Op("wait_fork", 1, ids, fwd')
      BY <1>5, <3>5 DEF Cur
    <3> QED BY <1>2, <1>5, <3>4, <3>6 DEF Op
  <2> QED BY <2>2, <2>3
<1> QED BY <1>2, <1>14, <1>15, <1>16, <1>17, <1>18

LEMMA PlaceOf ==
  ASSUME NEW ids, NEW f
  PROVE  /\ Place(Op("manage", 0, ids, f)) = 1 /\ Place(Op("manage_align", 0, ids, f)) = 1
         /\ Place(Op("gather", 0, ids, f)) = 2 /\ Place(Op("align_hot", 0, ids, f)) = 3
         /\ Place(Op("align_cold", 0, ids, f)) = 4
         /\ Place(Op("act_quant", 0, ids, f)) = 8 /\ Place(Op("moe_sum", 0, ids, f)) = 12
         /\ \A k \in {1, 2} :
              /\ Place(Op("record_fork", k, ids, f)) = 4 * k + 1
              /\ Place(Op("hot", k, ids, f)) = 4 * k + 1
              /\ Place(Op("cold", k, ids, f)) = 4 * k + 2
              /\ Place(Op("wait_join", k, ids, f)) = 4 * k + 3
              /\ SidePlace(Op("wait_fork", k, ids, f)) = 4 * k + 1
              /\ SidePlace(Op("hot", k, ids, f)) = 4 * k + 2
              /\ SidePlace(Op("record_join", k, ids, f)) = 4 * k + 3
BY DEF Place, SidePlace, Op

(* How the current stream's head moves on.                                 *)
LEMMA CurMoves ==
  ASSUME QueuesOK, queue.cur # <<>>, Done("cur"), fwd' = fwd, env' = env
  PROVE  /\ QueuesOK' /\ queue'.side = queue.side
         /\ SideFwd' = SideFwd /\ SideAt' = SideAt /\ Cur("side")' = Cur("side")
         /\ CurAt # 12 => queue'.cur # <<>> /\ CurFwd' = CurFwd /\ Ids' = Ids
         /\ CurAt = 1 => CurAt' = 2
         /\ CurAt = 2 => CurAt' = IF Fused(Ids) THEN 5 ELSE 3
         /\ CurAt = 3 => CurAt' = 4
         /\ CurAt = 4 => CurAt' = 5
         /\ CurAt \in {5, 9} => CurAt' = IF ~ env.side /\ SkipCold(Ids) THEN CurAt + 3 ELSE CurAt + 1
         /\ CurAt \in {6, 10} => CurAt' = IF env.side THEN CurAt + 1 ELSE CurAt + 2
         /\ CurAt \in {7, 11} => CurAt' = CurAt + 1
         /\ CurAt = 8 => CurAt' = 9
         /\ CurAt = 12 => /\ CurFwd' = CurFwd + 1 /\ CurAt' \in {0, 1, 3}
                          /\ CurAt' = 3 => ~ env.lru
<1> DEFINE o == Cur("cur")
           b == Cur("cur")'
<1>1. /\ QueuesOK' /\ queue'.side = queue.side
      /\ queue'.cur = <<>> => o.op = "moe_sum" /\ o.fwd = fwd
      /\ queue'.cur # <<>> => Succeeds(o, b)
  BY PopCur
<1>2. SideFwd' = SideFwd /\ SideAt' = SideAt /\ Cur("side")' = Cur("side")
  BY <1>1 DEF SideFwd, SideAt, Cur
<1>3. /\ o.fwd \in Nat /\ CurFwd = o.fwd /\ Ids = o.ids /\ OnCurrent(o)
      /\ o.op \in {"manage", "manage_align"} <=> CurAt = 1
      /\ o.op = "gather" <=> CurAt = 2
      /\ o.op = "align_hot" <=> CurAt = 3
      /\ o.op = "align_cold" <=> CurAt = 4
      /\ o.op \in {"record_fork", "hot"} => o.stage \in {1, 2} /\ CurAt = 4 * o.stage + 1
      /\ o.op = "cold" => o.stage \in {1, 2} /\ CurAt = 4 * o.stage + 2
      /\ o.op = "wait_join" => o.stage \in {1, 2} /\ CurAt = 4 * o.stage + 3
      /\ o.op \in {"record_fork", "hot"} <=> CurAt \in {5, 9}
      /\ o.op = "cold" <=> CurAt \in {6, 10}
      /\ o.op = "wait_join" <=> CurAt \in {7, 11}
      /\ o.op = "act_quant" <=> CurAt = 8
      /\ o.op = "moe_sum" <=> CurAt = 12
  BY HeadCur DEF Ids
<1>4. /\ queue'.cur = <<>> => CurFwd' = fwd' + 1 /\ CurAt' = 0
      /\ queue'.cur # <<>> => CurFwd' = b.fwd /\ CurAt' = Place(b)
      /\ Ids' = b.ids
  BY DEF CurFwd, CurAt, Ids
<1>5. \A n, k, ids, f : /\ Op(n, k, ids, f).ids = ids /\ Op(n, k, ids, f).fwd = f
                        /\ Op(n, k, ids, f).op = n
  BY DEF Op
<1>6. \A k \in {1, 2} : \A ids, f :
         /\ Place(Forking(k, ids, f)) = 4 * k + 1
         /\ Forking(k, ids, f).ids = ids /\ Forking(k, ids, f).fwd = f
         /\ Place(Leaving(k, ids, f)) = 4 * k + 4
         /\ Leaving(k, ids, f).ids = ids /\ Leaving(k, ids, f).fwd = f
  BY <1>5, PlaceOf DEF Forking, Leaving
<1>7. \A ids, f : /\ Place(Opening(ids, f)) = IF env.lru THEN 1 ELSE 3
                  /\ Opening(ids, f).fwd = f
  BY <1>5, PlaceOf DEF Opening
<1> HIDE DEF o, b
<1>8. CASE CurAt = 12
  <2>1. o.op = "moe_sum"
    BY <1>3, <1>8
  <2>2. CASE queue'.cur = <<>>
    BY <1>1, <1>2, <1>3, <1>4, <1>8, <2>2
  <2>3. CASE queue'.cur # <<>>
    <3>1. b = Opening(b.ids, o.fwd + 1)
      BY <1>1, <2>1, <2>3 DEF Succeeds
    <3>2. CurFwd' = CurFwd + 1 /\ CurAt' = IF env.lru THEN 1 ELSE 3
      BY <1>3, <1>4, <1>7, <2>3, <3>1
    <3> QED BY <1>1, <1>2, <1>8, <3>2
  <2> QED BY <2>2, <2>3
<1>9. CASE CurAt # 12
  <2>1. o.op # "moe_sum" /\ queue'.cur # <<>> /\ Succeeds(o, b)
    BY <1>1, <1>3, <1>9
  <2>2. CurAt = 1 => CurAt' = 2 /\ CurFwd' = CurFwd /\ Ids' = Ids
    BY <1>3, <1>4, <1>5, <2>1, PlaceOf DEF Succeeds
  <2>3. CurAt = 2 =>
          /\ CurAt' = IF Fused(Ids) THEN 5 ELSE 3
          /\ CurFwd' = CurFwd /\ Ids' = Ids
    BY <1>3, <1>4, <1>5, <1>6, <2>1, PlaceOf DEF Succeeds
  <2>4. CurAt = 3 => CurAt' = 4 /\ CurFwd' = CurFwd /\ Ids' = Ids
    BY <1>3, <1>4, <1>5, <2>1, PlaceOf DEF Succeeds
  <2>5. CurAt = 4 => CurAt' = 5 /\ CurFwd' = CurFwd /\ Ids' = Ids
    BY <1>3, <1>4, <1>6, <2>1 DEF Succeeds
  <2>6. CurAt \in {5, 9} =>
          /\ CurAt' = IF ~ env.side /\ SkipCold(Ids) THEN CurAt + 3 ELSE CurAt + 1
          /\ CurFwd' = CurFwd /\ Ids' = Ids
    <3>1. o.op = "record_fork" => env.side
      BY <1>3 DEF OnCurrent
    <3>2. o.op = "hot" => ~ env.side
      BY <1>3 DEF OnCurrent
    <3>3. CASE o.op = "record_fork"
      <4>1. b = Op("cold", o.stage, o.ids, o.fwd)
        BY <2>1, <3>3 DEF Succeeds
      <4> QED BY <1>3, <1>4, <1>5, <2>1, <3>1, <3>3, <4>1, PlaceOf
    <3>4. CASE o.op = "hot"
      <4>1. b = IF SkipCold(o.ids) THEN Leaving(o.stage, o.ids, o.fwd)
                ELSE Op("cold", o.stage, o.ids, o.fwd)
        BY <2>1, <3>4 DEF Succeeds
      <4> QED BY <1>3, <1>4, <1>5, <1>6, <2>1, <3>2, <3>4, <4>1, PlaceOf
    <3> QED BY <1>3, <3>3, <3>4
  <2>7. CurAt \in {6, 10} =>
          /\ CurAt' = IF env.side THEN CurAt + 1 ELSE CurAt + 2
          /\ CurFwd' = CurFwd /\ Ids' = Ids
    <3>1. SUFFICES ASSUME o.op = "cold"
                   PROVE  /\ CurAt' = IF env.side THEN CurAt + 1 ELSE CurAt + 2
                          /\ CurFwd' = CurFwd /\ Ids' = Ids
      BY <1>3
    <3>2. b = IF env.side THEN Op("wait_join", o.stage, o.ids, o.fwd)
              ELSE Leaving(o.stage, o.ids, o.fwd)
      BY <2>1, <3>1 DEF Succeeds
    <3> QED BY <1>3, <1>4, <1>5, <1>6, <2>1, <3>1, <3>2, PlaceOf
  <2>8. CurAt \in {7, 11} => CurAt' = CurAt + 1 /\ CurFwd' = CurFwd /\ Ids' = Ids
    <3>1. SUFFICES ASSUME o.op = "wait_join"
                   PROVE  CurAt' = CurAt + 1 /\ CurFwd' = CurFwd /\ Ids' = Ids
      BY <1>3
    <3>2. b = Leaving(o.stage, o.ids, o.fwd)
      BY <2>1, <3>1 DEF Succeeds
    <3> QED BY <1>3, <1>4, <1>6, <2>1, <3>1, <3>2
  <2>9. CurAt = 8 => CurAt' = 9 /\ CurFwd' = CurFwd /\ Ids' = Ids
    BY <1>3, <1>4, <1>6, <2>1 DEF Succeeds
  <2>10. CurAt \in 1 .. 11
    BY <1>9, HeadCur
  <2> QED BY <1>1, <1>2, <1>9, <2>1, <2>2, <2>3, <2>4, <2>5, <2>6, <2>7, <2>8, <2>9, <2>10
<1> QED BY <1>8, <1>9

(* And how the side stream's does.                                         *)
LEMMA SideMoves ==
  ASSUME QueuesOK, queue.side # <<>>, Done("side"), fwd' = fwd, env' = env
  PROVE  /\ QueuesOK' /\ queue'.cur = queue.cur
         /\ CurFwd' = CurFwd /\ CurAt' = CurAt /\ Cur("cur")' = Cur("cur")
         /\ SideAt \in {5, 6, 9, 10} => SideAt' = SideAt + 1 /\ SideFwd' = SideFwd
         /\ SideAt = 7 => SideAt' = 9 /\ SideFwd' = SideFwd
         /\ SideAt = 11 => SideAt' = 5 /\ SideFwd' = SideFwd + 1
<1> DEFINE o == Cur("side")
           b == Cur("side")'
<1>1. /\ QueuesOK' /\ queue'.cur = queue.cur
      /\ queue'.side = <<>> => o.op = "record_join" /\ o.stage = 2 /\ o.fwd = fwd
      /\ queue'.side # <<>> => SucceedsAside(o, b)
  BY PopSide
<1>2. CurFwd' = CurFwd /\ CurAt' = CurAt /\ Cur("cur")' = Cur("cur")
  BY <1>1 DEF CurFwd, CurAt, Cur
<1>3. /\ o.fwd \in Nat /\ SideFwd = o.fwd /\ o.stage \in {1, 2}
      /\ o.op = "wait_fork" <=> SideAt \in {5, 9}
      /\ o.op = "hot" <=> SideAt \in {6, 10}
      /\ o.op = "record_join" <=> SideAt \in {7, 11}
      /\ o.op = "wait_fork" => SideAt = 4 * o.stage + 1
      /\ o.op = "hot" => SideAt = 4 * o.stage + 2
      /\ o.op = "record_join" => SideAt = 4 * o.stage + 3
  BY HeadSide
<1>4. /\ queue'.side = <<>> => SideFwd' = fwd' + 1 /\ SideAt' = 5
      /\ queue'.side # <<>> => SideFwd' = b.fwd /\ SideAt' = SidePlace(b)
  BY DEF SideFwd, SideAt
<1>5. \A n, k, ids, f : Op(n, k, ids, f).fwd = f
  BY DEF Op
<1> HIDE DEF o, b
<1>6. SideAt \in {5, 9} => SideAt' = SideAt + 1 /\ SideFwd' = SideFwd
  <2>1. SUFFICES ASSUME o.op = "wait_fork" PROVE SideAt' = SideAt + 1 /\ SideFwd' = SideFwd
    BY <1>3
  <2>2. queue'.side # <<>> /\ b = Op("hot", o.stage, o.ids, o.fwd)
    BY <1>1, <2>1 DEF SucceedsAside
  <2> QED BY <1>3, <1>4, <1>5, <2>1, <2>2, PlaceOf
<1>7. SideAt \in {6, 10} => SideAt' = SideAt + 1 /\ SideFwd' = SideFwd
  <2>1. SUFFICES ASSUME o.op = "hot" PROVE SideAt' = SideAt + 1 /\ SideFwd' = SideFwd
    BY <1>3
  <2>2. queue'.side # <<>> /\ b = Op("record_join", o.stage, o.ids, o.fwd)
    BY <1>1, <2>1 DEF SucceedsAside
  <2> QED BY <1>3, <1>4, <1>5, <2>1, <2>2, PlaceOf
<1>8. SideAt = 7 => SideAt' = 9 /\ SideFwd' = SideFwd
  <2>1. SUFFICES ASSUME o.op = "record_join", o.stage = 1
                 PROVE  SideAt' = 9 /\ SideFwd' = SideFwd
    BY <1>3
  <2>2. queue'.side # <<>> /\ b = Op("wait_fork", 2, o.ids, o.fwd)
    BY <1>1, <2>1 DEF SucceedsAside
  <2> QED BY <1>3, <1>4, <1>5, <2>1, <2>2, PlaceOf
<1>9. SideAt = 11 => SideAt' = 5 /\ SideFwd' = SideFwd + 1
  <2>1. SUFFICES ASSUME o.op = "record_join", o.stage = 2
                 PROVE  SideAt' = 5 /\ SideFwd' = SideFwd + 1
    BY <1>3
  <2>2. CASE queue'.side = <<>>
    BY <1>1, <1>3, <1>4, <2>2
  <2>3. CASE queue'.side # <<>>
    <3>1. b = Op("wait_fork", 1, b.ids, o.fwd + 1)
      BY <1>1, <2>1, <2>3 DEF SucceedsAside
    <3>2. b.fwd = o.fwd + 1 /\ SidePlace(b) = 5
      BY <1>5, <3>1, PlaceOf
    <3> QED BY <1>3, <1>4, <2>3, <3>2
  <2> QED BY <2>2, <2>3
<1> QED BY <1>1, <1>2, <1>6, <1>7, <1>8, <1>9

----------------------------------------------------------------------------
(* Kernels that run.                                                       *)

(* While the side stream is at a hot GEMM, the current stream is at the    *)
(* cold one of the same projection of the same forward, or waits.          *)
LEMMA Beside ==
  ASSUME QueuesOK, Lag, queue.side # <<>>, Cur("side").op = "hot"
  PROVE  /\ env.side /\ queue.cur # <<>> /\ CurAt \in {6, 7, 10, 11}
         /\ Cur("side").stage \in {1, 2} /\ SideFwd = CurFwd
         /\ SideAt = 4 * Cur("side").stage + 2
         /\ CurAt \in {4 * Cur("side").stage + 2, 4 * Cur("side").stage + 3}
         /\ Cur("side").fwd = CurFwd /\ Cur("side").ids = Ids
<1> DEFINE k == Cur("side").stage
<1>1. /\ env.side /\ k \in {1, 2} /\ SideAt = 4 * k + 2 /\ SideFwd = Cur("side").fwd
      /\ Cur("side") = queue.side[1]
  BY HeadSide
<1>2. SideFwd = CurFwd /\ CurAt \in {6, 7, 10, 11} /\ CurAt \in {4 * k + 2, 4 * k + 3}
  BY <1>1 DEF Lag
<1>3. queue.cur # <<>>
  BY <1>2 DEF CurAt
<1>4. CurFwd = Cur("cur").fwd /\ Cur("cur") = queue.cur[1]
  BY <1>3, HeadCur
<1>5. 1 \in 1 .. Len(queue.cur) /\ 1 \in 1 .. Len(queue.side)
  <2>1. queue.cur \in Seq(Ops) /\ queue.side \in Seq(Ops)
    BY DEF QueuesOK, Streams
  <2> QED BY <1>3, <2>1, HeadIsFirst
<1>6. Cur("side").ids = Ids
  <2>1. \A m \in 1 .. Len(queue.cur) : \A n \in 1 .. Len(queue.side) :
          queue.cur[m].fwd = queue.side[n].fwd => queue.cur[m].ids = queue.side[n].ids
    BY DEF QueuesOK
  <2>2. queue.cur[1].fwd = queue.side[1].fwd => queue.cur[1].ids = queue.side[1].ids
    BY <1>5, <2>1
  <2>3. queue.cur[1].fwd = queue.side[1].fwd
    BY <1>1, <1>2, <1>4, Zenon
  <2> QED BY <1>1, <1>4, <2>2, <2>3, Zenon DEF Ids
<1>7. Cur("side").fwd = CurFwd
  BY <1>1, <1>2, Zenon
<1> QED BY <1>1, <1>2, <1>3, <1>6, <1>7, Zenon

(* The side stream is empty unless it is used.                             *)
LEMMA NoSide ==
  ASSUME QueuesOK, ~ env.side
  PROVE  queue.side = <<>>
BY HeadSide

(* Which kernel runs on which stream.                                      *)
LEMMA Runs ==
  ASSUME QueuesOK, Lag, RunningOK, NEW q \in busy
  PROVE  /\ queue[q] # <<>> /\ queue.cur # <<>> /\ q \in Streams
         /\ q = "cur" => /\ CurAt \in {2, 5, 6, 9, 10}
                         /\ CurAt \in {5, 9} => ~ env.side /\ Cur("cur").op = "hot"
         /\ q = "side" => env.side /\ CurAt \in {6, 7, 10, 11} /\ Cur("side").op = "hot"
         /\ Cur(q).op \in {"hot", "cold"} =>
              /\ Cur(q).ids = Ids /\ Cur(q).fwd = CurFwd /\ CurAt \in 5 .. 11
              /\ Cur(q).stage = 1 => CurAt \in 5 .. 7
              /\ Cur(q).stage = 2 => CurAt \in 9 .. 11
              /\ Cur(q).stage \in {1, 2}
<1>1. queue[q] # <<>> /\ Cur(q).op \in {"gather", "hot", "cold"} /\ q \in Streams
  BY DEF RunningOK
<1>2. CASE q = "cur"
  <2>1. queue.cur # <<>>
    BY <1>1, <1>2
  <2>2. Cur("cur").op \in {"gather", "hot", "cold"}
    BY <1>1, <1>2
  <2>3. Cur("cur").op = "hot" => ~ env.side
    BY <2>1, HeadCur DEF OnCurrent
  <2>4. Cur("cur").op = "gather" <=> CurAt = 2
    BY <2>1, HeadCur
  <2>5. /\ Cur("cur").op \in {"record_fork", "hot"} => Cur("cur").stage \in {1, 2} /\ CurAt = 4 * Cur("cur").stage + 1
        /\ Cur("cur").op = "cold" => Cur("cur").stage \in {1, 2} /\ CurAt = 4 * Cur("cur").stage + 2
        /\ CurFwd = Cur("cur").fwd
    BY <2>1, HeadCur
  <2> QED BY <1>1, <1>2, <2>1, <2>2, <2>3, <2>4, <2>5 DEF Ids
<1>3. CASE q = "side"
  <2>1. queue.side # <<>>
    BY <1>1, <1>3
  <2>2. Cur("side").op = "hot"
    BY <1>1, <1>3, <2>1, HeadSide
  <2> QED BY <1>1, <1>3, <2>1, <2>2, Beside
<1> QED BY <1>1, <1>2, <1>3 DEF Streams

----------------------------------------------------------------------------
(* The lag between the streams.                                            *)

LEMMA FwdTypes ==
  ASSUME QueuesOK
  PROVE  /\ CurFwd \in Nat /\ SideFwd \in Nat /\ CurAt \in 0 .. 12
         /\ SideAt \in {5, 6, 7, 9, 10, 11}
         /\ CurAt = 0 <=> queue.cur = <<>>
<1>1. fwd \in Nat
  BY DEF QueuesOK
<1>2. CASE queue.cur = <<>>
  <2>1. CurFwd = fwd + 1 /\ CurAt = 0
    BY <1>2 DEF CurFwd, CurAt
  <2>2. SideFwd \in Nat /\ SideAt \in {5, 6, 7, 9, 10, 11}
    BY <1>1, HeadSide DEF SideFwd, SideAt
  <2> QED BY <1>1, <1>2, <2>1, <2>2
<1>3. CASE queue.cur # <<>>
  <2>1. CurFwd \in Nat /\ CurAt \in 1 .. 12
    BY <1>3, HeadCur
  <2>2. SideFwd \in Nat /\ SideAt \in {5, 6, 7, 9, 10, 11}
    BY <1>1, HeadSide DEF SideFwd, SideAt
  <2> QED BY <1>3, <2>1, <2>2
<1> QED BY <1>2, <1>3

HeadTypes == CurFwd \in Nat /\ SideFwd \in Nat /\ CurAt \in Nat /\ SideAt \in Nat

LEMMA FwdTypesNext == QueuesOK' => HeadTypes'
<1>1. QueuesOK => HeadTypes
  BY FwdTypes DEF HeadTypes
<1> QED BY <1>1, PTL

(* The current stream moves on, past a wait only when the side stream has  *)
(* recorded the event.                                                     *)
LEMMA CurLag ==
  ASSUME QueuesOK, Lag, queue.cur # <<>>, Done("cur"), fwd' = fwd, env' = env,
         CurAt = 7 => SideFwd > CurFwd \/ (SideFwd = CurFwd /\ SideAt > 7),
         CurAt = 11 => SideFwd > CurFwd \/ (SideFwd = CurFwd /\ SideAt > 11)
  PROVE  Lag' /\ (CurFwd' > CurFwd \/ (CurFwd' = CurFwd /\ CurAt' > CurAt))
<1>1. /\ CurFwd \in Nat /\ SideFwd \in Nat /\ CurAt \in 1 .. 12
      /\ SideAt \in {5, 6, 7, 9, 10, 11}
  BY FwdTypes, HeadCur
<1>2. /\ SideFwd' = SideFwd /\ SideAt' = SideAt
      /\ CurAt # 12 => CurFwd' = CurFwd
      /\ CurAt = 1 => CurAt' = 2
      /\ CurAt = 2 => CurAt' \in {3, 5}
      /\ CurAt = 3 => CurAt' = 4
      /\ CurAt = 4 => CurAt' = 5
      /\ CurAt \in {5, 9} => CurAt' \in {CurAt + 1, CurAt + 3}
      /\ CurAt \in {5, 9} /\ env.side => CurAt' = CurAt + 1
      /\ CurAt \in {6, 10} => CurAt' \in {CurAt + 1, CurAt + 2}
      /\ CurAt \in {6, 10} /\ env.side => CurAt' = CurAt + 1
      /\ CurAt \in {7, 11} => CurAt' = CurAt + 1
      /\ CurAt = 8 => CurAt' = 9
      /\ CurAt = 12 => CurFwd' = CurFwd + 1 /\ CurAt' \in {0, 1, 3}
  BY CurMoves
<1>3. CurFwd' > CurFwd \/ (CurFwd' = CurFwd /\ CurAt' > CurAt)
  BY <1>1, <1>2
<1>4. ASSUME env.side
      PROVE  Lag'
  <2>1. \/ SideFwd = CurFwd /\ SideAt = 5 /\ CurAt <= 7
        \/ SideFwd = CurFwd /\ SideAt \in {6, 7} /\ CurAt \in {6, 7}
        \/ SideFwd = CurFwd /\ SideAt = 9 /\ CurAt \in 6 .. 11
        \/ SideFwd = CurFwd /\ SideAt \in {10, 11} /\ CurAt \in {10, 11}
        \/ SideFwd = CurFwd + 1 /\ SideAt = 5 /\ CurAt \in 10 .. 12
    BY <1>4 DEF Lag
  <2> DEFINE a == CurAt
             a1 == CurAt'
             b == SideAt
             f == CurFwd
             f1 == CurFwd'
             g == SideFwd
  <2>2. /\ f \in Nat /\ g \in Nat /\ a \in 1 .. 12
        /\ a = 7 => g > f \/ (g = f /\ b > 7)
        /\ a = 11 => g > f \/ (g = f /\ b > 11)
    BY <1>1
  <2>3. /\ \/ a = 12 /\ f1 = f + 1 /\ a1 \in {0, 1, 3}
           \/ a # 12 /\ f1 = f /\ (a1 = a + 1 \/ (a = 2 /\ a1 = 5))
    BY <1>1, <1>2, <1>4
  <2> HIDE DEF a, a1, b, f, f1, g
  <2>4. \/ g = f1 /\ b = 5 /\ a1 <= 7
        \/ g = f1 /\ b \in {6, 7} /\ a1 \in {6, 7}
        \/ g = f1 /\ b = 9 /\ a1 \in 6 .. 11
        \/ g = f1 /\ b \in {10, 11} /\ a1 \in {10, 11}
        \/ g = f1 + 1 /\ b = 5 /\ a1 \in 10 .. 12
    <3>1. CASE g = f /\ b = 5 /\ a <= 7
      BY <2>2, <2>3, <3>1
    <3>2. CASE g = f /\ b \in {6, 7} /\ a \in {6, 7}
      BY <2>2, <2>3, <3>2
    <3>3. CASE g = f /\ b = 9 /\ a \in 6 .. 11
      BY <2>2, <2>3, <3>3
    <3>4. CASE g = f /\ b \in {10, 11} /\ a \in {10, 11}
      BY <2>2, <2>3, <3>4
    <3>5. CASE g = f + 1 /\ b = 5 /\ a \in 10 .. 12
      BY <2>2, <2>3, <3>5
    <3> QED BY <2>1, <3>1, <3>2, <3>3, <3>4, <3>5 DEF a, b, f, g
  <2>5. SideFwd' = g /\ SideAt' = b /\ CurFwd' = f1 /\ CurAt' = a1
    BY <1>2 DEF g, b, f1, a1
  <2> QED BY <2>4, <2>5 DEF Lag
<1>5. ~ env.side => Lag'
  BY DEF Lag
<1> QED BY <1>3, <1>4, <1>5

(* And the side stream, past a wait only when the current stream has       *)
(* recorded the event.                                                     *)
LEMMA SideLag ==
  ASSUME QueuesOK, Lag, queue.side # <<>>, Done("side"), fwd' = fwd, env' = env,
         SideAt = 5 => CurFwd > SideFwd \/ (CurFwd = SideFwd /\ CurAt > 5),
         SideAt = 9 => CurFwd > SideFwd \/ (CurFwd = SideFwd /\ CurAt > 9)
  PROVE  Lag' /\ (SideFwd' > SideFwd \/ (SideFwd' = SideFwd /\ SideAt' > SideAt))
<1> DEFINE a == CurAt
           b == SideAt
           b1 == SideAt'
           f == CurFwd
           g == SideFwd
           g1 == SideFwd'
<1>1. /\ f \in Nat /\ g \in Nat /\ a \in 0 .. 12 /\ b \in {5, 6, 7, 9, 10, 11}
      /\ b = 5 => f > g \/ (f = g /\ a > 5)
      /\ b = 9 => f > g \/ (f = g /\ a > 9)
  BY FwdTypes
<1>2. /\ CurFwd' = f /\ CurAt' = a
      /\ b \in {5, 6, 9, 10} => b1 = b + 1 /\ g1 = g
      /\ b = 7 => b1 = 9 /\ g1 = g
      /\ b = 11 => b1 = 5 /\ g1 = g + 1
  BY SideMoves
<1>3. env.side
  BY HeadSide
<1>4. \/ g = f /\ b = 5 /\ a <= 7
      \/ g = f /\ b \in {6, 7} /\ a \in {6, 7}
      \/ g = f /\ b = 9 /\ a \in 6 .. 11
      \/ g = f /\ b \in {10, 11} /\ a \in {10, 11}
      \/ g = f + 1 /\ b = 5 /\ a \in 10 .. 12
  BY <1>3 DEF Lag
<1> HIDE DEF a, b, b1, f, g, g1
<1>5. g1 > g \/ (g1 = g /\ b1 > b)
  BY <1>1, <1>2
<1>6. \/ g1 = f /\ b1 = 5 /\ a <= 7
      \/ g1 = f /\ b1 \in {6, 7} /\ a \in {6, 7}
      \/ g1 = f /\ b1 = 9 /\ a \in 6 .. 11
      \/ g1 = f /\ b1 \in {10, 11} /\ a \in {10, 11}
      \/ g1 = f + 1 /\ b1 = 5 /\ a \in 10 .. 12
  <2>1. CASE g = f /\ b = 5 /\ a <= 7
    BY <1>1, <1>2, <2>1
  <2>2. CASE g = f /\ b \in {6, 7} /\ a \in {6, 7}
    BY <1>1, <1>2, <2>2
  <2>3. CASE g = f /\ b = 9 /\ a \in 6 .. 11
    BY <1>1, <1>2, <2>3
  <2>4. CASE g = f /\ b \in {10, 11} /\ a \in {10, 11}
    BY <1>1, <1>2, <2>4
  <2>5. CASE g = f + 1 /\ b = 5 /\ a \in 10 .. 12
    BY <1>1, <1>2, <2>5
  <2> QED BY <1>4, <2>1, <2>2, <2>3, <2>4, <2>5
<1>7. SideFwd' = g1 /\ SideAt' = b1 /\ CurFwd' = f /\ CurAt' = a
  BY <1>2 DEF g1, b1
<1>8. Lag'
  BY <1>6, <1>7 DEF Lag
<1> QED BY <1>5, <1>8 DEF g1, g, b1, b

(* Streams only go forward, so what has been recorded stays behind them.   *)
LEMMA StillRecorded ==
  ASSUME QueuesOK, QueuesOK', Recorded, env' = env,
         CurFwd' > CurFwd \/ (CurFwd' = CurFwd /\ CurAt' >= CurAt),
         SideFwd' > SideFwd \/ (SideFwd' = SideFwd /\ SideAt' >= SideAt),
         \A k \in {1, 2}, f \in Nat :
           /\ <<"fork", k, f, env>> \in events' =>
                \/ <<"fork", k, f, env>> \in events
                \/ f < CurFwd' \/ (f = CurFwd' /\ CurAt' > 4 * k + 1)
           /\ <<"join", k, f, env>> \in events' =>
                \/ <<"join", k, f, env>> \in events
                \/ f < SideFwd' \/ (f = SideFwd' /\ SideAt' > 4 * k + 3)
  PROVE  Recorded'
<1>1. /\ CurFwd \in Nat /\ SideFwd \in Nat /\ CurAt \in Nat /\ SideAt \in Nat
  BY FwdTypes
<1>2. CurFwd' \in Nat /\ SideFwd' \in Nat /\ CurAt' \in Nat /\ SideAt' \in Nat
  BY FwdTypesNext DEF HeadTypes
<1>3. ASSUME NEW k \in {1, 2}, NEW f \in Nat
      PROVE  /\ <<"fork", k, f, env>> \in events' =>
                  f < CurFwd' \/ (f = CurFwd' /\ CurAt' > 4 * k + 1)
             /\ <<"join", k, f, env>> \in events' =>
                  f < SideFwd' \/ (f = SideFwd' /\ SideAt' > 4 * k + 3)
  <2>1. <<"fork", k, f, env>> \in events =>
          f < CurFwd \/ (f = CurFwd /\ CurAt > 4 * k + 1)
    BY DEF Recorded
  <2>2. <<"join", k, f, env>> \in events =>
          f < SideFwd \/ (f = SideFwd /\ SideAt > 4 * k + 3)
    BY DEF Recorded
  <2>3. (f < CurFwd \/ (f = CurFwd /\ CurAt > 4 * k + 1)) =>
          f < CurFwd' \/ (f = CurFwd' /\ CurAt' > 4 * k + 1)
    BY <1>1, <1>2
  <2>4. (f < SideFwd \/ (f = SideFwd /\ SideAt > 4 * k + 3)) =>
          f < SideFwd' \/ (f = SideFwd' /\ SideAt' > 4 * k + 3)
    BY <1>1, <1>2
  <2> QED BY <2>1, <2>2, <2>3, <2>4
<1> QED BY <1>3 DEF Recorded

----------------------------------------------------------------------------
(* What a step leaves as it is.                                            *)

Filled == \A b \in Slabs, s \in Slots : slab[b][s] = slot_expert[s]

LEMMA WhenFilled ==
  ASSUME SlabsFollow, CurAt # 2 \/ ("cur" \in busy /\ todo["cur"] = {})
  PROVE  Filled
BY DEF SlabsFollow, Filled, ToCopy

(* When the current stream comes to a projection, none of its rows has     *)
(* been computed.                                                          *)
NothingDone(k) == \A i \in Nat : ~ RowDone(k, i)
AtEntrance == /\ CurAt = 5 => NothingDone(1)
              /\ CurAt = 9 => NothingDone(2)

LEMMA Entrance == QueuesOK /\ Lag /\ RunningOK /\ "cur" \notin busy => AtEntrance
<1> SUFFICES ASSUME QueuesOK, Lag, RunningOK, "cur" \notin busy, NEW k \in {1, 2},
                    CurAt = 4 * k + 1, NEW i \in Nat
             PROVE  ~ RowDone(k, i)
  BY DEF AtEntrance, NothingDone
<1>1. ~ ColdDone(k, i)
  BY DEF ColdDone
<1>2. CASE ~ env.side
  BY <1>1, <1>2 DEF RowDone, HotDone, HotPast, HotNow, HotStream
<1>3. CASE env.side
  <2>1. SideFwd = CurFwd /\ SideAt <= 4 * k + 1
    BY <1>3 DEF Lag
  <2>2. SideAt \in {5, 6, 7, 9, 10, 11}
    BY FwdTypes
  <2>3. ~ HotPast(k)
    BY <1>3, <2>1, <2>2 DEF HotPast
  <2>4. "side" \notin busy
    BY Runs
  <2>5. ~ HotNow(k)
    BY <1>3, <2>4 DEF HotNow, HotStream
  <2> QED BY <1>1, <2>3, <2>5 DEF RowDone, HotDone
<1> QED BY <1>2, <1>3

LEMMA EntranceNext ==
  QueuesOK' /\ Lag' /\ RunningOK' /\ ("cur" \notin busy)' => AtEntrance'
<1>1. QueuesOK /\ Lag /\ RunningOK /\ ("cur" \notin busy) => AtEntrance
  BY Entrance
<1> QED BY <1>1, PTL

(* The other stream's kernel goes on.                                      *)
LEMMA CurRunning ==
  ASSUME QueuesOK, Lag, RunningOK, queue.cur # <<>>, Done("cur"), fwd' = fwd, env' = env,
         busy' = busy \ {"cur"}, todo' = todo, "side" \in busy => hot' = hot
  PROVE  RunningOK'
<1>1. queue'.side = queue.side /\ Cur("side")' = Cur("side")
  BY CurMoves
<1>2. busy' \in SUBSET Streams /\ DOMAIN todo' = Streams
  BY DEF RunningOK
<1>3. ASSUME NEW q \in busy'
      PROVE  (queue[q] # <<>> /\ Cur(q).op \in {"gather", "hot", "cold"})'
             /\ todo'[q] \subseteq Pieces(Cur(q).op)'
  <2>1. q = "side" /\ q \in busy
    BY <1>3 DEF RunningOK, Streams
  <2>2. Cur("side").op = "hot" /\ queue.side # <<>>
    BY <2>1, Runs
  <2>3. todo["side"] \subseteq {i \in Rows : hot[i] # None}
    BY <2>1, <2>2 DEF RunningOK, Pieces
  <2>4. Cur("side").op' = "hot" /\ queue'.side # <<>>
    BY <1>1, <2>2
  <2>5. todo'["side"] \subseteq {i \in Rows : hot'[i] # None}
    BY <2>1, <2>3
  <2> QED BY <2>1, <2>4, <2>5 DEF Pieces
<1> QED BY <1>2, <1>3 DEF RunningOK

LEMMA SideRunning ==
  ASSUME QueuesOK, RunningOK, queue.side # <<>>, Done("side"), fwd' = fwd, env' = env,
         busy' = busy \ {"side"}, todo' = todo, hot' = hot, cold' = cold, n_miss' = n_miss
  PROVE  RunningOK'
<1>1. queue'.cur = queue.cur /\ Cur("cur")' = Cur("cur")
  BY SideMoves
<1>2. busy' \in SUBSET Streams /\ DOMAIN todo' = Streams
  BY DEF RunningOK
<1>3. ASSUME NEW q \in busy'
      PROVE  (queue[q] # <<>> /\ Cur(q).op \in {"gather", "hot", "cold"})'
             /\ todo'[q] \subseteq Pieces(Cur(q).op)'
  <2>1. q = "cur" /\ q \in busy
    BY <1>3 DEF RunningOK, Streams
  <2>2. /\ Cur("cur").op \in {"gather", "hot", "cold"} /\ queue.cur # <<>>
        /\ todo["cur"] \subseteq Pieces(Cur("cur").op)
    BY <2>1 DEF RunningOK
  <2>3. Pieces(Cur("cur").op)' = Pieces(Cur("cur").op)
    BY <1>1, <2>2 DEF Pieces
  <2>4. Cur("cur").op' = Cur("cur").op /\ queue'.cur # <<>>
    BY <1>1, <2>2
  <2> QED BY <2>1, <2>2, <2>3, <2>4
<1> QED BY <1>2, <1>3 DEF RunningOK

----------------------------------------------------------------------------
(* The current stream moves on without touching a buffer: an event is      *)
(* recorded or awaited, or a kernel has nothing left to do.                *)

(* A row that is not cold is hot, and the other way round.                 *)
LEMMA Sides ==
  ASSUME Computed, CurAt \in 5 .. 12, QueuesOK
  PROVE  \A i \in 1 .. Len(Ids) :
           /\ Ids[i] \in Experts /\ i \in Rows
           /\ hot[i] = table[Ids[i]]
           /\ cold[i] = IF table[Ids[i]] = None THEN Ids[i] ELSE None
           /\ hot[i] = None <=> cold[i] # None
<1>1. queue.cur # <<>> /\ AtForward(4, 12) /\ AtForward(5, 12)
  BY FwdTypes DEF AtForward
<1>2. hot = HotOf(Ids, table) /\ cold = ColdOfTable(Ids, table)
  BY <1>1 DEF Computed, AlignedHot, AlignedCold
<1>3. Ids \in RoutedIds
  BY <1>1, HeadCur DEF Ids
<1>4. Ids \in Seq(Experts) /\ Len(Ids) \in Rows
  BY <1>3, LayerAssumption
<1>5. ASSUME NEW i \in 1 .. Len(Ids)
      PROVE  /\ Ids[i] \in Experts /\ i \in Rows
             /\ hot[i] = table[Ids[i]]
             /\ cold[i] = IF table[Ids[i]] = None THEN Ids[i] ELSE None
             /\ Ids[i] # None
  <2>1. Ids[i] \in Experts /\ i \in Rows
    <3>1. Ids[i] \in Experts
      BY <1>4
    <3>2. Len(Ids) \in Rows /\ i \in 1 .. Len(Ids)
      BY <1>4
    <3> DEFINE n == Len(Ids)
    <3> HIDE DEF n
    <3>3. \A m \in Rows : \A x \in 1 .. m : x \in Rows
      BY LayerAssumption DEF Rows
    <3> QED BY <3>1, <3>2, <3>3
  <2>2. hot[i] = table[Ids[i]]
    BY <1>2, <2>1 DEF HotOf
  <2>3. cold[i] = IF table[Ids[i]] = None THEN Ids[i] ELSE None
    BY <1>2, <2>1 DEF ColdOfTable
  <2> QED BY <2>1, <2>2, <2>3 DEF Experts, None
<1> QED BY <1>5

LEMMA NothingNew ==
  ASSUME IInv, queue.cur # <<>>, Done("cur"), hot' = hot, cold' = cold, todo' = todo,
         fwd' = fwd, env' = env, busy' = busy \ {"cur"},
         \/ "cur" \in busy /\ todo["cur"] = {}
         \/ "cur" \notin busy /\ CurAt \in {5, 7, 9, 11} /\ env.side,
         NEW k \in {1, 2}, CurAt \in (4 * k + 1) .. (4 * k + 3),
         NEW i \in 1 .. Len(Ids), RowDone(k, i)'
  PROVE  RowDone(k, i)
<1>0. QueuesOK /\ Lag /\ RunningOK /\ Computed
  BY DEF IInv
<1>1. /\ SideFwd' = SideFwd /\ SideAt' = SideAt /\ Cur("side")' = Cur("side")
      /\ CurFwd' = CurFwd
      /\ CurAt = 4 * k + 1 => CurAt' = IF ~ env.side /\ SkipCold(Ids) THEN CurAt + 3 ELSE CurAt + 1
  BY <1>0, CurMoves
<1>2. /\ cold[i] # None => ~ SkipCold(Ids)
  <2>1. i \in Rows /\ Ids[i] \in Experts /\ cold[i] = IF table[Ids[i]] = None THEN Ids[i] ELSE None
    BY <1>0, Sides
  <2>2. AtForward(2, 12)
    BY DEF AtForward
  <2> QED BY <1>0, <2>1, <2>2 DEF Computed, SkippedIsEmpty
<1>3. CASE HotDone(k, i)'
  <2>1. hot[i] # None
    BY <1>3 DEF HotDone
  <2>2. CASE env.side
    <3>1. HotPast(k)' => HotPast(k)
      BY <1>1, <2>2 DEF HotPast
    <3>2. HotNow(k)' => HotNow(k)
      BY <1>1, <2>2 DEF HotNow, HotStream
    <3> QED BY <1>3, <2>1, <2>2, <3>1, <3>2 DEF HotDone, RowDone, HotStream
  <2>3. CASE ~ env.side
    <3>1. "cur" \in busy /\ todo["cur"] = {}
      BY <2>3
    <3>2. HotPast(k)'
      BY <1>3, <2>3 DEF HotDone, HotNow, HotStream
    <3>3. CASE CurAt > 4 * k + 1
      BY <2>1, <2>3, <3>3 DEF HotDone, RowDone, HotPast
    <3>4. CASE CurAt = 4 * k + 1
      <4>1. Cur("cur").op = "hot"
        BY <1>0, <3>1, <3>4, Runs
      <4>2. Cur("cur").stage = k
        BY <1>0, <3>4, <4>1, HeadCur
      <4>3. HotNow(k) /\ i \notin todo["cur"]
        BY <2>3, <3>1, <4>1, <4>2 DEF HotNow, HotStream
      <4> QED BY <2>1, <2>3, <4>3 DEF HotDone, RowDone, HotStream
    <3> QED BY <3>3, <3>4
  <2> QED BY <2>2, <2>3
<1>4. CASE ColdDone(k, i)'
  <2>1. cold[i] # None /\ CurAt' > 4 * k + 2
    BY <1>4 DEF ColdDone
  <2>2. CurAt # 4 * k + 1
    BY <1>1, <1>2, <2>1
  <2>3. CASE CurAt = 4 * k + 2
    <3>1. "cur" \in busy /\ todo["cur"] = {}
      BY <2>3
    <3> QED BY <2>1, <2>3, <3>1 DEF ColdDone, RowDone
  <2>4. CASE CurAt > 4 * k + 2
    BY <2>1, <2>4 DEF ColdDone, RowDone
  <2> QED BY <2>2, <2>3, <2>4
<1> QED BY <1>3, <1>4 DEF RowDone

LEMMA CurOn ==
  ASSUME IInv, queue.cur # <<>>, Done("cur"),
         UNCHANGED <<cacheVars, buffers, todo, fwd, env>>, busy' = busy \ {"cur"},
         CurAt \in {2, 5, 6, 7, 9, 10, 11},
         \/ "cur" \in busy /\ todo["cur"] = {}
         \/ "cur" \notin busy /\ CurAt \in {5, 7, 9, 11} /\ env.side,
         QueuesOK', Lag', RunningOK'
  PROVE  Computed'
<1>0. /\ QueuesOK /\ Lag /\ RunningOK /\ Computed
      /\ UNCHANGED <<table, map_cold, slot_expert, slot_stamp, step, routed, miss, n_miss>>
      /\ UNCHANGED <<slab, hot, cold, ic1, q2, ic3, out, todo, fwd, env>>
  BY DEF IInv, cacheVars, buffers
<1>1. queue'.cur # <<>> /\ CurFwd' = CurFwd /\ Ids' = Ids
  BY <1>0, CurMoves
<1>2. /\ CurAt = 2 => CurAt' = IF Fused(Ids) THEN 5 ELSE 3
      /\ CurAt \in {5, 6, 7} => CurAt' \in {6, 7, 8}
      /\ CurAt \in {9, 10, 11} => CurAt' \in {10, 11, 12}
  <2>1. /\ CurAt = 2 => CurAt' = IF Fused(Ids) THEN 5 ELSE 3
        /\ CurAt \in {5, 9} => CurAt' = IF ~ env.side /\ SkipCold(Ids) THEN CurAt + 3 ELSE CurAt + 1
        /\ CurAt \in {6, 10} => CurAt' = IF env.side THEN CurAt + 1 ELSE CurAt + 2
        /\ CurAt \in {7, 11} => CurAt' = CurAt + 1
    BY <1>0, CurMoves
  <2> QED BY <2>1
<1>3. queue.cur # <<>> /\ Fused(Ids)' = Fused(Ids) /\ SkipCold(Ids)' = SkipCold(Ids)
  BY <1>0, <1>1 DEF Fused, SkipCold
<1>4. CacheInv' /\ MissesPlaced' /\ LastOut'
  BY <1>0 DEF Computed, CacheInv, TypeOK, Complementary, TableInverse, AlwaysFull, StampsPast,
              MissesPlaced, LastOut
<1>5. SlabsFollow'
  <2>1. Filled
    BY <1>0, WhenFilled DEF Computed
  <2>2. slab \in [Slabs -> [Slots -> Experts]]
    BY <1>0 DEF Computed, SlabsFollow
  <2> QED BY <1>0, <2>1, <2>2 DEF SlabsFollow, Filled
<1>6. /\ AtForward(4, 12)' \/ (AtForward(2, 2)' /\ Fused(Ids)') =>
           AtForward(4, 12) \/ (AtForward(2, 2) /\ Fused(Ids))
      /\ AtForward(5, 12)' \/ (AtForward(2, 2)' /\ Fused(Ids)') =>
           AtForward(5, 12) \/ (AtForward(2, 2) /\ Fused(Ids))
      /\ AtForward(2, 12)' => AtForward(2, 12)
      /\ AtForward(9, 12)' => AtForward(9, 12) /\ CurAt \in 9 .. 11
      /\ AtForward(5, 8)' => (AtForward(5, 8) /\ CurAt \in 5 .. 7) \/ (CurAt = 2 /\ CurAt' = 5)
  BY <1>2, <1>3 DEF AtForward
<1>7. AlignedHot' /\ AlignedCold'
  <2>1. HotOf(Ids, table)' = HotOf(Ids, table) /\ ColdOfTable(Ids, table)' = ColdOfTable(Ids, table)
    BY <1>0, <1>1 DEF HotOf, ColdOfTable
  <2> QED BY <1>0, <1>6, <2>1 DEF AlignedHot, AlignedCold, Computed
<1>8. SkippedIsEmpty'
  BY <1>0, <1>1, <1>3, <1>6 DEF SkippedIsEmpty, Computed
<1>9. Quantised'
  BY <1>0, <1>1, <1>6 DEF Quantised, Computed, Value
<1>10. RowsOfFirst'
  <2>1. ASSUME AtForward(5, 8)', NEW i \in 1 .. Len(Ids), RowDone(1, i)'
        PROVE  ic1[i] = Value(i)
    <3>1. CASE CurAt = 2 /\ CurAt' = 5
      <4>1. AtEntrance'
        BY <1>0, EntranceNext
      <4>2. i \in Nat
        <5>1. Len(Ids) \in Nat
          BY <1>0, <1>3, HeadCur, RoutedIdsOK DEF Ids
        <5> QED BY <5>1
      <4> QED BY <2>1, <3>1, <4>1, <4>2 DEF AtEntrance, NothingDone
    <3>2. CASE AtForward(5, 8) /\ CurAt \in 5 .. 7
      <4>1. RowDone(1, i)
        BY <1>0, <1>3, <2>1, <3>2, NothingNew
      <4> QED BY <1>0, <3>2, <4>1 DEF RowsOfFirst, Computed
    <3> QED BY <1>6, <2>1, <3>1, <3>2
  <2>2. DOMAIN ic1 = Rows
    BY <1>0 DEF RowsOfFirst, Computed
  <2> QED BY <1>0, <1>1, <2>1, <2>2 DEF RowsOfFirst, Value
<1>11. RowsOfSecond'
  <2>1. ASSUME AtForward(9, 12)', NEW i \in 1 .. Len(Ids), RowDone(2, i)'
        PROVE  ic3[i] = <<Value(i), Ids[i]>>
    <3>1. AtForward(9, 12) /\ CurAt \in 9 .. 11
      BY <1>6, <2>1
    <3>2. RowDone(2, i)
      BY <1>0, <1>3, <2>1, <3>1, NothingNew
    <3> QED BY <1>0, <3>1, <3>2 DEF RowsOfSecond, Computed
  <2>2. DOMAIN ic3 = Rows
    BY <1>0 DEF RowsOfSecond, Computed
  <2> QED BY <1>0, <1>1, <2>1, <2>2 DEF RowsOfSecond, Value
<1> QED BY <1>4, <1>5, <1>7, <1>8, <1>9, <1>10, <1>11 DEF Computed

----------------------------------------------------------------------------
(* The same of the side stream.                                            *)

LEMMA SideOn ==
  ASSUME IInv, queue.side # <<>>, Done("side"),
         UNCHANGED <<cacheVars, buffers, todo, fwd, env>>, busy' = busy \ {"side"},
         SideAt \in {6, 10} => "side" \in busy /\ todo["side"] = {}
  PROVE  Computed'
<1>0. /\ QueuesOK /\ Lag /\ RunningOK /\ Computed
      /\ UNCHANGED <<table, map_cold, slot_expert, slot_stamp, step, routed, miss, n_miss>>
      /\ UNCHANGED <<slab, hot, cold, ic1, q2, ic3, out, todo, fwd, env>>
  BY DEF IInv, cacheVars, buffers
<1>1. /\ queue'.cur = queue.cur /\ CurFwd' = CurFwd /\ CurAt' = CurAt
      /\ Cur("cur")' = Cur("cur") /\ Ids' = Ids
      /\ SideAt \in {5, 6, 9, 10} => SideAt' = SideAt + 1 /\ SideFwd' = SideFwd
      /\ SideAt = 7 => SideAt' = 9 /\ SideFwd' = SideFwd
      /\ SideAt = 11 => SideAt' = 5 /\ SideFwd' = SideFwd + 1
  BY <1>0, SideMoves DEF Ids
<1>2. env.side /\ SideAt \in {5, 6, 7, 9, 10, 11}
  BY <1>0, HeadSide
<1>3. \A a, b \in 0 .. 12 : AtForward(a, b)' = AtForward(a, b)
  BY <1>1 DEF AtForward
<1>4. Fused(Ids)' = Fused(Ids) /\ SkipCold(Ids)' = SkipCold(Ids)
  BY <1>0, <1>1 DEF Fused, SkipCold
<1>5. CacheInv' /\ MissesPlaced' /\ LastOut'
  BY <1>0 DEF Computed, CacheInv, TypeOK, Complementary, TableInverse, AlwaysFull, StampsPast,
              MissesPlaced, LastOut
<1>6. SlabsFollow'
  <2>1. ToCopy' = ToCopy
    BY <1>0 DEF ToCopy
  <2> QED BY <1>0, <1>1, <2>1 DEF SlabsFollow, Computed
<1>7. AlignedHot' /\ AlignedCold'
  <2>1. HotOf(Ids, table)' = HotOf(Ids, table) /\ ColdOfTable(Ids, table)' = ColdOfTable(Ids, table)
    BY <1>0, <1>1 DEF HotOf, ColdOfTable
  <2> QED BY <1>0, <1>3, <1>4, <2>1 DEF AlignedHot, AlignedCold, Computed
<1>8. SkippedIsEmpty'
  BY <1>0, <1>1, <1>3, <1>4 DEF SkippedIsEmpty, Computed
<1>9. Quantised'
  BY <1>0, <1>1, <1>3 DEF Quantised, Computed, Value
<1>10. ASSUME NEW k \in {1, 2}, NEW i, RowDone(k, i)'
       PROVE  RowDone(k, i)
  <2>1. CASE ColdDone(k, i)'
    <3>1. ColdDone(k, i)
      BY <1>0, <1>1, <2>1 DEF ColdDone
    <3> QED BY <3>1 DEF RowDone
  <2>2. CASE HotDone(k, i)'
    <3>1. hot[i] # None /\ HotPast(k)'
      BY <1>0, <1>2, <2>2 DEF HotDone, HotNow, HotStream
    <3>2. SideFwd' # CurFwd' \/ SideAt' > 4 * k + 2
      BY <1>0, <1>2, <3>1 DEF HotPast
    <3>3. CASE SideAt = 4 * k + 2
      <4>1. "side" \in busy /\ todo["side"] = {}
        BY <3>3
      <4>2. Cur("side").op = "hot" /\ Cur("side").stage = k
        BY <1>0, <1>2, <3>3, HeadSide
      <4> QED BY <1>2, <3>1, <4>1, <4>2 DEF HotDone, HotNow, HotStream, RowDone
    <3>4. CASE SideAt # 4 * k + 2
      <4>1. SideFwd # CurFwd \/ SideAt > 4 * k + 2
        BY <1>1, <1>2, <3>2, <3>4
      <4> QED BY <1>2, <3>1, <4>1 DEF HotDone, HotPast, RowDone
    <3> QED BY <3>3, <3>4
  <2> QED BY <1>10, <2>1, <2>2 DEF RowDone
<1>11. RowsOfFirst'
  BY <1>0, <1>1, <1>3, <1>10 DEF RowsOfFirst, Computed, Value
<1>12. RowsOfSecond'
  BY <1>0, <1>1, <1>3, <1>10 DEF RowsOfSecond, Computed, Value
<1> QED BY <1>5, <1>6, <1>7, <1>8, <1>9, <1>11, <1>12 DEF Computed

----------------------------------------------------------------------------
(* The events.                                                             *)

LEMMA Record ==
  ASSUME IInv, NEW q \in Streams, RecordEvent(q)
  PROVE  IInv'
<1>0. QueuesOK /\ Lag /\ Recorded /\ RunningOK /\ Computed
  BY DEF IInv
<1>1. /\ queue[q] # <<>> /\ Done(q) /\ fwd' = fwd /\ env' = env /\ busy' = busy /\ todo' = todo
      /\ UNCHANGED <<cacheVars, buffers>> /\ hot' = hot /\ cold' = cold /\ n_miss' = n_miss
      /\ \/ /\ Cur(q).op = "record_fork"
            /\ events' = events \cup {<<"fork", Cur(q).stage, Cur(q).fwd, env>>}
         \/ /\ Cur(q).op = "record_join"
            /\ events' = events \cup {<<"join", Cur(q).stage, Cur(q).fwd, env>>}
  BY DEF RecordEvent, Next1, Cur, buffers, cacheVars
<1>2. q \notin busy
  BY <1>0, <1>1 DEF RunningOK
<1>3. busy' = busy \ {q}
  BY <1>1, <1>2
<1>4. CASE q = "cur"
  <2>1. Cur("cur").op = "record_fork"
    <3>1. OnCurrent(Cur("cur"))
      BY <1>0, <1>1, <1>4, HeadCur
    <3> QED BY <1>1, <1>4, <3>1 DEF OnCurrent
  <2>2. /\ Cur("cur").stage \in {1, 2} /\ CurAt = 4 * Cur("cur").stage + 1 /\ CurAt \in {5, 9}
        /\ OnCurrent(Cur("cur")) /\ Cur("cur").fwd = CurFwd
    BY <1>0, <1>1, <1>4, <2>1, HeadCur
  <2>3. env.side
    BY <2>1, <2>2 DEF OnCurrent
  <2>4. QueuesOK' /\ SideFwd' = SideFwd /\ SideAt' = SideAt /\ CurAt' = CurAt + 1 /\ CurFwd' = CurFwd
    BY <1>0, <1>1, <1>4, <2>2, <2>3, CurMoves
  <2>5. Lag'
    BY <1>0, <1>1, <1>4, <2>2, CurLag
  <2>6. RunningOK'
    BY <1>0, <1>1, <1>3, <1>4, CurRunning
  <2>7. Recorded'
    <3>1. events' = events \cup {<<"fork", Cur("cur").stage, CurFwd, env>>}
      BY <1>1, <1>4, <2>1, <2>2
    <3>2. /\ CurFwd \in Nat /\ SideFwd \in Nat /\ CurAt \in Nat /\ SideAt \in Nat
      BY <1>0, FwdTypes
    <3>3. ASSUME NEW k \in {1, 2}, NEW f \in Nat
          PROVE  /\ <<"fork", k, f, env>> \in events' =>
                      <<"fork", k, f, env>> \in events \/ (f = CurFwd' /\ CurAt' > 4 * k + 1)
                 /\ <<"join", k, f, env>> \in events' => <<"join", k, f, env>> \in events
      BY <2>2, <2>4, <3>1, <3>2
    <3> QED BY <1>0, <1>1, <2>4, <3>2, <3>3, StillRecorded
  <2>8. Computed'
    BY <1>1, <1>2, <1>3, <1>4, <2>2, <2>3, <2>4, <2>5, <2>6, CurOn
  <2> QED BY <2>4, <2>5, <2>6, <2>7, <2>8 DEF IInv
<1>5. CASE q = "side"
  <2>1. Cur("side").op = "record_join"
    BY <1>0, <1>1, <1>5, HeadSide
  <2>2. /\ Cur("side").stage \in {1, 2} /\ SideAt = 4 * Cur("side").stage + 3
        /\ Cur("side").fwd = SideFwd
    BY <1>0, <1>1, <1>5, <2>1, HeadSide
  <2>3. /\ QueuesOK' /\ CurFwd' = CurFwd /\ CurAt' = CurAt
        /\ SideAt = 7 => SideAt' = 9 /\ SideFwd' = SideFwd
        /\ SideAt = 11 => SideAt' = 5 /\ SideFwd' = SideFwd + 1
    BY <1>0, <1>1, <1>5, SideMoves
  <2>4. Lag'
    BY <1>0, <1>1, <1>5, <2>2, SideLag
  <2>5. RunningOK'
    BY <1>0, <1>1, <1>3, <1>5, SideRunning
  <2>6. Recorded'
    <3>1. events' = events \cup {<<"join", Cur("side").stage, SideFwd, env>>}
      BY <1>1, <1>5, <2>1, <2>2
    <3>2. /\ CurFwd \in Nat /\ SideFwd \in Nat /\ CurAt \in Nat /\ SideAt \in Nat
      BY <1>0, FwdTypes
    <3>3. ASSUME NEW k \in {1, 2}, NEW f \in Nat
          PROVE  /\ <<"join", k, f, env>> \in events' =>
                      \/ <<"join", k, f, env>> \in events
                      \/ f < SideFwd' \/ (f = SideFwd' /\ SideAt' > 4 * k + 3)
                 /\ <<"fork", k, f, env>> \in events' => <<"fork", k, f, env>> \in events
      BY <2>2, <2>3, <3>1, <3>2
    <3> QED BY <1>0, <1>1, <2>2, <2>3, <3>2, <3>3, StillRecorded
  <2>7. Computed'
    BY <1>1, <1>3, <1>5, <2>2, SideOn
  <2> QED BY <2>3, <2>4, <2>5, <2>6, <2>7 DEF IInv
<1> QED BY <1>4, <1>5 DEF Streams

LEMMA Wait ==
  ASSUME IInv, NEW q \in Streams, WaitEvent(q)
  PROVE  IInv'
<1>0. QueuesOK /\ Lag /\ Recorded /\ RunningOK /\ Computed
  BY DEF IInv
<1>1. /\ queue[q] # <<>> /\ Done(q) /\ fwd' = fwd /\ env' = env /\ busy' = busy /\ todo' = todo
      /\ UNCHANGED <<cacheVars, buffers>> /\ hot' = hot /\ cold' = cold /\ n_miss' = n_miss
      /\ events' = events
      /\ \/ /\ Cur(q).op = "wait_fork"
            /\ <<"fork", Cur(q).stage, Cur(q).fwd, env>> \in events
         \/ /\ Cur(q).op = "wait_join"
            /\ <<"join", Cur(q).stage, Cur(q).fwd, env>> \in events
  BY DEF WaitEvent, Next1, Cur, buffers, cacheVars
<1>2. q \notin busy
  BY <1>0, <1>1 DEF RunningOK
<1>3. busy' = busy \ {q}
  BY <1>1, <1>2
<1>4. CASE q = "cur"
  <2>1. Cur("cur").op = "wait_join" /\ <<"join", Cur("cur").stage, Cur("cur").fwd, env>> \in events
    <3>1. OnCurrent(Cur("cur"))
      BY <1>0, <1>1, <1>4, HeadCur
    <3> QED BY <1>1, <1>4, <3>1 DEF OnCurrent
  <2>2. /\ Cur("cur").stage \in {1, 2} /\ CurAt = 4 * Cur("cur").stage + 3
        /\ OnCurrent(Cur("cur")) /\ Cur("cur").fwd = CurFwd /\ CurFwd \in Nat
    BY <1>0, <1>1, <1>4, <2>1, HeadCur, FwdTypes
  <2>3. env.side
    BY <2>1, <2>2 DEF OnCurrent
  <2>4. QueuesOK' /\ SideFwd' = SideFwd /\ SideAt' = SideAt /\ CurAt' = CurAt + 1 /\ CurFwd' = CurFwd
    BY <1>0, <1>1, <1>4, <2>2, <2>3, CurMoves
  <2>5. CurFwd < SideFwd \/ (CurFwd = SideFwd /\ SideAt > CurAt)
    BY <1>0, <2>1, <2>2 DEF Recorded
  <2>6. Lag'
    BY <1>0, <1>1, <1>4, <2>2, <2>5, FwdTypes, CurLag
  <2>7. RunningOK'
    BY <1>0, <1>1, <1>3, <1>4, CurRunning
  <2>8. Recorded'
    <3>1. /\ CurFwd \in Nat /\ SideFwd \in Nat /\ CurAt \in Nat /\ SideAt \in Nat
      BY <1>0, FwdTypes
    <3> QED BY <1>0, <1>1, <2>4, <3>1, StillRecorded
  <2>9. Computed'
    <3>1. CurAt \in {7, 11}
      BY <2>2
    <3> QED BY <1>1, <1>2, <1>3, <1>4, <2>3, <2>4, <2>6, <2>7, <3>1, CurOn
  <2> QED BY <2>4, <2>6, <2>7, <2>8, <2>9 DEF IInv
<1>5. CASE q = "side"
  <2>1. Cur("side").op = "wait_fork" /\ <<"fork", Cur("side").stage, Cur("side").fwd, env>> \in events
    BY <1>0, <1>1, <1>5, HeadSide
  <2>2. /\ Cur("side").stage \in {1, 2} /\ SideAt = 4 * Cur("side").stage + 1
        /\ Cur("side").fwd = SideFwd /\ SideFwd \in Nat
    BY <1>0, <1>1, <1>5, <2>1, HeadSide, FwdTypes
  <2>3. /\ QueuesOK' /\ CurFwd' = CurFwd /\ CurAt' = CurAt
        /\ SideAt' = SideAt + 1 /\ SideFwd' = SideFwd
    BY <1>0, <1>1, <1>5, <2>2, SideMoves
  <2>4. SideFwd < CurFwd \/ (SideFwd = CurFwd /\ CurAt > SideAt)
    BY <1>0, <2>1, <2>2 DEF Recorded
  <2>5. Lag'
    BY <1>0, <1>1, <1>5, <2>2, <2>4, FwdTypes, SideLag
  <2>6. RunningOK'
    BY <1>0, <1>1, <1>3, <1>5, SideRunning
  <2>7. Recorded'
    <3>1. /\ CurFwd \in Nat /\ SideFwd \in Nat /\ CurAt \in Nat /\ SideAt \in Nat
      BY <1>0, FwdTypes
    <3> QED BY <1>0, <1>1, <2>3, <3>1, StillRecorded
  <2>8. Computed'
    BY <1>1, <1>3, <1>5, <2>2, SideOn
  <2> QED BY <2>3, <2>5, <2>6, <2>7, <2>8 DEF IInv
<1> QED BY <1>4, <1>5 DEF Streams

----------------------------------------------------------------------------
(* The kernels.                                                            *)

LEMMA Finishes ==
  ASSUME IInv, NEW q \in Streams, Finish(q)
  PROVE  IInv'
<1>0. QueuesOK /\ Lag /\ Recorded /\ RunningOK /\ Computed
  BY DEF IInv
<1>1. /\ q \in busy /\ todo[q] = {} /\ busy' = busy \ {q}
      /\ Done(q) /\ fwd' = fwd /\ env' = env /\ todo' = todo
      /\ UNCHANGED <<cacheVars, buffers>> /\ hot' = hot /\ cold' = cold /\ n_miss' = n_miss
      /\ events' = events
  BY DEF Finish, buffers, cacheVars
<1>2. /\ queue[q] # <<>> /\ queue.cur # <<>>
      /\ q = "cur" => CurAt \in {2, 5, 6, 9, 10}
      /\ q = "side" => Cur("side").op = "hot"
  BY <1>0, <1>1, Runs
<1>3. /\ CurFwd \in Nat /\ SideFwd \in Nat /\ CurAt \in Nat /\ SideAt \in Nat
  BY <1>0, FwdTypes
<1>4. CASE q = "cur"
  <2>1. QueuesOK' /\ SideFwd' = SideFwd /\ SideAt' = SideAt
    BY <1>0, <1>1, <1>2, <1>4, CurMoves
  <2>2. Lag' /\ (CurFwd' > CurFwd \/ (CurFwd' = CurFwd /\ CurAt' > CurAt))
    BY <1>0, <1>1, <1>2, <1>4, CurLag
  <2>3. RunningOK'
    BY <1>0, <1>1, <1>2, <1>4, CurRunning
  <2>4. CurFwd' \in Nat /\ CurAt' \in Nat
    BY <2>1, FwdTypesNext DEF HeadTypes
  <2>5. Recorded'
    BY <1>0, <1>1, <1>3, <2>1, <2>2, <2>4, StillRecorded
  <2>6. Computed'
    BY <1>1, <1>2, <1>4, <2>1, <2>2, <2>3, CurOn
  <2> QED BY <2>1, <2>2, <2>3, <2>5, <2>6 DEF IInv
<1>5. CASE q = "side"
  <2>1. SideAt \in {6, 10}
    BY <1>0, <1>2, <1>5, HeadSide
  <2>2. QueuesOK' /\ CurFwd' = CurFwd /\ CurAt' = CurAt
    BY <1>0, <1>1, <1>2, <1>5, SideMoves
  <2>3. Lag' /\ (SideFwd' > SideFwd \/ (SideFwd' = SideFwd /\ SideAt' > SideAt))
    BY <1>0, <1>1, <1>2, <1>5, <2>1, SideLag
  <2>4. RunningOK'
    BY <1>0, <1>1, <1>2, <1>5, SideRunning
  <2>5. SideFwd' \in Nat /\ SideAt' \in Nat
    BY <2>2, FwdTypesNext DEF HeadTypes
  <2>6. Recorded'
    BY <1>0, <1>1, <1>3, <2>2, <2>3, <2>5, StillRecorded
  <2>7. Computed'
    BY <1>1, <1>2, <1>5, SideOn
  <2> QED BY <2>2, <2>3, <2>4, <2>6, <2>7 DEF IInv
<1> QED BY <1>4, <1>5 DEF Streams

(* A step that moves neither head keeps what is said of them.              *)
LEMMA HeadsStay ==
  ASSUME QueuesOK, Lag, Recorded, queue' = queue, fwd' = fwd, env' = env, events' = events
  PROVE  /\ QueuesOK' /\ Lag' /\ Recorded'
         /\ CurFwd' = CurFwd /\ CurAt' = CurAt /\ SideFwd' = SideFwd /\ SideAt' = SideAt
         /\ Ids' = Ids /\ Cur("cur")' = Cur("cur") /\ Cur("side")' = Cur("side")
         /\ Fused(Ids)' = Fused(Ids) /\ SkipCold(Ids)' = SkipCold(Ids)
         /\ \A a, b \in 0 .. 12 : AtForward(a, b)' = AtForward(a, b)
<1>1. CurFwd' = CurFwd /\ CurAt' = CurAt /\ SideFwd' = SideFwd /\ SideAt' = SideAt
  BY DEF CurFwd, CurAt, SideFwd, SideAt, Cur
<1>2. /\ Ids' = Ids /\ Cur("cur")' = Cur("cur") /\ Cur("side")' = Cur("side")
      /\ Fused(Ids)' = Fused(Ids) /\ SkipCold(Ids)' = SkipCold(Ids)
  BY DEF Ids, Cur, Fused, SkipCold
<1>3. CurPairs' = CurPairs /\ SidePairs' = SidePairs
  BY DEF CurPairs, SidePairs, Succeeds, SucceedsAside, Fused, Forking, Leaving, Opening, SkipCold
<1>4. QueuesOK'
  <2>1. /\ \A n \in 1 .. Len(queue'.cur) : OnCurrent(queue.cur[n])'
        /\ \A n \in 1 .. Len(queue'.side) : OnAside(queue.side[n])'
    BY DEF QueuesOK, OnCurrent, OnAside, Fused, SkipCold
  <2>2. Linked(queue.cur, CurPairs)' /\ Linked(queue.side, SidePairs)'
    BY <1>3 DEF QueuesOK, Linked
  <2> QED BY <2>1, <2>2 DEF QueuesOK
<1>5. Lag' /\ Recorded'
  BY <1>1 DEF Lag, Recorded
<1>6. \A a, b \in 0 .. 12 : AtForward(a, b)' = AtForward(a, b)
  BY <1>1 DEF AtForward
<1> QED BY <1>1, <1>2, <1>4, <1>5, <1>6

(* What is known of the buffers carries over when the cache and the        *)
(* alignments stay, the slabs follow, and the rows are what they should be.*)
LEMMA StillComputed ==
  ASSUME QueuesOK, Lag, Recorded, Computed, UNCHANGED <<cacheVars, queue, events, hot, cold, q2, out, fwd, env>>,
         SlabsFollow', RowsOfFirst', RowsOfSecond'
  PROVE  Computed'
<1>1. /\ UNCHANGED <<table, map_cold, slot_expert, slot_stamp, step, routed, miss, n_miss>>
      /\ UNCHANGED <<queue, events, hot, cold, q2, out, fwd, env>>
  BY DEF cacheVars
<1>2. /\ CurFwd' = CurFwd /\ Ids' = Ids /\ Fused(Ids)' = Fused(Ids) /\ SkipCold(Ids)' = SkipCold(Ids)
      /\ \A a, b \in 0 .. 12 : AtForward(a, b)' = AtForward(a, b)
  BY <1>1, HeadsStay
<1>3. CacheInv' /\ MissesPlaced' /\ LastOut'
  BY <1>1 DEF Computed, CacheInv, TypeOK, Complementary, TableInverse, AlwaysFull, StampsPast,
              MissesPlaced, LastOut
<1>4. AlignedHot' /\ AlignedCold'
  <2>1. HotOf(Ids, table)' = HotOf(Ids, table) /\ ColdOfTable(Ids, table)' = ColdOfTable(Ids, table)
    BY <1>1, <1>2 DEF HotOf, ColdOfTable
  <2> QED BY <1>1, <1>2, <2>1 DEF AlignedHot, AlignedCold, Computed
<1>5. SkippedIsEmpty' /\ Quantised'
  BY <1>1, <1>2 DEF SkippedIsEmpty, Quantised, Computed, Value
<1> QED BY <1>3, <1>4, <1>5 DEF Computed

LEMMA RowNumbers ==
  ASSUME QueuesOK, queue.cur # <<>>
  PROVE  \A i \in 1 .. Len(Ids) : i \in Rows /\ i \in Nat
<1>1. Ids \in RoutedIds
  BY HeadCur DEF Ids
<1>2. Len(Ids) \in Rows /\ Len(Ids) \in Nat
  BY <1>1, LayerAssumption
<1>3. \A m \in Rows : \A x \in 1 .. m : x \in Rows /\ x \in Nat
  BY LayerAssumption DEF Rows
<1> QED BY <1>2, <1>3

LEMMA Starts ==
  ASSUME IInv, NEW q \in Streams, Start(q)
  PROVE  IInv'
<1>0. QueuesOK /\ Lag /\ Recorded /\ RunningOK /\ Computed
  BY DEF IInv
<1>1. /\ queue[q] # <<>> /\ Cur(q).op \in {"gather", "hot", "cold"} /\ q \notin busy
      /\ busy' = busy \cup {q} /\ todo' = [todo EXCEPT ![q] = Pieces(Cur(q).op)]
      /\ UNCHANGED <<cacheVars, queue, events, buffers, fwd, env>>
      /\ UNCHANGED <<queue, events, fwd, env, slab, hot, cold, ic1, q2, ic3, out>>
      /\ UNCHANGED <<n_miss, miss, slot_expert>>
  BY DEF Start, buffers, cacheVars
<1>2. /\ QueuesOK' /\ Lag' /\ Recorded'
      /\ CurFwd' = CurFwd /\ CurAt' = CurAt /\ SideFwd' = SideFwd /\ SideAt' = SideAt
      /\ Ids' = Ids /\ Cur("cur")' = Cur("cur") /\ Cur("side")' = Cur("side")
      /\ \A a, b \in 0 .. 12 : AtForward(a, b)' = AtForward(a, b)
  BY <1>0, <1>1, HeadsStay
<1>3. /\ todo'[q] = Pieces(Cur(q).op) /\ DOMAIN todo' = Streams
      /\ \A r \in Streams : r # q => todo'[r] = todo[r]
  BY <1>0, <1>1 DEF RunningOK
<1>4. Pieces("gather") = (0 .. n_miss-1) \X Slabs
      /\ Pieces("hot") = {i \in Rows : hot[i] # None}
      /\ Pieces("cold") = {i \in Rows : cold[i] # None}
  BY DEF Pieces
<1>5. RunningOK'
  <2>1. ASSUME NEW r \in busy'
        PROVE  (queue[r] # <<>> /\ Cur(r).op \in {"gather", "hot", "cold"})'
               /\ todo'[r] \subseteq Pieces(Cur(r).op)'
    <3>1. queue[r] # <<>> /\ Cur(r).op \in {"gather", "hot", "cold"}
          /\ todo'[r] \subseteq Pieces(Cur(r).op)
      BY <1>0, <1>1, <1>3, <2>1 DEF RunningOK
    <3>2. Cur(r)' = Cur(r)
      BY <1>1 DEF Cur
    <3>3. Pieces(Cur(r).op)' = Pieces(Cur(r).op)
      BY <1>1, <3>1, <3>2 DEF Pieces
    <3> QED BY <1>1, <3>1, <3>2, <3>3
  <2>2. busy' \in SUBSET Streams
    BY <1>0, <1>1 DEF RunningOK
  <2> QED BY <1>3, <2>1, <2>2 DEF RunningOK
<1>6. SlabsFollow'
  <2>1. CurAt = 2 => ToCopy' = ToCopy
    <3>1. CASE q = "cur"
      <4>1. CurAt = 2 => Cur("cur").op = "gather"
        BY <1>0, <1>1, <3>1, HeadCur
      <4> QED BY <1>1, <1>3, <1>4, <3>1, <4>1 DEF ToCopy
    <3>2. CASE q # "cur"
      BY <1>1, <1>3, <3>2 DEF ToCopy, Streams
    <3> QED BY <3>1, <3>2
  <2> QED BY <1>0, <1>1, <1>2, <2>1 DEF SlabsFollow, Computed
<1>7. ASSUME queue.cur # <<>>, NEW k \in {1, 2}, NEW i \in 1 .. Len(Ids), RowDone(k, i)'
      PROVE  RowDone(k, i)
  <2>1. i \in Rows
    BY <1>0, <1>7, RowNumbers
  <2>2. CASE HotDone(k, i)'
    <3>1. hot[i] # None
      BY <1>1, <2>2 DEF HotDone
    <3>2. CASE HotPast(k)'
      <4>1. HotPast(k)
        BY <1>1, <1>2, <3>2 DEF HotPast
      <4> QED BY <3>1, <4>1 DEF HotDone, RowDone
    <3>3. CASE HotNow(k)' /\ i \notin todo'[HotStream]
      <4>1. HotStream \in busy' /\ Cur(HotStream).op = "hot" /\ Cur(HotStream).stage = k
            /\ HotStream \in Streams
        BY <1>1, <1>2, <3>3 DEF HotNow, HotStream, Streams
      <4>2. i \in Pieces("hot")
        BY <1>4, <2>1, <3>1
      <4>3. HotStream # q
        BY <1>3, <3>3, <4>1, <4>2
      <4>4. HotStream \in busy /\ i \notin todo[HotStream]
        BY <1>1, <1>3, <3>3, <4>1, <4>3
      <4> QED BY <3>1, <4>1, <4>4 DEF HotDone, HotNow, RowDone
    <3>4. HotStream' = HotStream
      BY <1>1 DEF HotStream
    <3> QED BY <2>2, <3>2, <3>3, <3>4 DEF HotDone
  <2>3. CASE ColdDone(k, i)'
    <3>1. cold[i] # None /\ i \in Pieces("cold")
      BY <1>1, <1>4, <2>1, <2>3 DEF ColdDone
    <3>2. CASE CurAt > 4 * k + 2
      BY <3>1, <3>2 DEF ColdDone, RowDone
    <3>3. CASE CurAt = 4 * k + 2 /\ "cur" \in busy' /\ i \notin todo'["cur"]
      <4>1. Cur("cur").op = "cold"
        BY <1>0, <1>7, <3>3, HeadCur
      <4>2. q # "cur"
        BY <1>3, <3>1, <3>3, <4>1
      <4>3. "cur" \in busy /\ i \notin todo["cur"]
        BY <1>1, <1>3, <3>3, <4>2 DEF Streams
      <4> QED BY <3>1, <3>3, <4>3 DEF ColdDone, RowDone
    <3> QED BY <1>2, <2>3, <3>2, <3>3 DEF ColdDone
  <2> QED BY <1>7, <2>2, <2>3 DEF RowDone
<1>8. RowsOfFirst'
  <2>1. AtForward(5, 8) => queue.cur # <<>>
    BY DEF AtForward
  <2>2. AtForward(5, 8)' = AtForward(5, 8) /\ Len(Ids') = Len(Ids) /\ CurFwd' = CurFwd /\ ic1' = ic1
    BY <1>1, <1>2
  <2> QED BY <1>0, <1>2, <1>7, <2>1, <2>2 DEF RowsOfFirst, Computed, Value
<1>9. RowsOfSecond'
  <2>1. AtForward(9, 12) => queue.cur # <<>>
    BY DEF AtForward
  <2>2. AtForward(9, 12)' = AtForward(9, 12) /\ Len(Ids') = Len(Ids) /\ CurFwd' = CurFwd /\ ic3' = ic3
    BY <1>1, <1>2
  <2> QED BY <1>0, <1>2, <1>7, <2>1, <2>2 DEF RowsOfSecond, Computed, Value
<1>10. Computed'
  BY <1>0, <1>1, <1>6, <1>8, <1>9, StillComputed
<1> QED BY <1>2, <1>5, <1>10 DEF IInv

LEMMA Copies ==
  ASSUME IInv, NEW q \in Streams, Copy(q)
  PROVE  IInv'
<1>0. QueuesOK /\ Lag /\ Recorded /\ RunningOK /\ Computed
  BY DEF IInv
<1>1. PICK x \in todo[q] :
        /\ Running(q, "gather")
        /\ Piece(q, x)
        /\ slab' = [slab EXCEPT ![x[2]][miss[x[1]][2]] = miss[x[1]][1]]
        /\ UNCHANGED <<cacheVars, queue, events, hot, cold, ic1, q2, ic3, out, fwd, env>>
  BY DEF Copy
<1>2. /\ q \in busy /\ queue[q] # <<>> /\ Cur(q).op = "gather"
      /\ busy' = busy /\ todo' = [todo EXCEPT ![q] = @ \ {x}]
      /\ UNCHANGED <<queue, events, hot, cold, ic1, q2, ic3, out, fwd, env>>
      /\ UNCHANGED <<n_miss, miss, slot_expert>>
  BY <1>1 DEF Running, Piece, Next1, Cur, cacheVars
<1>3. q = "cur"
  <2>1. queue.side # <<>> => Cur("side").op # "gather"
    BY <1>0, HeadSide
  <2> QED BY <1>2, <2>1 DEF Streams
<1>4. CurAt = 2 /\ queue.cur # <<>>
  BY <1>0, <1>2, <1>3, HeadCur
<1>5. /\ QueuesOK' /\ Lag' /\ Recorded' /\ CurAt' = CurAt /\ Cur("cur")' = Cur("cur")
      /\ Cur("side")' = Cur("side")
  BY <1>0, <1>2, HeadsStay
<1>6. /\ todo'["cur"] = todo["cur"] \ {x} /\ DOMAIN todo' = Streams
      /\ todo'["side"] = todo["side"]
  BY <1>0, <1>2, <1>3 DEF RunningOK, Streams
<1>7. todo["cur"] \subseteq (0 .. n_miss-1) \X Slabs
  BY <1>0, <1>2, <1>3 DEF RunningOK, Pieces
<1>8. RunningOK'
  <2>1. busy = {"cur"}
    <3>1. "side" \notin busy
      BY <1>0, <1>4, Runs
    <3> QED BY <1>0, <1>2, <1>3, <3>1 DEF RunningOK, Streams
  <2>2. todo'["cur"] \subseteq Pieces("gather")'
    BY <1>2, <1>6, <1>7 DEF Pieces
  <2> QED BY <1>2, <1>3, <1>5, <1>6, <2>1, <2>2 DEF RunningOK, Streams
<1> DEFINE j0 == x[1]
           b0 == x[2]
           s0 == miss[j0][2]
<1>9. /\ x = <<j0, b0>> /\ j0 \in 0 .. n_miss-1 /\ b0 \in Slabs
      /\ s0 \in Slots /\ slot_expert[s0] = miss[j0][1]
  <2>1. x \in (0 .. n_miss-1) \X Slabs
    BY <1>3, <1>7
  <2>2. x = <<j0, b0>> /\ j0 \in 0 .. n_miss-1 /\ b0 \in Slabs
    BY <2>1
  <2> QED BY <1>0, <2>2 DEF Computed, MissesPlaced
<1>10. slab' = [slab EXCEPT ![b0][s0] = slot_expert[s0]]
  BY <1>1, <1>9
<1> HIDE DEF j0, b0, s0
<1>11. SlabsFollow'
  <2>1. slab \in [Slabs -> [Slots -> Experts]]
    BY <1>0 DEF Computed, SlabsFollow
  <2>2. slot_expert[s0] \in Experts
    BY <1>0, <1>9 DEF Computed, CacheInv, TypeOK, AlwaysFull
  <2>3. slab' \in [Slabs -> [Slots -> Experts]]
    BY <1>9, <1>10, <2>1, <2>2
  <2>4. ASSUME NEW b \in Slabs, NEW s \in Slots, slab'[b][s] # slot_expert[s]
        PROVE  \E j \in 0 .. n_miss-1 : <<j, b>> \in todo'["cur"] /\ miss[j][2] = s
    <3>1. slab[b][s] = slab'[b][s] /\ ~ (b = b0 /\ s = s0)
      BY <1>9, <1>10, <2>1, <2>4
    <3>2. PICK j \in 0 .. n_miss-1 : <<j, b>> \in ToCopy /\ miss[j][2] = s
      BY <1>0, <2>4, <3>1 DEF Computed, SlabsFollow
    <3>3. <<j, b>> \in todo["cur"]
      BY <1>2, <1>3, <3>2 DEF ToCopy
    <3>4. <<j, b>> # x
      BY <1>9, <3>1, <3>2 DEF s0
    <3> QED BY <1>6, <3>2, <3>3, <3>4
  <2>5. ToCopy' = todo'["cur"]
    BY <1>2, <1>3 DEF ToCopy
  <2> QED BY <1>2, <1>4, <1>5, <2>3, <2>4, <2>5 DEF SlabsFollow
<1>12. RowsOfFirst' /\ RowsOfSecond'
  <2>1. ~ AtForward(5, 8)' /\ ~ AtForward(9, 12)'
    BY <1>4, <1>5 DEF AtForward
  <2> QED BY <1>0, <1>2, <2>1 DEF Computed, RowsOfFirst, RowsOfSecond
<1>13. Computed'
  BY <1>0, <1>1, <1>11, <1>12, StillComputed
<1> QED BY <1>5, <1>8, <1>13 DEF IInv

(* A GEMM computes row i with the weights of expert e, the row's own.      *)
LEMMA ComputesRow ==
  ASSUME IInv, NEW q \in Streams, NEW n \in {"hot", "cold"}, Running(q, n),
         NEW i \in todo[q], Piece(q, i), NEW e, ComputeRow(q, i, e),
         i \in 1 .. Len(Ids) => e = Ids[i],
         UNCHANGED <<cacheVars, queue, events, slab, hot, cold, q2, out, fwd, env>>
  PROVE  IInv'
<1> DEFINE k == Cur(q).stage
<1>0. QueuesOK /\ Lag /\ Recorded /\ RunningOK /\ Computed
  BY DEF IInv
<1>1. /\ q \in busy /\ Cur(q).op = n
      /\ busy' = busy /\ todo' = [todo EXCEPT ![q] = @ \ {i}]
      /\ UNCHANGED <<queue, events, slab, hot, cold, q2, out, fwd, env>>
      /\ UNCHANGED <<n_miss, miss, slot_expert>>
  BY DEF Running, Piece, Next1, Cur, cacheVars
<1>2. /\ queue[q] # <<>> /\ queue.cur # <<>>
      /\ Cur(q).ids = Ids /\ Cur(q).fwd = CurFwd /\ CurAt \in 5 .. 11
      /\ k = 1 => CurAt \in 5 .. 7
      /\ k = 2 => CurAt \in 9 .. 11
      /\ k \in {1, 2}
  BY <1>0, <1>1, Runs
<1>3. /\ QueuesOK' /\ Lag' /\ Recorded'
      /\ CurFwd' = CurFwd /\ CurAt' = CurAt /\ SideFwd' = SideFwd /\ SideAt' = SideAt
      /\ Ids' = Ids /\ Cur("cur")' = Cur("cur") /\ Cur("side")' = Cur("side")
      /\ \A a, b \in 0 .. 12 : AtForward(a, b)' = AtForward(a, b)
  BY <1>0, <1>1, HeadsStay
<1>4. /\ todo'[q] = todo[q] \ {i} /\ DOMAIN todo' = Streams
      /\ \A r \in Streams : r # q => todo'[r] = todo[r]
  BY <1>0, <1>1 DEF RunningOK
<1>5. i \in Rows
  BY <1>0, <1>1 DEF RunningOK, Pieces
<1>6. RunningOK'
  <2>1. ASSUME NEW r \in busy'
        PROVE  (queue[r] # <<>> /\ Cur(r).op \in {"gather", "hot", "cold"})'
               /\ todo'[r] \subseteq Pieces(Cur(r).op)'
    <3>1. queue[r] # <<>> /\ Cur(r).op \in {"gather", "hot", "cold"}
          /\ todo[r] \subseteq Pieces(Cur(r).op) /\ todo'[r] \subseteq todo[r]
      BY <1>0, <1>1, <1>4, <2>1 DEF RunningOK
    <3>2. Cur(r)' = Cur(r)
      BY <1>1 DEF Cur
    <3>3. Pieces(Cur(r).op)' = Pieces(Cur(r).op)
      BY <1>1, <3>1, <3>2 DEF Pieces
    <3> QED BY <1>1, <3>1, <3>2, <3>3
  <2>2. busy' \in SUBSET Streams
    BY <1>0, <1>1 DEF RunningOK
  <2> QED BY <1>4, <2>1, <2>2 DEF RunningOK
<1>7. SlabsFollow'
  <2>1. CurAt # 2
    BY <1>2
  <2> QED BY <1>0, <1>1, <1>3, <2>1 DEF Computed, SlabsFollow
<1>8. ASSUME NEW m \in {1, 2}, NEW j, RowDone(m, j)'
      PROVE  RowDone(m, j) \/ (m = k /\ j = i)
  <2>1. CASE HotDone(m, j)'
    <3>1. hot[j] # None
      BY <1>1, <2>1 DEF HotDone
    <3>2. CASE HotPast(m)'
      <4>1. HotPast(m)
        BY <1>1, <1>3, <3>2 DEF HotPast
      <4> QED BY <3>1, <4>1 DEF HotDone, RowDone
    <3>3. CASE HotNow(m)' /\ j \notin todo'[HotStream]
      <4>1. HotNow(m) /\ HotStream \in Streams /\ Cur(HotStream).stage = m
        BY <1>1, <1>3, <3>3 DEF HotNow, HotStream, Streams
      <4>2. CASE HotStream = q
        <5>1. m = k /\ (j = i \/ j \notin todo[HotStream])
          BY <1>4, <3>3, <4>1, <4>2
        <5> QED BY <3>1, <4>1, <5>1 DEF HotDone, RowDone
      <4>3. CASE HotStream # q
        <5>1. j \notin todo[HotStream]
          BY <1>4, <3>3, <4>1, <4>3
        <5> QED BY <3>1, <4>1, <5>1 DEF HotDone, RowDone
      <4> QED BY <4>2, <4>3
    <3>4. HotStream' = HotStream
      BY <1>1 DEF HotStream
    <3> QED BY <2>1, <3>2, <3>3, <3>4 DEF HotDone
  <2>2. CASE ColdDone(m, j)'
    <3>1. cold[j] # None
      BY <1>1, <2>2 DEF ColdDone
    <3>2. CASE CurAt > 4 * m + 2
      BY <3>1, <3>2 DEF ColdDone, RowDone
    <3>3. CASE CurAt = 4 * m + 2 /\ "cur" \in busy' /\ j \notin todo'["cur"]
      <4>1. Cur("cur").op = "cold" /\ Cur("cur").stage = m
        BY <1>0, <1>2, <3>3, HeadCur
      <4>2. CASE q = "cur"
        <5>1. m = k /\ (j = i \/ j \notin todo["cur"])
          BY <1>4, <3>3, <4>1, <4>2
        <5> QED BY <1>1, <3>1, <3>3, <5>1 DEF ColdDone, RowDone
      <4>3. CASE q # "cur"
        <5>1. j \notin todo["cur"]
          BY <1>4, <3>3, <4>3 DEF Streams
        <5> QED BY <1>1, <3>1, <3>3, <5>1 DEF ColdDone, RowDone
      <4> QED BY <4>2, <4>3
    <3> QED BY <1>3, <2>2, <3>2, <3>3 DEF ColdDone
  <2> QED BY <1>8, <2>1, <2>2 DEF RowDone
<1>9. /\ k = 1 => ic1' = [ic1 EXCEPT ![i] = <<CurFwd, e>>] /\ ic3' = ic3
      /\ k = 2 => ic3' = [ic3 EXCEPT ![i] = <<q2[i], e>>] /\ ic1' = ic1
  BY <1>2 DEF ComputeRow
<1>10. /\ DOMAIN ic1 = Rows /\ DOMAIN ic3 = Rows
       /\ AtForward(5, 8) => \A j \in 1 .. Len(Ids) : RowDone(1, j) => ic1[j] = Value(j)
       /\ AtForward(9, 12) => \A j \in 1 .. Len(Ids) : RowDone(2, j) => ic3[j] = <<Value(j), Ids[j]>>
       /\ AtForward(9, 12) => \A j \in 1 .. Len(Ids) : q2[j] = Value(j)
  BY <1>0 DEF Computed, RowsOfFirst, RowsOfSecond, Quantised
<1> HIDE DEF k
<1>11. \A j : Value(j)' = Value(j)
  BY <1>3 DEF Value
<1>12. RowsOfFirst'
  <2>1. DOMAIN ic1' = Rows
    BY <1>2, <1>9, <1>10
  <2>2. ASSUME AtForward(5, 8), NEW j \in 1 .. Len(Ids), RowDone(1, j)'
        PROVE  ic1'[j] = Value(j)
    <3>1. CASE k = 1 /\ j = i
      <4>1. ic1'[i] = <<CurFwd, e>>
        BY <1>5, <1>9, <1>10, <3>1
      <4> QED BY <2>2, <3>1, <4>1 DEF Value
    <3>2. CASE ~ (k = 1 /\ j = i)
      <4>1. RowDone(1, j)
        BY <1>8, <2>2, <3>2
      <4>2. ic1[j] = Value(j)
        BY <1>10, <2>2, <4>1
      <4>3. ic1'[j] = ic1[j]
        BY <1>0, <1>2, <1>5, <1>9, <1>10, <3>2, RowNumbers
      <4> QED BY <4>2, <4>3
    <3> QED BY <3>1, <3>2
  <2>3. AtForward(5, 8)' = AtForward(5, 8) /\ Ids' = Ids
    BY <1>3
  <2> QED BY <1>11, <2>1, <2>2, <2>3 DEF RowsOfFirst
<1>13. RowsOfSecond'
  <2>1. DOMAIN ic3' = Rows
    BY <1>2, <1>9, <1>10
  <2>2. ASSUME AtForward(9, 12), NEW j \in 1 .. Len(Ids), RowDone(2, j)'
        PROVE  ic3'[j] = <<Value(j), Ids[j]>>
    <3>1. CASE k = 2 /\ j = i
      <4>1. ic3'[i] = <<q2[i], e>>
        BY <1>5, <1>9, <1>10, <3>1
      <4>2. q2[i] = Value(i)
        BY <1>10, <2>2, <3>1
      <4> QED BY <2>2, <3>1, <4>1, <4>2
    <3>2. CASE ~ (k = 2 /\ j = i)
      <4>1. RowDone(2, j)
        BY <1>8, <2>2, <3>2
      <4>2. ic3[j] = <<Value(j), Ids[j]>>
        BY <1>10, <2>2, <4>1
      <4>3. ic3'[j] = ic3[j]
        BY <1>0, <1>2, <1>5, <1>9, <1>10, <3>2, RowNumbers
      <4> QED BY <4>2, <4>3
    <3> QED BY <3>1, <3>2
  <2>3. AtForward(9, 12)' = AtForward(9, 12) /\ Ids' = Ids
    BY <1>3
  <2> QED BY <1>11, <2>1, <2>2, <2>3 DEF RowsOfSecond
<1>14. Computed'
  BY <1>0, <1>7, <1>12, <1>13, StillComputed
<1> QED BY <1>3, <1>6, <1>14 DEF IInv

LEMMA HotRows ==
  ASSUME IInv, NEW q \in Streams, HotRow(q)
  PROVE  IInv'
<1>0. QueuesOK /\ Lag /\ Recorded /\ RunningOK /\ Computed
  BY DEF IInv
<1>1. PICK i \in todo[q] : Piece(q, i) /\ ComputeRow(q, i, WeightsOf(q)[hot[i]])
  BY DEF HotRow
<1>2. Running(q, "hot") /\ UNCHANGED <<cacheVars, queue, events, slab, hot, cold, q2, out, fwd, env>>
  BY DEF HotRow
<1> DEFINE e == WeightsOf(q)[hot[i]]
<1>3. q \in busy /\ Cur(q).op = "hot"
  BY <1>2 DEF Running, Next1, Cur
<1>4. CurAt \in 5 .. 11
  BY <1>0, <1>3, Runs
<1>5. i \in Rows /\ hot[i] # None
  BY <1>0, <1>3 DEF RunningOK, Pieces
<1>6. ASSUME i \in 1 .. Len(Ids)
      PROVE  e = Ids[i]
  <2>1. Ids[i] \in Experts /\ hot[i] = table[Ids[i]]
    BY <1>0, <1>4, <1>6, Sides
  <2>2. /\ table[Ids[i]] \in Slots \cup {None}
        /\ table[Ids[i]] # None => slot_expert[table[Ids[i]]] = Ids[i]
    BY <1>0, <2>1 DEF Computed, CacheInv, TypeOK, TableInverse
  <2>3. hot[i] \in Slots /\ slot_expert[hot[i]] = Ids[i]
    BY <1>5, <2>1, <2>2
  <2>4. Filled
    BY <1>0, <1>4, WhenFilled DEF Computed
  <2> QED BY <2>3, <2>4 DEF Filled, WeightsOf, Slabs
<1> HIDE DEF e
<1>7. ComputeRow(q, i, e)
  BY <1>1 DEF e
<1> QED BY <1>1, <1>2, <1>6, <1>7, ComputesRow

LEMMA ColdRows ==
  ASSUME IInv, NEW q \in Streams, ColdRow(q)
  PROVE  IInv'
<1>0. QueuesOK /\ Lag /\ Recorded /\ RunningOK /\ Computed
  BY DEF IInv
<1>1. PICK i \in todo[q] : Piece(q, i) /\ ComputeRow(q, i, cold[i])
  BY DEF ColdRow
<1>2. Running(q, "cold") /\ UNCHANGED <<cacheVars, queue, events, slab, hot, cold, q2, out, fwd, env>>
  BY DEF ColdRow
<1> DEFINE e == cold[i]
<1>3. q \in busy /\ Cur(q).op = "cold"
  BY <1>2 DEF Running, Next1, Cur
<1>4. CurAt \in 5 .. 11
  BY <1>0, <1>3, Runs
<1>5. i \in Rows /\ cold[i] # None
  BY <1>0, <1>3 DEF RunningOK, Pieces
<1>6. ASSUME i \in 1 .. Len(Ids)
      PROVE  e = Ids[i]
  BY <1>0, <1>4, <1>5, <1>6, Sides
<1> HIDE DEF e
<1>7. ComputeRow(q, i, e)
  BY <1>1 DEF e
<1> QED BY <1>1, <1>2, <1>6, <1>7, ComputesRow

----------------------------------------------------------------------------
(* The manager.                                                            *)

LEMMA RoutedRange ==
  ASSUME NEW ids \in RoutedIds
  PROVE  /\ Range(ids) \in RoutedSets /\ Cardinality(Range(ids)) <= Len(ids)
         /\ Cardinality(Range(ids)) \in Nat
         /\ \A i \in 1 .. Len(ids) : ids[i] \in Range(ids) /\ ids[i] \in Experts
<1>1. ids \in Seq(Experts) /\ Len(ids) \in Nat /\ Len(ids) >= 1
  BY RoutedIdsOK
<1>2. ids \in [1 .. Len(ids) -> Experts] /\ DOMAIN ids = 1 .. Len(ids)
  BY <1>1
<1> DEFINE D == 1 .. Len(ids)
<1>3. 1 \in D
  BY <1>1
<1>4. ids \in [D -> Experts] /\ DOMAIN ids = D
  BY <1>2
<1> HIDE DEF D
<1>5. Range(ids) \subseteq Experts /\ \A i \in D : ids[i] \in Range(ids) /\ ids[i] \in Experts
  BY <1>4 DEF Range
<1>6. ids \in Surjection(D, Range(ids))
  BY <1>4 DEF Range, Surjection
<1>7. ExistsSurjection(1 .. Len(ids), Range(ids))
  BY <1>6 DEF ExistsSurjection, D
<1>8. Cardinality(Range(ids)) <= Len(ids)
  BY <1>1, <1>7, FS_SurjCardinalityBound
<1>9. Cardinality(Range(ids)) \in Nat
  BY <1>1, <1>7, FS_NatSurjection, FS_CardinalityType
<1>10. Range(ids) \in RoutedSets
  BY <1>3, <1>5 DEF RoutedSets
<1> QED BY <1>5, <1>8, <1>9, <1>10 DEF D

(* Neither stream is in a kernel.                                          *)
LEMMA NotBusy ==
  ASSUME QueuesOK, Lag, RunningOK, CurAt \in {1, 3, 4, 8, 12}
  PROVE  busy = {}
<1>1. "cur" \notin busy
  BY Runs
<1>2. "side" \notin busy
  BY Runs
<1> QED BY <1>1, <1>2 DEF RunningOK, Streams

(* The operations that are one step and belong to the current stream.      *)
LEMMA CurOnly ==
  ASSUME QueuesOK, NEW q \in Streams, queue[q] # <<>>,
         Cur(q).op \in {"manage", "manage_align", "align_hot", "align_cold", "act_quant", "moe_sum"}
  PROVE  q = "cur"
<1>1. queue.side # <<>> => Cur("side").op \in {"wait_fork", "hot", "record_join"}
  BY HeadSide
<1> QED BY <1>1 DEF Streams

(* What such an operation leaves to prove.                                 *)
LEMMA CurStep ==
  ASSUME QueuesOK, Lag, Recorded, RunningOK, queue.cur # <<>>, Done("cur"),
         CurAt \in {1, 3, 4, 8, 12}, UNCHANGED <<events, busy, todo, fwd, env>>
  PROVE  /\ QueuesOK' /\ Lag' /\ Recorded' /\ RunningOK'
         /\ busy = {} /\ busy' = {}
<1>1. busy = {} /\ busy' = {} /\ busy' = busy \ {"cur"}
  BY NotBusy
<1>2. QueuesOK' /\ SideFwd' = SideFwd /\ SideAt' = SideAt
  BY CurMoves
<1>3. Lag' /\ (CurFwd' > CurFwd \/ (CurFwd' = CurFwd /\ CurAt' > CurAt))
  BY CurLag
<1>4. RunningOK'
  BY <1>1, CurRunning
<1>5. /\ CurFwd \in Nat /\ SideFwd \in Nat /\ CurAt \in Nat /\ SideAt \in Nat
  BY FwdTypes
<1>6. CurFwd' \in Nat /\ CurAt' \in Nat
  BY <1>2, FwdTypesNext DEF HeadTypes
<1>7. Recorded'
  BY <1>2, <1>3, <1>5, <1>6, StillRecorded
<1> QED BY <1>1, <1>2, <1>3, <1>4, <1>7

LEMMA Manages ==
  ASSUME IInv, NEW q \in Streams, Manage(q) \/ ManageAlign(q)
  PROVE  IInv'
<1>0. QueuesOK /\ Lag /\ Recorded /\ RunningOK /\ Computed
  BY DEF IInv
<1>1. /\ queue[q] # <<>> /\ Cur(q).op \in {"manage", "manage_align"}
      /\ Launch(Range(Cur(q).ids)) /\ Done(q)
      /\ UNCHANGED <<events, busy, todo, fwd, env>> /\ UNCHANGED <<slab, ic1, q2, ic3, out>>
      /\ Cur(q).op = "manage_align" => /\ hot' = HotOf(Cur(q).ids, table')
                                       /\ cold' = ColdOfTable(Cur(q).ids, table')
  BY DEF Manage, ManageAlign, Next1, Cur, buffers
<1>2. q = "cur" /\ queue.cur # <<>> /\ CurAt = 1
  <2>1. q = "cur"
    BY <1>0, <1>1, CurOnly
  <2> QED BY <1>0, <1>1, <2>1, HeadCur
<1>3. QueuesOK' /\ Lag' /\ Recorded' /\ RunningOK' /\ busy' = {}
  BY <1>0, <1>1, <1>2, CurStep
<1>4. queue'.cur # <<>> /\ CurFwd' = CurFwd /\ Ids' = Ids /\ CurAt' = 2
  BY <1>0, <1>1, <1>2, CurMoves
<1>5. Ids \in RoutedIds /\ OnCurrent(Cur("cur"))
  BY <1>0, <1>2, HeadCur DEF Ids
<1> DEFINE R == Range(Ids)
<1>6. /\ R \in RoutedSets /\ Cardinality(R) <= Len(Ids) /\ Cardinality(R) \in Nat
      /\ \A i \in 1 .. Len(Ids) : Ids[i] \in R /\ Ids[i] \in Experts
      /\ Len(Ids) \in Nat
  BY <1>5, RoutedRange, RoutedIdsOK
<1>7. Launch(R)
  BY <1>1, <1>2 DEF Ids
<1> HIDE DEF R
<1>8. CacheInv /\ Next
  BY <1>0, <1>6, <1>7 DEF Next, Computed
<1>9. routed' = R /\ step' = step + 1
  BY <1>7 DEF Launch, ReadThrough, Refresh, Insert, Begin
<1>10. ~ UNCHANGED vars
  BY <1>8, <1>9 DEF vars, CacheInv, TypeOK
<1>11. CacheInv'
  BY <1>8, NextInv
<1> DEFINE moved == {x \in Experts : table'[x] # None /\ table'[x] # table[x]}
<1>12. {miss'[j] : j \in 0 .. n_miss'-1} = {<<e, table'[e]>> : e \in moved}
  BY <1>8, <1>10, StepMissList
<1>13. MissesPlaced'
  <2>1. SUFFICES ASSUME NEW j \in 0 .. n_miss'-1
                 PROVE  /\ j \in Entries /\ miss'[j][2] \in Slots
                        /\ slot_expert'[miss'[j][2]] = miss'[j][1]
    BY DEF MissesPlaced
  <2>2. n_miss' \in 0 .. MaxInserts
    BY <1>11 DEF CacheInv, TypeOK
  <2>3. PICK e \in moved : miss'[j] = <<e, table'[e]>>
    <3> HIDE DEF moved
    <3> QED BY <1>12
  <2>4. e \in Experts /\ table'[e] # None
    BY <2>3
  <2>5. table'[e] \in Slots /\ slot_expert'[table'[e]] = e
    BY <1>11, <2>4 DEF CacheInv, TypeOK, TableInverse
  <2>6. j \in Entries
    <3>1. MaxInserts \in Nat
      BY CacheAssumption
    <3>2. n_miss' \in Nat /\ n_miss' <= MaxInserts
      BY <2>2, <3>1
    <3>3. \A m, n \in Nat : m <= n => \A x \in 0 .. m-1 : x \in 0 .. n-1
      OBVIOUS
    <3>4. j \in 0 .. MaxInserts-1
      BY <3>1, <3>2, <3>3
    <3> QED BY <3>4 DEF Entries
  <2> QED BY <2>3, <2>5, <2>6
<1>14. SlabsFollow'
  <2>1. Filled
    BY <1>0, <1>2, WhenFilled DEF Computed
  <2>2. ToCopy' = (0 .. n_miss'-1) \X Slabs
    BY <1>3 DEF ToCopy
  <2>3. ASSUME NEW b \in Slabs, NEW s \in Slots, slab[b][s] # slot_expert'[s]
        PROVE  \E j \in 0 .. n_miss'-1 : <<j, b>> \in ToCopy' /\ miss'[j][2] = s
    <3> DEFINE e == slot_expert'[s]
    <3>1. e \in Experts /\ table'[e] = s /\ s # None
      BY <1>11 DEF CacheInv, TypeOK, AlwaysFull, TableInverse, Slots, None
    <3>2. table[e] # s
      <4>1. table[e] = s => slot_expert[s] = e
        BY <1>8, <3>1 DEF CacheInv, TableInverse
      <4> QED BY <2>1, <2>3, <4>1 DEF Filled
    <3>3. e \in moved
      BY <3>1, <3>2
    <3> HIDE DEF e, moved
    <3>4. PICK j \in 0 .. n_miss'-1 : miss'[j] = <<e, table'[e]>>
      BY <1>12, <3>3
    <3> QED BY <2>2, <3>1, <3>4
  <2>4. slab \in [Slabs -> [Slots -> Experts]]
    BY <1>0 DEF Computed, SlabsFollow
  <2> QED BY <1>1, <1>4, <2>3, <2>4 DEF SlabsFollow
<1>15. AlignedHot' /\ AlignedCold'
  <2>1. ~ AtForward(4, 12)' /\ ~ AtForward(5, 12)'
    BY <1>4 DEF AtForward
  <2>2. Fused(Ids)' => Cur("cur").op = "manage_align"
    <3>1. Fused(Ids)' = Fused(Cur("cur").ids)
      BY <1>1, <1>4 DEF Fused, Ids
    <3> QED BY <1>1, <1>2, <1>5, <3>1 DEF OnCurrent
  <2>3. Fused(Ids)' => hot' = HotOf(Ids, table)' /\ cold' = ColdOfTable(Ids, table)'
    <3>1. Ids' = Cur("cur").ids
      BY <1>4 DEF Ids
    <3>2. HotOf(Ids, table)' = HotOf(Cur("cur").ids, table')
          /\ ColdOfTable(Ids, table)' = ColdOfTable(Cur("cur").ids, table')
      BY <3>1 DEF HotOf, ColdOfTable
    <3> QED BY <1>1, <1>2, <2>2, <3>2
  <2> QED BY <2>1, <2>3 DEF AlignedHot, AlignedCold
<1>16. SkippedIsEmpty'
  <2>1. SUFFICES ASSUME SkipCold(Ids)', NEW i \in 1 .. Len(Ids)
                 PROVE  table'[Ids[i]] # None
    BY <1>4 DEF SkippedIsEmpty
  <2>2. Len(Ids) <= Lesser(MaxInserts, MaxDistinct) /\ Lesser(MaxInserts, MaxDistinct) \in Int
    BY <1>4, <2>1, CacheAssumption DEF SkipCold, Lesser
  <2>3. Cardinality(routed') <= Lesser(MaxInserts, MaxDistinct)
    BY <1>6, <1>9, <2>2
  <2>4. \A e \in routed' : table'[e] # None
    BY <1>8, <1>10, <2>3, StepFewAreAllResident
  <2> QED BY <1>6, <1>9, <2>4
<1>17. RowsOfFirst' /\ RowsOfSecond' /\ Quantised' /\ LastOut'
  <2>1. ~ AtForward(5, 8)' /\ ~ AtForward(9, 12)'
    BY <1>4 DEF AtForward
  <2> QED BY <1>0, <1>1, <2>1 DEF Computed, RowsOfFirst, RowsOfSecond, Quantised, LastOut
<1>18. Computed'
  BY <1>11, <1>13, <1>14, <1>15, <1>16, <1>17 DEF Computed
<1> QED BY <1>3, <1>18 DEF IInv

----------------------------------------------------------------------------
(* The other operations of the current stream.                             *)

LEMMA Kept ==
  ASSUME Computed, CurAt # 2, UNCHANGED <<cacheVars, slab>>
  PROVE  CacheInv' /\ MissesPlaced' /\ SlabsFollow'
<1>1. UNCHANGED <<table, map_cold, slot_expert, slot_stamp, step, routed, miss, n_miss, slab>>
  BY DEF cacheVars
<1>2. CacheInv' /\ MissesPlaced'
  BY <1>1 DEF Computed, CacheInv, TypeOK, Complementary, TableInverse, AlwaysFull, StampsPast,
              MissesPlaced
<1>3. SlabsFollow'
  <2>1. Filled /\ slab \in [Slabs -> [Slots -> Experts]]
    BY WhenFilled DEF Computed, SlabsFollow
  <2> QED BY <1>1, <2>1 DEF SlabsFollow, Filled
<1> QED BY <1>2, <1>3

LEMMA AlignsHot ==
  ASSUME IInv, NEW q \in Streams, AlignHot(q)
  PROVE  IInv'
<1>0. QueuesOK /\ Lag /\ Recorded /\ RunningOK /\ Computed
  BY DEF IInv
<1>1. /\ queue[q] # <<>> /\ Cur(q).op = "align_hot" /\ Done(q) /\ hot' = HotOf(Cur(q).ids, table)
      /\ UNCHANGED <<events, busy, todo, fwd, env>> /\ UNCHANGED <<cacheVars, slab>>
      /\ UNCHANGED <<table, cold, ic1, q2, ic3, out>>
  BY DEF AlignHot, Next1, Cur, cacheVars
<1>2. q = "cur" /\ queue.cur # <<>> /\ CurAt = 3
  <2>1. q = "cur"
    BY <1>0, <1>1, CurOnly
  <2> QED BY <1>0, <1>1, <2>1, HeadCur
<1>3. QueuesOK' /\ Lag' /\ Recorded' /\ RunningOK'
  BY <1>0, <1>1, <1>2, CurStep
<1>4. queue'.cur # <<>> /\ CurFwd' = CurFwd /\ Ids' = Ids /\ CurAt' = 4
  BY <1>0, <1>1, <1>2, CurMoves
<1>5. CacheInv' /\ MissesPlaced' /\ SlabsFollow'
  BY <1>0, <1>1, <1>2, Kept
<1>6. AlignedHot'
  <2>1. HotOf(Ids, table)' = HotOf(Ids, table) /\ hot' = HotOf(Ids, table)
    BY <1>1, <1>2, <1>4 DEF HotOf, Ids
  <2> QED BY <2>1 DEF AlignedHot
<1>7. AlignedCold'
  BY <1>4 DEF AlignedCold, AtForward
<1>8. SkippedIsEmpty'
  <2>1. SkipCold(Ids)' = SkipCold(Ids) /\ AtForward(2, 12)
    BY <1>1, <1>2, <1>4 DEF SkipCold, AtForward
  <2> QED BY <1>0, <1>1, <1>4, <2>1 DEF SkippedIsEmpty, Computed
<1>9. RowsOfFirst' /\ RowsOfSecond' /\ Quantised' /\ LastOut'
  <2>1. ~ AtForward(5, 8)' /\ ~ AtForward(9, 12)'
    BY <1>4 DEF AtForward
  <2> QED BY <1>0, <1>1, <2>1 DEF Computed, RowsOfFirst, RowsOfSecond, Quantised, LastOut
<1> QED BY <1>3, <1>5, <1>6, <1>7, <1>8, <1>9 DEF IInv, Computed

(* map_cold buckets the rows as the table does.                            *)
LEMMA AlignsCold ==
  ASSUME IInv, NEW q \in Streams, AlignCold(q)
  PROVE  IInv'
<1>0. QueuesOK /\ Lag /\ Recorded /\ RunningOK /\ Computed
  BY DEF IInv
<1>1. /\ queue[q] # <<>> /\ Cur(q).op = "align_cold" /\ Done(q) /\ cold' = ColdOfMap(Cur(q).ids)
      /\ UNCHANGED <<events, busy, todo, fwd, env>> /\ UNCHANGED <<cacheVars, slab>>
      /\ UNCHANGED <<table, hot, ic1, q2, ic3, out>>
  BY DEF AlignCold, Next1, Cur, cacheVars
<1>2. q = "cur" /\ queue.cur # <<>> /\ CurAt = 4
  <2>1. q = "cur"
    BY <1>0, <1>1, CurOnly
  <2> QED BY <1>0, <1>1, <2>1, HeadCur
<1>3. QueuesOK' /\ Lag' /\ Recorded' /\ RunningOK' /\ busy' = {}
  BY <1>0, <1>1, <1>2, CurStep
<1>4. queue'.cur # <<>> /\ CurFwd' = CurFwd /\ Ids' = Ids /\ CurAt' = 5
  BY <1>0, <1>1, <1>2, CurMoves
<1>5. CacheInv' /\ MissesPlaced' /\ SlabsFollow'
  BY <1>0, <1>1, <1>2, Kept
<1>6. AlignedHot'
  <2>1. AtForward(4, 12)
    BY <1>2 DEF AtForward
  <2>2. HotOf(Ids, table)' = HotOf(Ids, table)
    BY <1>1, <1>4 DEF HotOf
  <2> QED BY <1>0, <1>1, <2>1, <2>2 DEF AlignedHot, Computed
<1>7. AlignedCold'
  <2>1. Ids \in RoutedIds
    BY <1>0, <1>2, HeadCur DEF Ids
  <2>2. \A i \in 1 .. Len(Ids) : Ids[i] \in Experts
    BY <2>1, RoutedRange
  <2>3. ASSUME NEW i \in Rows
        PROVE  (IF i <= Len(Ids) THEN map_cold[Ids[i]] ELSE None)
                 = IF i <= Len(Ids) /\ table[Ids[i]] = None THEN Ids[i] ELSE None
    <3>1. Len(Ids) \in Nat /\ i \in Nat /\ i >= 1
      BY <2>1, RoutedIdsOK, LayerAssumption DEF Rows
    <3>2. i <= Len(Ids) => map_cold[Ids[i]] = IF table[Ids[i]] = None THEN Ids[i] ELSE None
      BY <1>0, <2>2, <3>1 DEF Computed, CacheInv, Complementary
    <3> QED BY <3>2
  <2>4. ColdOfMap(Ids) = ColdOfTable(Ids, table)
    BY <2>3 DEF ColdOfMap, ColdOfTable
  <2>5. ColdOfTable(Ids, table)' = ColdOfTable(Ids, table) /\ cold' = ColdOfMap(Ids)
    BY <1>1, <1>2, <1>4 DEF ColdOfTable, Ids
  <2> QED BY <2>4, <2>5 DEF AlignedCold
<1>8. SkippedIsEmpty'
  <2>1. SkipCold(Ids)' = SkipCold(Ids) /\ AtForward(2, 12)
    BY <1>1, <1>2, <1>4 DEF SkipCold, AtForward
  <2> QED BY <1>0, <1>1, <1>4, <2>1 DEF SkippedIsEmpty, Computed
<1>9. RowsOfFirst'
  <2>1. AtEntrance'
    BY <1>3, EntranceNext
  <2>2. \A i \in Nat : ~ RowDone(1, i)'
    BY <1>4, <2>1 DEF AtEntrance, NothingDone
  <2>3. \A i \in 1 .. Len(Ids') : i \in Nat
    BY <1>0, <1>2, <1>4, RowNumbers
  <2> QED BY <1>0, <1>1, <2>2, <2>3 DEF RowsOfFirst, Computed
<1>10. RowsOfSecond' /\ Quantised' /\ LastOut'
  <2>1. ~ AtForward(9, 12)'
    BY <1>4 DEF AtForward
  <2> QED BY <1>0, <1>1, <2>1 DEF Computed, RowsOfSecond, Quantised, LastOut
<1> QED BY <1>3, <1>5, <1>6, <1>7, <1>8, <1>9, <1>10 DEF IInv, Computed

(* Every row of a projection that is over has been computed.               *)
LEMMA AllDone ==
  ASSUME QueuesOK, Lag, Computed, NEW k \in {1, 2}, CurAt = 4 * k + 4, NEW i \in 1 .. Len(Ids)
  PROVE  RowDone(k, i)
<1>1. hot[i] # None \/ cold[i] # None
  BY Sides
<1>2. CASE cold[i] # None
  BY <1>2 DEF RowDone, ColdDone
<1>3. CASE hot[i] # None
  <2>1. HotPast(k)
    <3>1. CASE env.side
      <4>1. \/ SideFwd = CurFwd /\ SideAt = 9 /\ k = 1
            \/ SideFwd = CurFwd + 1 /\ k = 2
        BY <3>1 DEF Lag
      <4>2. CurFwd \in Nat
        BY FwdTypes
      <4> QED BY <3>1, <4>1, <4>2 DEF HotPast
    <3>2. CASE ~ env.side
      BY <3>2 DEF HotPast
    <3> QED BY <3>1, <3>2
  <2> QED BY <1>3, <2>1 DEF RowDone, HotDone
<1> QED BY <1>1, <1>2, <1>3

LEMMA Quantises ==
  ASSUME IInv, NEW q \in Streams, ActQuant(q)
  PROVE  IInv'
<1>0. QueuesOK /\ Lag /\ Recorded /\ RunningOK /\ Computed
  BY DEF IInv
<1>1. /\ queue[q] # <<>> /\ Cur(q).op = "act_quant" /\ Done(q) /\ q2' = ic1
      /\ UNCHANGED <<events, busy, todo, fwd, env>> /\ UNCHANGED <<cacheVars, slab>>
      /\ UNCHANGED <<table, hot, cold, ic1, ic3, out>>
  BY DEF ActQuant, Next1, Cur, cacheVars
<1>2. q = "cur" /\ queue.cur # <<>> /\ CurAt = 8
  <2>1. q = "cur"
    BY <1>0, <1>1, CurOnly
  <2> QED BY <1>0, <1>1, <2>1, HeadCur
<1>3. QueuesOK' /\ Lag' /\ Recorded' /\ RunningOK' /\ busy' = {}
  BY <1>0, <1>1, <1>2, CurStep
<1>4. queue'.cur # <<>> /\ CurFwd' = CurFwd /\ Ids' = Ids /\ CurAt' = 9
  BY <1>0, <1>1, <1>2, CurMoves
<1>5. CacheInv' /\ MissesPlaced' /\ SlabsFollow'
  BY <1>0, <1>1, <1>2, Kept
<1>6. AlignedHot' /\ AlignedCold'
  <2>1. AtForward(4, 12) /\ AtForward(5, 12)
    BY <1>2 DEF AtForward
  <2>2. HotOf(Ids, table)' = HotOf(Ids, table) /\ ColdOfTable(Ids, table)' = ColdOfTable(Ids, table)
    BY <1>1, <1>4 DEF HotOf, ColdOfTable
  <2> QED BY <1>0, <1>1, <2>1, <2>2 DEF AlignedHot, AlignedCold, Computed
<1>7. SkippedIsEmpty'
  <2>1. SkipCold(Ids)' = SkipCold(Ids) /\ AtForward(2, 12)
    BY <1>1, <1>2, <1>4 DEF SkipCold, AtForward
  <2> QED BY <1>0, <1>1, <1>4, <2>1 DEF SkippedIsEmpty, Computed
<1>8. Quantised'
  <2>1. ASSUME NEW i \in 1 .. Len(Ids)
        PROVE  ic1[i] = Value(i)
    <3>1. RowDone(1, i)
      BY <1>0, <1>2, AllDone
    <3>2. AtForward(5, 8)
      BY <1>2 DEF AtForward
    <3> QED BY <1>0, <3>1, <3>2 DEF RowsOfFirst, Computed
  <2>2. \A i : Value(i)' = Value(i)
    BY <1>4 DEF Value
  <2> QED BY <1>1, <1>4, <2>1, <2>2 DEF Quantised
<1>9. RowsOfSecond'
  <2>1. AtEntrance'
    BY <1>3, EntranceNext
  <2>2. \A i \in Nat : ~ RowDone(2, i)'
    BY <1>4, <2>1 DEF AtEntrance, NothingDone
  <2>3. \A i \in 1 .. Len(Ids') : i \in Nat
    BY <1>0, <1>2, <1>4, RowNumbers
  <2> QED BY <1>0, <1>1, <2>2, <2>3 DEF RowsOfSecond, Computed
<1>10. RowsOfFirst' /\ LastOut'
  <2>1. ~ AtForward(5, 8)'
    BY <1>4 DEF AtForward
  <2> QED BY <1>0, <1>1, <2>1 DEF Computed, RowsOfFirst, LastOut
<1> QED BY <1>3, <1>5, <1>6, <1>7, <1>8, <1>9, <1>10 DEF IInv, Computed

LEMMA Sums ==
  ASSUME IInv, NEW q \in Streams, MoeSum(q)
  PROVE  IInv'
<1>0. QueuesOK /\ Lag /\ Recorded /\ RunningOK /\ Computed
  BY DEF IInv
<1>1. /\ queue[q] # <<>> /\ Cur(q).op = "moe_sum" /\ Done(q)
      /\ out' = [fwd |-> Cur(q).fwd, ids |-> Cur(q).ids, rows |-> ic3]
      /\ UNCHANGED <<events, busy, todo, fwd, env>> /\ UNCHANGED <<cacheVars, slab>>
      /\ UNCHANGED <<table, hot, cold, ic1, ic3, q2>>
  BY DEF MoeSum, Next1, Cur, cacheVars
<1>2. q = "cur" /\ queue.cur # <<>> /\ CurAt = 12
  <2>1. q = "cur"
    BY <1>0, <1>1, CurOnly
  <2> QED BY <1>0, <1>1, <2>1, HeadCur
<1>3. QueuesOK' /\ Lag' /\ Recorded' /\ RunningOK'
  BY <1>0, <1>1, <1>2, CurStep
<1>4. CurAt' \in {0, 1, 3} /\ (CurAt' = 3 => ~ env.lru)
  BY <1>0, <1>1, <1>2, CurMoves
<1>5. CacheInv' /\ MissesPlaced' /\ SlabsFollow'
  BY <1>0, <1>1, <1>2, Kept
<1>6. /\ ~ AtForward(4, 12)' /\ ~ AtForward(2, 2)' /\ ~ AtForward(5, 12)'
      /\ ~ AtForward(5, 8)' /\ ~ AtForward(9, 12)'
      /\ AtForward(2, 12)' => CurAt' = 3
  BY <1>4 DEF AtForward
<1>7. AlignedHot' /\ AlignedCold' /\ Quantised'
  BY <1>6 DEF AlignedHot, AlignedCold, Quantised
<1>8. SkippedIsEmpty'
  BY <1>1, <1>4, <1>6 DEF SkippedIsEmpty, SkipCold
<1>9. RowsOfFirst' /\ RowsOfSecond'
  BY <1>0, <1>1, <1>6 DEF RowsOfFirst, RowsOfSecond, Computed
<1>10. LastOut'
  <2>1. out'.fwd = CurFwd /\ out'.ids = Ids /\ out'.rows = ic3
    BY <1>0, <1>1, <1>2, HeadCur DEF Ids
  <2>2. ASSUME NEW i \in 1 .. Len(Ids)
        PROVE  ic3[i] = << <<CurFwd, Ids[i]>>, Ids[i]>>
    <3>1. RowDone(2, i)
      BY <1>0, <1>2, AllDone
    <3>2. AtForward(9, 12)
      BY <1>2 DEF AtForward
    <3> QED BY <1>0, <3>1, <3>2 DEF RowsOfSecond, Computed, Value
  <2> QED BY <2>1, <2>2 DEF LastOut
<1> QED BY <1>3, <1>5, <1>7, <1>8, <1>9, <1>10 DEF IInv, Computed

----------------------------------------------------------------------------
(* The host queues a forward; a stream that was idle comes to its start.   *)

LEMMA Queues ==
  ASSUME IInv, ApplySplit
  PROVE  IInv'
<1>0. QueuesOK /\ Lag /\ Recorded /\ RunningOK /\ Computed
  BY DEF IInv
<1>1. /\ QueuesOK' /\ env' = env /\ fwd' = fwd + 1 /\ fwd \in Nat
      /\ queue.cur # <<>> => queue'.cur # <<>> /\ Cur("cur")' = Cur("cur")
      /\ queue.side # <<>> => queue'.side # <<>> /\ Cur("side")' = Cur("side")
      /\ queue.cur = <<>> => /\ queue'.cur # <<>> /\ Cur("cur").fwd' = fwd + 1
                             /\ Cur("cur")' = Opening(Ids', fwd + 1)
      /\ queue.side = <<>> => \/ queue'.side = <<>> /\ ~ env.side
                              \/ /\ queue'.side # <<>>
                                 /\ Cur("side").op' = "wait_fork"
                                 /\ Cur("side").stage' = 1 /\ Cur("side").fwd' = fwd + 1
  BY <1>0, Appended DEF ApplySplit, QueuesOK
<1>2. /\ UNCHANGED <<table, map_cold, slot_expert, slot_stamp, step, routed, miss, n_miss>>
      /\ UNCHANGED <<events, busy, todo, slab, hot, cold, ic1, q2, ic3, out, env>>
      /\ UNCHANGED <<cacheVars, slab>>
  BY DEF ApplySplit, cacheVars, buffers
<1>3. ~ env.side => queue.side = <<>> /\ queue'.side = <<>>
  <2>1. ~ env.side => queue.side = <<>>
    BY <1>0, NoSide
  <2>2. queue'.side # <<>> => env'.side
    <3>1. 1 \in 1 .. Len(queue'.side)
        <=> queue'.side # <<>>
      <4>1. queue'.side \in Seq(Ops)
        BY <1>1 DEF QueuesOK, Streams
      <4> QED BY <4>1
    <3>2. 1 \in 1 .. Len(queue'.side) => env'.side
      BY <1>1 DEF QueuesOK, OnAside
    <3> QED BY <3>1, <3>2
  <2> QED BY <1>1, <2>1, <2>2
<1>4. env.side => SideFwd' = SideFwd /\ SideAt' = SideAt
  <2>1. CASE queue.side # <<>>
    BY <1>1, <2>1 DEF SideFwd, SideAt
  <2>2. CASE queue.side = <<>> /\ env.side
    <3>1. queue'.side # <<>> /\ Cur("side").op' = "wait_fork"
          /\ Cur("side").stage' = 1 /\ Cur("side").fwd' = fwd + 1
      BY <1>1, <2>2
    <3>2. SidePlace(Cur("side"))' = 5
      BY <3>1 DEF SidePlace
    <3> QED BY <2>2, <3>1, <3>2 DEF SideFwd, SideAt
  <2> QED BY <2>1, <2>2
<1>5. ~ env.side => SideFwd' = SideFwd + 1
  BY <1>1, <1>3 DEF SideFwd
<1>6. queue.cur # <<>> => /\ CurFwd' = CurFwd /\ CurAt' = CurAt /\ Ids' = Ids
                          /\ Fused(Ids)' = Fused(Ids) /\ SkipCold(Ids)' = SkipCold(Ids)
  BY <1>1, <1>2 DEF CurFwd, CurAt, Ids, Fused, SkipCold
<1>7. queue.cur = <<>> => /\ CurFwd' = CurFwd /\ CurAt = 0 /\ CurAt' = IF env.lru THEN 1 ELSE 3
  <2>1. SUFFICES ASSUME queue.cur = <<>>
                 PROVE  CurFwd' = CurFwd /\ CurAt = 0 /\ CurAt' = IF env.lru THEN 1 ELSE 3
    OBVIOUS
  <2>2. CurFwd = fwd + 1 /\ CurAt = 0
    BY <2>1 DEF CurFwd, CurAt
  <2>3. CurFwd' = fwd + 1 /\ CurAt' = Place(Opening(Ids', fwd + 1))
    BY <1>1, <2>1 DEF CurFwd, CurAt
  <2>4. Place(Opening(Ids', fwd + 1)) = IF env.lru THEN 1 ELSE 3
    BY PlaceOf DEF Opening
  <2> QED BY <2>2, <2>3, <2>4
<1>8. /\ CurFwd \in Nat /\ SideFwd \in Nat /\ CurAt \in Nat /\ SideAt \in {5, 6, 7, 9, 10, 11}
      /\ SideAt' \in Nat /\ SideFwd' \in Nat /\ CurAt' \in Nat
  BY <1>0, <1>1, FwdTypes, FwdTypesNext DEF HeadTypes
<1>9. CurFwd' = CurFwd /\ CurAt' >= CurAt /\ (CurAt' # CurAt => CurAt = 0 /\ CurAt' \in {1, 3})
  BY <1>6, <1>7, <1>8
<1>10. Lag'
  <2>1. SUFFICES ASSUME env.side PROVE Lag'
    BY <1>1 DEF Lag
  <2>2. \/ SideFwd = CurFwd /\ SideAt = 5 /\ CurAt <= 7
        \/ SideFwd = CurFwd /\ SideAt \in {6, 7} /\ CurAt \in {6, 7}
        \/ SideFwd = CurFwd /\ SideAt = 9 /\ CurAt \in 6 .. 11
        \/ SideFwd = CurFwd /\ SideAt \in {10, 11} /\ CurAt \in {10, 11}
        \/ SideFwd = CurFwd + 1 /\ SideAt = 5 /\ CurAt \in 10 .. 12
    BY <1>0, <2>1 DEF Lag
  <2>3. CASE CurAt' = CurAt
    BY <1>4, <1>9, <2>1, <2>2, <2>3 DEF Lag
  <2>4. CASE CurAt' # CurAt
    <3>1. SideFwd = CurFwd /\ SideAt = 5 /\ CurAt' <= 7
      BY <1>9, <2>2, <2>4
    <3> QED BY <1>4, <1>9, <2>1, <3>1 DEF Lag
  <2> QED BY <2>3, <2>4
<1>11. Recorded'
  <2>1. SideFwd' > SideFwd \/ (SideFwd' = SideFwd /\ SideAt' >= SideAt)
    BY <1>4, <1>5, <1>8
  <2> QED BY <1>0, <1>1, <1>2, <1>9, <2>1, StillRecorded
<1>12. \A q \in busy : /\ queue[q] # <<>> /\ queue'[q] # <<>> /\ Cur(q)' = Cur(q)
                       /\ queue.cur # <<>> /\ q \in Streams
  BY <1>0, <1>1, Runs DEF Streams
<1>13. RunningOK'
  <2>1. ASSUME NEW r \in busy'
        PROVE  (queue[r] # <<>> /\ Cur(r).op \in {"gather", "hot", "cold"})'
               /\ todo'[r] \subseteq Pieces(Cur(r).op)'
    <3>1. queue[r] # <<>> /\ Cur(r).op \in {"gather", "hot", "cold"}
          /\ todo[r] \subseteq Pieces(Cur(r).op)
      BY <1>0, <1>2, <2>1 DEF RunningOK
    <3>2. queue'[r] # <<>> /\ Cur(r)' = Cur(r)
      BY <1>2, <1>12, <2>1
    <3>3. Pieces(Cur(r).op)' = Pieces(Cur(r).op)
      BY <1>2, <3>1, <3>2 DEF Pieces
    <3> QED BY <1>2, <3>1, <3>2, <3>3
  <2>2. busy' \in SUBSET Streams /\ DOMAIN todo' = Streams
    BY <1>0, <1>2 DEF RunningOK
  <2> QED BY <2>1, <2>2 DEF RunningOK
<1>14. CacheInv' /\ MissesPlaced' /\ LastOut'
  BY <1>0, <1>2 DEF Computed, CacheInv, TypeOK, Complementary, TableInverse, AlwaysFull, StampsPast,
                    MissesPlaced, LastOut
<1>15. CASE queue.cur = <<>>
  <2>1. SlabsFollow'
    <3>1. CurAt # 2
      BY <1>7, <1>15
    <3> QED BY <1>0, <1>2, <3>1, Kept
  <2>2. /\ ~ AtForward(4, 12)' /\ ~ AtForward(2, 2)' /\ ~ AtForward(5, 12)'
        /\ ~ AtForward(5, 8)' /\ ~ AtForward(9, 12)'
        /\ AtForward(2, 12)' => ~ env.lru
    BY <1>7, <1>15 DEF AtForward
  <2>3. AlignedHot' /\ AlignedCold' /\ Quantised'
    BY <2>2 DEF AlignedHot, AlignedCold, Quantised
  <2>4. SkippedIsEmpty'
    BY <1>2, <2>2 DEF SkippedIsEmpty, SkipCold
  <2>5. RowsOfFirst' /\ RowsOfSecond'
    BY <1>0, <1>2, <2>2 DEF RowsOfFirst, RowsOfSecond, Computed
  <2> QED BY <1>1, <1>10, <1>11, <1>13, <1>14, <2>1, <2>3, <2>4, <2>5 DEF IInv, Computed
<1>16. CASE queue.cur # <<>>
  <2>1. \A a, b \in 0 .. 12 : AtForward(a, b)' = AtForward(a, b)
    BY <1>1, <1>6, <1>16 DEF AtForward
  <2>2. SlabsFollow'
    <3>1. ToCopy' = ToCopy
      BY <1>2 DEF ToCopy
    <3> QED BY <1>0, <1>2, <1>6, <1>16, <3>1 DEF SlabsFollow, Computed
  <2>3. AlignedHot' /\ AlignedCold'
    <3>1. HotOf(Ids, table)' = HotOf(Ids, table) /\ ColdOfTable(Ids, table)' = ColdOfTable(Ids, table)
      BY <1>2, <1>6, <1>16 DEF HotOf, ColdOfTable
    <3> QED BY <1>0, <1>2, <1>6, <1>16, <2>1, <3>1 DEF AlignedHot, AlignedCold, Computed
  <2>4. SkippedIsEmpty' /\ Quantised'
    BY <1>0, <1>2, <1>6, <1>16, <2>1 DEF SkippedIsEmpty, Quantised, Computed, Value
  <2>5. ASSUME NEW k \in {1, 2}, NEW i, RowDone(k, i)'
        PROVE  RowDone(k, i)
    <3>1. HotPast(k)' => HotPast(k)
      BY <1>2, <1>4, <1>6, <1>16 DEF HotPast
    <3>2. HotStream' = HotStream /\ (HotNow(k)' => HotNow(k))
      BY <1>2, <1>12 DEF HotNow, HotStream
    <3>3. HotDone(k, i)' => HotDone(k, i)
      BY <1>2, <3>1, <3>2 DEF HotDone
    <3>4. ColdDone(k, i)' => ColdDone(k, i)
      BY <1>2, <1>6, <1>16 DEF ColdDone
    <3> QED BY <2>5, <3>3, <3>4 DEF RowDone
  <2>6. RowsOfFirst'
    BY <1>0, <1>2, <1>6, <1>16, <2>1, <2>5 DEF RowsOfFirst, Computed, Value
  <2>7. RowsOfSecond'
    BY <1>0, <1>2, <1>6, <1>16, <2>1, <2>5 DEF RowsOfSecond, Computed, Value
  <2> QED BY <1>1, <1>10, <1>11, <1>13, <1>14, <2>2, <2>3, <2>4, <2>6, <2>7 DEF IInv, Computed
<1> QED BY <1>15, <1>16

----------------------------------------------------------------------------
(* The theorem.                                                            *)

LEMMA LayerInitInv == LayerInit => IInv
<1> SUFFICES ASSUME LayerInit PROVE IInv
  OBVIOUS
<1>1. /\ queue = [q \in Streams |-> <<>>] /\ events = {} /\ busy = {}
      /\ todo = [q \in Streams |-> {}] /\ slab = WarmSlabs
      /\ fwd = 0 /\ env \in [side : BOOLEAN, lru : BOOLEAN]
      /\ ic1 = [i \in Rows |-> <<0, None>>] /\ ic3 = [i \in Rows |-> << <<0, None>>, None>>]
      /\ out.ids = <<>>
  BY DEF LayerInit
<1>2. queue.cur = <<>> /\ queue.side = <<>>
  BY <1>1 DEF Streams
<1>3. CurAt = 0 /\ SideAt = 5 /\ CurFwd = 1 /\ SideFwd = 1
  BY <1>1, <1>2 DEF CurAt, SideAt, CurFwd, SideFwd
<1>4. QueuesOK
  <2>1. <<>> \in Seq(Ops) /\ Len(<<>>) = 0
    OBVIOUS
  <2>2. queue \in [Streams -> Seq(Ops)]
    BY <1>1, <2>1
  <2>3. \A n : ~ (n \in 1 .. 0) /\ ~ (n \in 1 .. 0-1)
    OBVIOUS
  <2>4. Len(queue.cur) = 0 /\ Len(queue.side) = 0
    BY <1>2, <2>1
  <2>5. Linked(queue.cur, CurPairs) /\ Linked(queue.side, SidePairs)
    BY <2>3, <2>4 DEF Linked
  <2> QED BY <1>1, <1>2, <2>2, <2>3, <2>4, <2>5 DEF QueuesOK
<1>5. Lag /\ Recorded
  BY <1>1, <1>3 DEF Lag, Recorded
<1>6. RunningOK
  BY <1>1 DEF RunningOK
<1>7. CacheInv
  BY InitCacheInv DEF LayerInit
<1>8. MissesPlaced
  BY DEF LayerInit, Init, MissesPlaced
<1>9. SlabsFollow
  <2>1. slot_expert \in [Slots -> Experts]
    BY DEF LayerInit, Init
  <2> QED BY <1>1, <2>1 DEF SlabsFollow, WarmSlabs
<1>10. AlignedHot /\ AlignedCold /\ SkippedIsEmpty /\ Quantised
  BY <1>2 DEF AlignedHot, AlignedCold, SkippedIsEmpty, Quantised, AtForward
<1>11. RowsOfFirst /\ RowsOfSecond
  BY <1>1, <1>2 DEF RowsOfFirst, RowsOfSecond, AtForward
<1>12. LastOut
  <2>1. Len(out.ids) = 0
    BY <1>1
  <2> QED BY <2>1 DEF LastOut
<1> QED BY <1>4, <1>5, <1>6, <1>7, <1>8, <1>9, <1>10, <1>11, <1>12 DEF IInv, Computed

LEMMA LayerStep == IInv /\ [LayerNext]_layerVars => IInv'
<1> SUFFICES ASSUME IInv, [LayerNext]_layerVars PROVE IInv'
  OBVIOUS
<1>1. ASSUME NEW q \in Streams, Device(q)
      PROVE  IInv'
  BY <1>1, Manages, AlignsHot, AlignsCold, Quantises, Sums, Record, Wait, Starts, Copies,
     HotRows, ColdRows, Finishes DEF Device
<1>2. CASE UNCHANGED layerVars
  <2>1. /\ UNCHANGED <<table, map_cold, slot_expert, slot_stamp, step, routed, miss, n_miss>>
        /\ UNCHANGED <<queue, events, busy, todo, slab, hot, cold, ic1, q2, ic3, out, fwd, env>>
        /\ UNCHANGED <<cacheVars, queue, events, hot, cold, q2, out, fwd, env>>
    BY <1>2 DEF layerVars, cacheVars, buffers
  <2>2. QueuesOK /\ Lag /\ Recorded /\ RunningOK /\ Computed
    BY DEF IInv
  <2>3. /\ QueuesOK' /\ Lag' /\ Recorded'
        /\ CurFwd' = CurFwd /\ CurAt' = CurAt /\ SideFwd' = SideFwd /\ SideAt' = SideAt
        /\ Ids' = Ids /\ Cur("cur")' = Cur("cur") /\ Cur("side")' = Cur("side")
        /\ \A a, b \in 0 .. 12 : AtForward(a, b)' = AtForward(a, b)
    BY <2>1, <2>2, HeadsStay
  <2>4. RunningOK'
    BY <2>1, <2>2 DEF RunningOK, Pieces, Cur
  <2>5. SlabsFollow'
    BY <2>1, <2>2, <2>3 DEF SlabsFollow, ToCopy, Computed
  <2>6. \A k \in {1, 2} : \A i : RowDone(k, i)' => RowDone(k, i)
    BY <2>1, <2>3 DEF RowDone, HotDone, ColdDone, HotPast, HotNow, HotStream, Cur
  <2>7. RowsOfFirst' /\ RowsOfSecond'
    BY <2>1, <2>2, <2>3, <2>6 DEF RowsOfFirst, RowsOfSecond, Computed, Value
  <2>8. Computed'
    BY <2>1, <2>2, <2>5, <2>7, StillComputed
  <2> QED BY <2>3, <2>4, <2>8 DEF IInv
<1> QED BY <1>1, <1>2, Queues DEF LayerNext, HostIdle

LEMMA InvRight == IInv => OutputRight
<1> SUFFICES ASSUME IInv PROVE OutputRight
  OBVIOUS
<1>1. QueuesOK /\ Lag /\ RunningOK /\ Computed
  BY DEF IInv
<1>2. ASSUME NEW q \in Streams, q \in busy, Cur(q).op \in {"hot", "cold"},
             NEW i \in 1 .. Len(Cur(q).ids)
      PROVE  (hot[i] = None) # (cold[i] = None)
  <2>1. Cur(q).ids = Ids /\ CurAt \in 5 .. 11
    BY <1>1, <1>2, Runs
  <2>2. hot[i] = None <=> cold[i] # None
    BY <1>1, <1>2, <2>1, Sides
  <2> QED BY <2>2
<1> QED BY <1>1, <1>2 DEF OutputRight, Partitioned, Computed, LastOut

(* While either GEMM of a forward runs, every row is in exactly one        *)
(* alignment; and what the layer returns was computed, row by row and in   *)
(* both projections, for this forward and with the weights of the expert   *)
(* the router picked: for any number of experts, slots and rows, however   *)
(* far the host is ahead, with or without the side stream and the cache.   *)
THEOREM RightWeights == LayerSpec => []OutputRight
<1>1. LayerInit => IInv
  BY LayerInitInv
<1>2. IInv /\ [LayerNext]_layerVars => IInv'
  BY LayerStep
<1>3. IInv => OutputRight
  BY InvRight
<1> QED BY <1>1, <1>2, <1>3, PTL DEF LayerSpec

=============================================================================
