---------------------------- MODULE KernelProofs ----------------------------
(***************************************************************************)
(* Proofs about single kernels, and about what launches them: the block    *)
(* collectives, for every workgroup whose size is a power of two; the      *)
(* launch of a GEMM, for every shape and override; the packed heads, for   *)
(* every vocabulary and chunk; the row kernels, for every layout.          *)
(***************************************************************************)
EXTENDS BlockReduce, GemmLaunch, HeadWeights, RowKernels, RankingProofs, SequenceTheorems

----------------------------------------------------------------------------
(***************************************************************************)
(* Block collectives.  For every number of chunks that divides the         *)
(* workgroup, a collective returns to every thread what its name promises. *)
(*                                                                         *)
(* There is one formula per interval.  In a halving loop it speaks of the  *)
(* elements that are still to be folded in, whose sum or least member is   *)
(* the same in every state; in the scan, of the window of operands that an *)
(* element has taken in.                                                   *)
(***************************************************************************)

(* What halving NT leads through. *)
Halves == CHOOSE H \in SUBSET (1 .. NT) :
            NT \in H /\ \A k \in H : k = 1 \/ (k % 2 = 0 /\ k \div 2 \in H)

Calls == {"sum", "min", "scan", "scan2"}

TypesOK ==
  /\ input \in [Threads -> Nat] /\ call \in Calls \cup {"none"} /\ off \in Nat
  /\ interval \in {"put", "round", "read", "add", "chunks", "top", "get"}
  /\ ran \in SUBSET Threads
  /\ sh \in [Threads -> Nat] /\ sh2 \in [0 .. NCHUNK -> Nat] /\ reg \in [Threads -> Nat]
  /\ result \in [Threads -> Int] /\ total \in [Threads -> Int]

(* Which intervals belong to which collective. *)
Branch ==
  /\ call = "none" => interval = "get" /\ ran = Threads
  /\ interval = "round" => call \in {"sum", "min"}
  /\ interval \in {"read", "add"} => call = "scan"
  /\ interval \in {"chunks", "top"} => call = "scan2"

----------------------------------------------------------------------------
(* The intervals.                                                          *)

AtPut == \A t \in ran : sh[t] = input[t]

(* Elements not yet folded into another. *)
Live == {t \in Threads : t < off \/ (t < 2 * off /\ t - off \notin ran)}

HasLeast(T) ==
  /\ \A u \in Threads : \E t \in T : sh[t] <= input[u]
  /\ \A t \in T : \E u \in Threads : sh[t] = input[u]

AtRound ==
  /\ off \in Halves /\ 2 * off \in Halves
  /\ call = "sum" => SumFunctionOnSet(sh, Live) = InputSum(Threads)
  /\ call = "min" => HasLeast(Live)

(* The o operands up to t's. *)
Window(t, o) == {u \in Threads : t - o < u /\ u <= t}
Partner(t) == IF t >= off THEN InputSum(Window(t - off, off)) ELSE 0

AtRead ==
  /\ off \in 1 .. NT-1
  /\ \A t \in Threads : sh[t] = InputSum(Window(t, off))
  /\ \A t \in ran : reg[t] = Partner(t)

AtAdd ==
  /\ off \in 1 .. NT-1
  /\ \A t \in Threads : sh[t] = InputSum(Window(t, IF t \in ran THEN 2 * off ELSE off))
  /\ \A t \in Threads : reg[t] = Partner(t)

ChunkOf(t)  == t \div CHUNKW
Within(t)   == InputSum(ChunkOf(t) * CHUNKW .. t - 1)
ChunkSum(c) == InputSum(c * CHUNKW .. (c + 1) * CHUNKW - 1)
Before(c)   == InputSum(0 .. c * CHUNKW - 1)

AtChunks ==
  /\ \A t \in Threads : sh[t] = IF ChunkOf(t) \in ran THEN Within(t) ELSE input[t]
  /\ \A c \in 0 .. NCHUNK-1 : c \in ran => sh2[c] = ChunkSum(c)

AtTop ==
  /\ \A t \in Threads : sh[t] = Within(t)
  /\ IF 0 \in ran THEN \A c \in 0 .. NCHUNK : sh2[c] = Before(c)
                  ELSE \A c \in 0 .. NCHUNK-1 : sh2[c] = ChunkSum(c)

AtGet ==
  /\ call = "sum" => sh[0] = InputSum(Threads)
  /\ call = "min" => HasLeast({0})
  /\ call = "scan" => \A t \in Threads : sh[t] = InputSum(0 .. t)
  /\ call = "scan2" => /\ \A t \in Threads : sh[t] = Within(t)
                       /\ \A c \in 0 .. NCHUNK : sh2[c] = Before(c)

AtInterval ==
  /\ interval = "put"    => AtPut
  /\ interval = "round"  => AtRound
  /\ interval = "read"   => AtRead
  /\ interval = "add"    => AtAdd
  /\ interval = "chunks" => AtChunks
  /\ interval = "top"    => AtTop
  /\ interval = "get"    => AtGet

IInv == TypesOK /\ Branch /\ AtInterval /\ ResultRight

----------------------------------------------------------------------------
(* The workgroup, its halves and its chunks.                               *)

LEMMA HalvesFacts ==
  /\ Halves \in SUBSET (1 .. NT) /\ NT \in Halves
  /\ \A k \in Halves : k \in Nat \ {0} /\ k <= NT
                       /\ (k = 1 \/ (k % 2 = 0 /\ k \div 2 \in Halves /\ 2 * (k \div 2) = k))
<1>1. /\ Halves \in SUBSET (1 .. NT) /\ NT \in Halves
      /\ \A k \in Halves : k = 1 \/ (k % 2 = 0 /\ k \div 2 \in Halves)
  BY ReduceAssumption DEF PowerOfTwo, Halves
<1>2. \A k \in Nat : k % 2 = 0 => 2 * (k \div 2) = k
  OBVIOUS
<1>3. \A k \in Halves : k \in Nat \ {0} /\ k <= NT
  BY <1>1, ReduceAssumption
<1> QED BY <1>1, <1>2, <1>3

LEMMA Workgroup ==
  /\ IsFiniteSet(Threads) /\ Threads \subseteq Nat /\ 0 \in Threads
  /\ \A T \in SUBSET Threads : IsFiniteSet(T)
<1>1. IsFiniteSet(Threads)
  BY FS_Interval, ReduceAssumption DEF Threads
<1>2. \A T \in SUBSET Threads : IsFiniteSet(T)
  BY <1>1, FS_Subset
<1> QED BY <1>1, <1>2, ReduceAssumption DEF Threads

LEMMA ExactQuotient ==
  ASSUME NEW a \in Nat, NEW b \in Nat \ {0}, a % b = 0
  PROVE  a \div b \in Nat /\ a = (a \div b) * b
OBVIOUS

LEMMA ChunkFacts ==
  /\ CHUNKW \in Nat \ {0} /\ NCHUNK \in Nat \ {0} /\ NCHUNK <= NT /\ NT = NCHUNK * CHUNKW
  /\ \A t \in Threads : /\ ChunkOf(t) \in 0 .. NCHUNK-1
                        /\ ChunkOf(t) * CHUNKW <= t /\ t < (ChunkOf(t) + 1) * CHUNKW
                        /\ \A c \in 0 .. NCHUNK-1 :
                             t \in c * CHUNKW .. c * CHUNKW + CHUNKW - 1 <=> c = ChunkOf(t)
  /\ \A c \in Nat : c * CHUNKW \in Nat /\ (c + 1) * CHUNKW = c * CHUNKW + CHUNKW
  /\ \A c \in 0 .. NCHUNK : c * CHUNKW <= NT
<1> DEFINE w == CHUNKW
<1>0. NT \in Nat \ {0} /\ NCHUNK \in Nat \ {0} /\ NCHUNK <= NT
  BY ReduceAssumption
<1>1. w \in Nat /\ NT = w * NCHUNK
  <2>1. NT % NCHUNK = 0
    BY ReduceAssumption
  <2> QED BY <1>0, <2>1, ExactQuotient DEF CHUNKW
<1>2. w # 0
  <2> SUFFICES ASSUME w = 0 PROVE FALSE
    OBVIOUS
  <2>1. w * NCHUNK = 0
    BY <1>0
  <2> QED BY <1>0, <1>1, <2>1
<1> HIDE DEF w
<1>3. NT = NCHUNK * w
  BY <1>0, <1>1
<1>4. \A c \in Nat : c * w \in Nat /\ (c + 1) * w = c * w + w
  BY <1>1
<1>5. \A c \in 0 .. NCHUNK : c * w <= NT
  BY <1>0, <1>1, <1>3, ProductMonotone
<1>6. ASSUME NEW t \in Threads
      PROVE  /\ t \div w \in 0 .. NCHUNK-1
             /\ (t \div w) * w <= t /\ t < (t \div w + 1) * w
             /\ \A c \in 0 .. NCHUNK-1 : t \in c * w .. c * w + w - 1 <=> c = t \div w
  <2> DEFINE chunk == t \div w
  <2>1. t \in Nat /\ t < NT
    BY <1>0 DEF Threads
  <2>2. chunk \in Nat /\ chunk * w <= t /\ t < (chunk + 1) * w
    BY <1>1, <1>2, <2>1, QuotientBounds
  <2> HIDE DEF chunk
  <2>3. chunk < NCHUNK
    <3> SUFFICES ASSUME NCHUNK <= chunk PROVE FALSE
      BY <1>0, <2>2
    <3>1. NCHUNK * w <= chunk * w
      BY <1>0, <1>1, <2>2, ProductMonotone
    <3>2. chunk * w \in Nat /\ NCHUNK * w \in Nat
      BY <1>0, <1>1, <2>2
    <3> QED BY <1>3, <2>1, <2>2, <3>1, <3>2
  <2>4. ASSUME NEW c \in 0 .. NCHUNK-1, t \in c * w .. c * w + w - 1 PROVE c = chunk
    <3>0. c \in Nat /\ c * w \in Nat /\ chunk * w \in Nat /\ c * w <= t /\ t < c * w + w
      BY <1>0, <1>1, <1>4, <2>1, <2>2, <2>4
    <3>1. ~ (c + 1 <= chunk)
      <4> SUFFICES ASSUME c + 1 <= chunk PROVE FALSE
        OBVIOUS
      <4>1. (c + 1) * w <= chunk * w
        BY <1>1, <2>2, <3>0, ProductMonotone
      <4> QED BY <1>1, <1>4, <2>1, <2>2, <3>0, <4>1
    <3>2. ~ (chunk + 1 <= c)
      <4> SUFFICES ASSUME chunk + 1 <= c PROVE FALSE
        OBVIOUS
      <4>1. (chunk + 1) * w <= c * w
        BY <1>1, <2>2, <3>0, ProductMonotone
      <4> QED BY <1>1, <1>4, <2>1, <2>2, <3>0, <4>1
    <3> QED BY <2>2, <3>0, <3>1, <3>2
  <2>5. t \in chunk * w .. chunk * w + w - 1
    BY <1>1, <1>4, <2>1, <2>2
  <2>6. \A c \in 0 .. NCHUNK-1 : t \in c * w .. c * w + w - 1 <=> c = chunk
    BY <2>4, <2>5
  <2>7. chunk \in 0 .. NCHUNK-1
    BY <1>0, <2>2, <2>3
  <2> QED BY <2>2, <2>6, <2>7 DEF chunk
<1> QED BY <1>0, <1>1, <1>2, <1>3, <1>4, <1>5, <1>6 DEF w, ChunkOf

----------------------------------------------------------------------------
(* Sums of operands.                                                       *)

LEMMA InputSumType ==
  ASSUME TypesOK, NEW T \in SUBSET Threads
  PROVE  InputSum(T) \in Nat
BY SumIsSize, Workgroup DEF TypesOK, InputSum

LEMMA InputSumSplit ==
  ASSUME TypesOK, NEW V \in SUBSET Threads, NEW W \in SUBSET Threads, V \cap W = {}
  PROVE  InputSum(V \cup W) = InputSum(V) + InputSum(W)
<1>1. IsFiniteSet(V) /\ IsFiniteSet(W) /\ \A x \in V \cup W : input[x] \in Nat
  BY Workgroup DEF TypesOK
<1> QED BY <1>1, SumOfBoth DEF InputSum

LEMMA InputSumOne ==
  ASSUME TypesOK, NEW t \in Threads
  PROVE  InputSum({t}) = input[t] /\ InputSum({}) = 0
BY SumOfOne, SumOfNone DEF TypesOK, InputSum

(* Sums of operands are those of the call. *)
LEMMA SameInput ==
  ASSUME input' = input
  PROVE  /\ \A T : InputSum(T)' = InputSum(T)
         /\ \A t : Within(t)' = Within(t) /\ ChunkSum(t)' = ChunkSum(t) /\ Before(t)' = Before(t)
BY DEF InputSum, Within, ChunkSum, Before

----------------------------------------------------------------------------
(* The threads.                                                            *)

(* A thread of an interval before the last leaves every formula but its    *)
(* own alone.                                                              *)
LEMMA OwnInterval ==
  ASSUME IInv, NEW t \in Threads, NEW p, Thread(p, t), p # "get",
         input' = input, call' = call, interval' = interval, TypesOK',
         (interval = "put"    /\ AtPut    => AtPut'),
         (interval = "round"  /\ AtRound  => AtRound'),
         (interval = "read"   /\ AtRead   => AtRead'),
         (interval = "add"    /\ AtAdd    => AtAdd'),
         (interval = "chunks" /\ AtChunks => AtChunks'),
         (interval = "top"    /\ AtTop    => AtTop')
  PROVE  IInv'
<1>1. interval' # "get" /\ call # "none"
  BY DEF Thread, IInv, Branch
<1> QED BY <1>1 DEF IInv, Branch, AtInterval, ResultRight

LEMMA PutStep ==
  ASSUME IInv, NEW t \in Threads, Put(t)
  PROVE  IInv'
<1>1. TypesOK'
  BY DEF IInv, TypesOK, Put, Thread
<1>2. AtPut => AtPut'
  BY DEF IInv, TypesOK, AtPut, Put, Thread
<1>3. interval = "put"
  BY DEF Put, Thread
<1> QED BY <1>1, <1>2, <1>3, OwnInterval DEF Put

(* What a thread folds in is no longer live. *)
LEMMA FoldLive ==
  ASSUME IInv, AtRound, NEW t \in Threads, Fold(t)
  PROVE  /\ t >= off => Live' = Live
         /\ t < off => /\ t + off \in Live /\ t \in Live /\ t # t + off
                       /\ Live' = Live \ {t + off}
<1>1. off \in Nat \ {0} /\ 2 * off <= NT /\ off' = off /\ ran' = ran \cup {t} /\ t \notin ran
  BY HalvesFacts DEF AtRound, Fold, Thread
<1>2. t \in Nat /\ \A u \in Threads : u \in Nat /\ u < NT
  BY ReduceAssumption DEF Threads
<1>3. CASE t >= off
  <2>1. \A u \in Threads : u < 2 * off => u - off # t
    BY <1>1, <1>2, <1>3
  <2> QED BY <1>1, <1>2, <1>3, <2>1 DEF Live
<1>4. CASE t < off
  <2>1. t + off \in Threads /\ t + off < 2 * off /\ ~ (t + off < off) /\ (t + off) - off = t
    BY <1>1, <1>2, <1>4, ReduceAssumption DEF Threads
  <2>2. t + off \in Live /\ t \in Live
    BY <1>1, <1>4, <2>1 DEF Live
  <2>3. \A u \in Threads : u - off = t <=> u = t + off
    BY <1>1, <1>2
  <2>4. Live' = Live \ {t + off}
    BY <1>1, <1>2, <2>1, <2>3 DEF Live
  <2> QED BY <1>1, <1>2, <1>4, <2>2, <2>4
<1> QED BY <1>1, <1>2, <1>3, <1>4

(* A fold keeps the sum over what is live. *)
LEMMA FoldSum ==
  ASSUME IInv, AtRound, NEW t \in Threads, Fold(t), call = "sum"
  PROVE  SumFunctionOnSet(sh', Live') = SumFunctionOnSet(sh, Live)
<1>1. CASE t >= off
  <2>1. sh' = sh
    BY <1>1, Workgroup DEF Fold, IInv, TypesOK
  <2> QED BY <1>1, <2>1, FoldLive
<1>2. CASE t < off
  <2> DEFINE v == t + off
             rest == Live \ {t, v}
  <2>1. v \in Live /\ t \in Live /\ t # v /\ Live' = Live \ {v}
    BY <1>2, FoldLive
  <2>2. /\ sh' = [sh EXCEPT ![t] = sh[t] + sh[v]]
        /\ sh \in [Threads -> Nat] /\ sh' \in [Threads -> Nat]
    BY <1>2, <2>1 DEF Fold, IInv, TypesOK, Live
  <2>3. /\ Live \subseteq Threads /\ rest \in SUBSET Threads /\ t \in Threads /\ v \in Threads
        /\ t \notin rest /\ v \notin rest
        /\ Live = (rest \cup {t}) \cup {v} /\ Live' = rest \cup {t}
    BY <2>1 DEF Live
  <2>4. /\ IsFiniteSet(rest) /\ IsFiniteSet({t}) /\ IsFiniteSet({v}) /\ IsFiniteSet(rest \cup {t})
    BY <2>3, Workgroup
  <2> HIDE DEF rest, v
  <2>5. SumFunctionOnSet(sh', rest) = SumFunctionOnSet(sh, rest)
    <3>1. \A x \in rest : sh'[x] \in Nat /\ sh'[x] = sh[x]
      BY <2>2, <2>3
    <3> QED BY <2>4, <3>1, SumOfSame
  <2>6. SumFunctionOnSet(sh', rest \cup {t}) = SumFunctionOnSet(sh', rest) + SumFunctionOnSet(sh', {t})
    <3>1. rest \cap {t} = {} /\ \A x \in rest \cup {t} : sh'[x] \in Nat
      BY <2>2, <2>3
    <3> QED BY <2>4, <3>1, SumOfBoth
  <2>7. SumFunctionOnSet(sh, rest \cup {t}) = SumFunctionOnSet(sh, rest) + SumFunctionOnSet(sh, {t})
    <3>1. rest \cap {t} = {} /\ \A x \in rest \cup {t} : sh[x] \in Nat
      BY <2>2, <2>3
    <3> QED BY <2>4, <3>1, SumOfBoth
  <2>8. SumFunctionOnSet(sh, Live)
          = SumFunctionOnSet(sh, rest \cup {t}) + SumFunctionOnSet(sh, {v})
    <3>1. (rest \cup {t}) \cap {v} = {} /\ \A x \in (rest \cup {t}) \cup {v} : sh[x] \in Nat
      BY <2>1, <2>2, <2>3
    <3> QED BY <2>3, <2>4, <3>1, SumOfBoth
  <2>9. /\ SumFunctionOnSet(sh', {t}) = sh[t] + sh[v]
        /\ SumFunctionOnSet(sh, {t}) = sh[t] /\ SumFunctionOnSet(sh, {v}) = sh[v]
        /\ sh[t] \in Nat /\ sh[v] \in Nat
    <3>1. sh'[t] = sh[t] + sh[v] /\ sh'[t] \in Nat /\ sh[t] \in Nat /\ sh[v] \in Nat
      BY <2>2, <2>3
    <3> QED BY <3>1, SumOfOne
  <2>10. SumFunctionOnSet(sh, rest) \in Nat
    BY <2>2, <2>3, <2>4, SumIsSize
  <2> QED BY <2>3, <2>5, <2>6, <2>7, <2>8, <2>9, <2>10
<1>3. t >= off \/ t < off
  BY Workgroup DEF IInv, TypesOK
<1> QED BY <1>1, <1>2, <1>3

(* And the least. *)
LEMMA FoldLeast ==
  ASSUME IInv, AtRound, NEW t \in Threads, Fold(t), call = "min"
  PROVE  HasLeast(Live)'
<1>0. HasLeast(Live) /\ input' = input
  BY DEF AtRound, Fold
<1>1. CASE t >= off
  <2>1. sh' = sh
    BY <1>1, Workgroup DEF Fold, IInv, TypesOK
  <2> QED BY <1>0, <1>1, <2>1, FoldLive DEF HasLeast
<1>2. CASE t < off
  <2> DEFINE v == t + off
  <2>1. v \in Live /\ t \in Live /\ t # v /\ Live' = Live \ {v}
    BY <1>2, FoldLive
  <2>2. /\ sh' = [sh EXCEPT ![t] = Min({sh[t], sh[v]})]
        /\ sh \in [Threads -> Nat] /\ input \in [Threads -> Nat]
    BY <1>2 DEF Fold, IInv, TypesOK
  <2>3. t \in Threads /\ v \in Threads /\ Live \subseteq Threads
    BY <2>1 DEF Live
  <2> HIDE DEF v
  <2>4. /\ Min({sh[t], sh[v]}) \in {sh[t], sh[v]}
        /\ Min({sh[t], sh[v]}) <= sh[t] /\ Min({sh[t], sh[v]}) <= sh[v]
    <3>1. {sh[t], sh[v]} \in SUBSET Nat /\ {sh[t], sh[v]} # {}
      BY <2>2, <2>3
    <3> QED BY <3>1, MinIsLeast
  <2>5. /\ sh'[t] \in {sh[t], sh[v]} /\ sh'[t] <= sh[t] /\ sh'[t] <= sh[v]
        /\ \A x \in Live' : x # t => sh'[x] = sh[x] /\ x \in Live
        /\ \A x \in Live : x # v => x \in Live'
    BY <2>1, <2>2, <2>3, <2>4
  <2>6. ASSUME NEW u \in Threads PROVE \E x \in Live' : sh'[x] <= input[u]
    <3>1. PICK x \in Live : sh[x] <= input[u]
      BY <1>0 DEF HasLeast
    <3>2. CASE x = t \/ x = v
      <4>1. sh'[t] <= sh[x] /\ sh'[t] \in Nat /\ sh[x] \in Nat /\ input[u] \in Nat
        BY <2>2, <2>3, <2>5, <3>1, <3>2
      <4> QED BY <2>1, <2>5, <3>1, <4>1
    <3>3. CASE x # t /\ x # v
      BY <2>5, <3>1, <3>3
    <3> QED BY <3>2, <3>3
  <2>7. ASSUME NEW x \in Live' PROVE \E u \in Threads : sh'[x] = input[u]
    <3>1. CASE x = t
      BY <1>0, <2>1, <2>5, <3>1 DEF HasLeast
    <3>2. CASE x # t
      BY <1>0, <2>5, <3>2 DEF HasLeast
    <3> QED BY <3>1, <3>2
  <2> QED BY <1>0, <2>6, <2>7 DEF HasLeast
<1>3. t >= off \/ t < off
  BY Workgroup DEF IInv, TypesOK
<1> QED BY <1>1, <1>2, <1>3

LEMMA FoldStep ==
  ASSUME IInv, NEW t \in Threads, Fold(t)
  PROVE  IInv'
<1>1. interval = "round" /\ AtRound /\ call \in {"sum", "min"}
  BY DEF Fold, Thread, IInv, Branch, AtInterval
<1>2. sh' \in [Threads -> Nat]
  <2>1. CASE t >= off
    BY <2>1, Workgroup DEF Fold, IInv, TypesOK
  <2>2. CASE t < off
    <3>1. t + off \in Threads
      BY <1>1, <2>2, FoldLive DEF Live
    <3>2. sh[t] + sh[t + off] \in Nat /\ {sh[t], sh[t + off]} \in SUBSET Nat
      BY <3>1 DEF IInv, TypesOK
    <3>3. Min({sh[t], sh[t + off]}) \in Nat
      BY <3>2, MinIsLeast
    <3> QED BY <2>2, <3>2, <3>3 DEF Fold, IInv, TypesOK
  <2>3. t >= off \/ t < off
    BY Workgroup DEF IInv, TypesOK
  <2> QED BY <2>1, <2>2, <2>3
<1>3. TypesOK'
  BY <1>2 DEF IInv, TypesOK, Fold, Thread
<1>4. AtRound'
  <2>1. call = "sum" => SumFunctionOnSet(sh', Live') = InputSum(Threads)'
    BY <1>1, FoldSum, SameInput DEF AtRound, Fold
  <2>2. call = "min" => HasLeast(Live)'
    BY <1>1, FoldLeast
  <2> QED BY <1>1, <2>1, <2>2 DEF AtRound, Fold
<1> QED BY <1>1, <1>3, <1>4, OwnInterval DEF Fold

LEMMA ReadStep ==
  ASSUME IInv, NEW t \in Threads, ReadPartner(t)
  PROVE  IInv'
<1>1. interval = "read" /\ AtRead
  BY DEF ReadPartner, Thread, IInv, AtInterval
<1>2. t >= off => t - off \in Threads
  BY <1>1, ReduceAssumption DEF AtRead, Threads
<1>3. TypesOK'
  BY <1>2 DEF IInv, TypesOK, ReadPartner, Thread
<1>4. AtRead'
  <2>1. reg'[t] = Partner(t)
    BY <1>1, <1>2 DEF ReadPartner, AtRead, Partner, IInv, TypesOK
  <2>2. \A u \in ran' : reg'[u] = Partner(u)
    BY <1>1, <2>1 DEF ReadPartner, AtRead, Thread, IInv, TypesOK
  <2>3. \A u : Partner(u)' = Partner(u)
    BY SameInput DEF ReadPartner, Partner, Window
  <2>4. \A u \in Threads : InputSum(Window(u, off))' = InputSum(Window(u, off))
    BY SameInput DEF ReadPartner, Window
  <2> QED BY <1>1, <2>2, <2>3, <2>4 DEF ReadPartner, AtRead
<1> QED BY <1>1, <1>3, <1>4, OwnInterval DEF ReadPartner

(* A window and its partner's make a window of twice the width. *)
LEMMA WiderWindow ==
  ASSUME IInv, off \in 1 .. NT-1, NEW t \in Threads
  PROVE  InputSum(Window(t, 2 * off)) = InputSum(Window(t, off)) + Partner(t)
<1>1. /\ t \in Nat /\ off \in Nat \ {0} /\ \A u \in Threads : u \in Nat
      /\ Window(t, off) \in SUBSET Threads /\ Window(t - off, off) \in SUBSET Threads
  BY ReduceAssumption DEF Threads, Window
<1>2. CASE t >= off
  <2>1. Window(t, 2 * off) = Window(t, off) \cup Window(t - off, off)
    <3>1. \A u \in Threads : (t - 2 * off < u /\ u <= t)
                               <=> ((t - off < u /\ u <= t) \/ ((t - off) - off < u /\ u <= t - off))
      BY <1>1
    <3> QED BY <3>1 DEF Window
  <2>2. Window(t, off) \cap Window(t - off, off) = {}
    <3>1. \A u \in Threads : ~ (t - off < u /\ u <= t - off)
      BY <1>1
    <3> QED BY <3>1 DEF Window
  <2> QED BY <1>1, <1>2, <2>1, <2>2, InputSumSplit DEF Partner, IInv
<1>3. CASE ~ (t >= off)
  <2>1. Window(t, 2 * off) = Window(t, off)
    <3>1. \A u \in Threads : t - off < u /\ t - 2 * off < u
      BY <1>1, <1>3
    <3> QED BY <3>1 DEF Window
  <2>2. InputSum(Window(t, off)) \in Nat
    BY <1>1, InputSumType DEF IInv
  <2> QED BY <1>3, <2>1, <2>2 DEF Partner
<1> QED BY <1>2, <1>3

LEMMA AddStep ==
  ASSUME IInv, NEW t \in Threads, AddPartner(t)
  PROVE  IInv'
<1>1. interval = "add" /\ AtAdd /\ t \notin ran
  BY DEF AddPartner, Thread, IInv, AtInterval
<1>2. TypesOK'
  BY DEF IInv, TypesOK, AddPartner, Thread
<1>3. AtAdd'
  <2>1. sh'[t] = InputSum(Window(t, 2 * off))
    <3>1. sh[t] = InputSum(Window(t, off)) /\ reg[t] = Partner(t) /\ off \in 1 .. NT-1
      BY <1>1 DEF AtAdd
    <3>2. sh'[t] = sh[t] + reg[t]
      BY DEF AddPartner, IInv, TypesOK
    <3> QED BY <3>1, <3>2, WiderWindow
  <2>2. \A u \in Threads : sh'[u] = InputSum(Window(u, IF u \in ran' THEN 2 * off ELSE off))
    BY <1>1, <2>1 DEF AddPartner, AtAdd, Thread, IInv, TypesOK
  <2>3. \A u : Partner(u)' = Partner(u)
    BY SameInput DEF AddPartner, Partner, Window
  <2>4. \A u, o : InputSum(Window(u, o))' = InputSum(Window(u, o))
    BY SameInput DEF AddPartner, Window
  <2> QED BY <1>1, <2>2, <2>3, <2>4 DEF AddPartner, AtAdd
<1> QED BY <1>1, <1>2, <1>3, OwnInterval DEF AddPartner

(* A thread's chunk: the operands are still where they were put. *)
LEMMA ScanStep ==
  ASSUME IInv, NEW t \in Threads, ScanChunk(t)
  PROVE  IInv'
<1>1. interval = "chunks" /\ AtChunks /\ TypesOK /\ t \notin ran /\ ran' = ran \cup {t}
  BY DEF ScanChunk, Thread, IInv, AtInterval
<1>2. input' = input /\ call' = call /\ interval' = interval /\ Thread("chunks", t)
  BY DEF ScanChunk
<1>3. CASE t < NCHUNK
  <2> DEFINE lo == t * CHUNKW
             mine == lo .. lo + CHUNKW - 1
  <2>1. /\ lo \in Nat /\ CHUNKW \in Nat \ {0} /\ t \in 0 .. NCHUNK-1
        /\ (t + 1) * CHUNKW = lo + CHUNKW /\ lo + CHUNKW <= NT
    <3>1. t \in Nat /\ t \in 0 .. NCHUNK-1 /\ t + 1 \in 0 .. NCHUNK
      BY <1>3, ChunkFacts, ReduceAssumption DEF Threads
    <3> QED BY <3>1, ChunkFacts
  <2>2. mine \subseteq Threads
    BY <2>1, ReduceAssumption DEF Threads
  <2>3. \A i \in Threads : i \in mine <=> ChunkOf(i) = t
    BY <2>1, ChunkFacts
  <2> HIDE DEF lo
  <2>4. \A i \in mine : sh[i] = input[i] /\ sh[i] \in Nat
    BY <1>1, <2>2, <2>3 DEF AtChunks, TypesOK
  <2>5. ASSUME NEW i \in Int, i <= lo + CHUNKW - 1
        PROVE  SumOf(lo, i) = InputSum(lo .. i)
    <3>1. lo .. i \subseteq mine
      BY <2>1, <2>5
    <3>2. IsFiniteSet(lo .. i)
      BY <2>2, <3>1, Workgroup
    <3>3. \A x \in lo .. i : sh[x] \in Nat /\ sh[x] = input[x]
      BY <2>4, <3>1
    <3>4. SumFunctionOnSet(sh, lo .. i) = SumFunctionOnSet(input, lo .. i)
      BY <3>2, <3>3, SumOfSame
    <3> QED BY <3>4 DEF SumOf, InputSum
  <2>6. /\ sh' = [i \in Threads |-> IF i \in mine THEN SumOf(lo, i - 1) ELSE sh[i]]
        /\ sh2' = [sh2 EXCEPT ![t] = SumOf(lo, lo + CHUNKW - 1)]
    BY <1>3 DEF ScanChunk, lo
  <2>7. \A i \in mine : SumOf(lo, i - 1) = Within(i) /\ SumOf(lo, i - 1) \in Nat
    <3> TAKE i \in mine
    <3>1. i - 1 \in Int /\ i - 1 <= lo + CHUNKW - 1 /\ lo .. i - 1 \in SUBSET Threads
      BY <2>1, <2>2
    <3>2. Within(i) = InputSum(lo .. i - 1)
      BY <2>2, <2>3 DEF Within, lo
    <3>3. InputSum(lo .. i - 1) \in Nat
      BY <1>1, <3>1, InputSumType
    <3> QED BY <2>5, <3>1, <3>2, <3>3
  <2>8. SumOf(lo, lo + CHUNKW - 1) = ChunkSum(t) /\ SumOf(lo, lo + CHUNKW - 1) \in Nat
    <3>1. lo + CHUNKW - 1 \in Int /\ lo + CHUNKW - 1 <= lo + CHUNKW - 1
      BY <2>1
    <3>2. ChunkSum(t) = InputSum(mine)
      BY <2>1 DEF ChunkSum, lo
    <3>3. InputSum(mine) \in Nat
      BY <1>1, <2>2, InputSumType
    <3> QED BY <2>5, <3>1, <3>2, <3>3
  <2>9. TypesOK'
    <3>1. sh' \in [Threads -> Nat]
      BY <1>1, <2>6, <2>7 DEF TypesOK
    <3>2. sh2' \in [0 .. NCHUNK -> Nat]
      BY <1>1, <2>1, <2>6, <2>8 DEF TypesOK
    <3> QED BY <1>1, <1>2, <3>1, <3>2 DEF TypesOK, ScanChunk
  <2>10. AtChunks'
    <3>1. \A i \in Threads : sh'[i] = IF ChunkOf(i) \in ran' THEN Within(i) ELSE input[i]
      BY <1>1, <2>3, <2>6, <2>7 DEF AtChunks
    <3>2. \A c \in 0 .. NCHUNK-1 : c \in ran' => sh2'[c] = ChunkSum(c)
      <4> TAKE c \in 0 .. NCHUNK-1
      <4>1. c \in 0 .. NCHUNK /\ t \in 0 .. NCHUNK
        BY <2>1, ChunkFacts
      <4>2. sh2'[c] = IF c = t THEN SumOf(lo, lo + CHUNKW - 1) ELSE sh2[c]
        BY <1>1, <2>6, <4>1 DEF TypesOK
      <4> QED BY <1>1, <2>8, <4>2 DEF AtChunks
    <3> QED BY <1>2, <3>1, <3>2, SameInput DEF AtChunks, ChunkOf
  <2> QED BY <1>1, <1>2, <2>9, <2>10, OwnInterval
<1>4. CASE ~ (t < NCHUNK)
  <2>1. sh' = sh /\ sh2' = sh2
    BY <1>4 DEF ScanChunk
  <2>2. TypesOK'
    BY <1>1, <1>2, <2>1 DEF TypesOK, ScanChunk
  <2>3. \A i \in Threads : ChunkOf(i) # t
    BY <1>4, ChunkFacts
  <2>4. \A c \in 0 .. NCHUNK-1 : c # t
    BY <1>4, ChunkFacts
  <2>5. AtChunks'
    BY <1>1, <1>2, <2>1, <2>3, <2>4, SameInput DEF AtChunks, ChunkOf
  <2> QED BY <1>1, <1>2, <2>2, <2>5, OwnInterval
<1> QED BY <1>3, <1>4

(* The totals of the chunks before c add up to all operands before it. *)
LEMMA ChunksAddUp ==
  ASSUME TypesOK, \A c \in 0 .. NCHUNK-1 : sh2[c] = ChunkSum(c)
  PROVE  \A c \in 0 .. NCHUNK : SumFunctionOnSet(sh2, 0 .. c-1) = Before(c)
<1> DEFINE T == {c \in Nat : c <= NCHUNK => SumFunctionOnSet(sh2, 0 .. c-1) = Before(c)}
<1>1. 0 \in T
  <2>1. 0 .. 0 - 1 = {} /\ 0 * CHUNKW = 0
    BY ChunkFacts
  <2>2. SumFunctionOnSet(sh2, {}) = 0 /\ InputSum({}) = 0
    BY SumOfNone DEF InputSum
  <2> QED BY <2>1, <2>2 DEF Before
<1>2. ASSUME NEW c \in Nat, c \in T PROVE c + 1 \in T
  <2> SUFFICES ASSUME c + 1 <= NCHUNK
               PROVE  SumFunctionOnSet(sh2, 0 .. (c + 1) - 1) = Before(c + 1)
    OBVIOUS
  <2>1. c \in 0 .. NCHUNK-1 /\ c <= NCHUNK
    BY ChunkFacts
  <2>2. SumFunctionOnSet(sh2, 0 .. c-1) = Before(c)
    BY <1>2, <2>1
  <2>3. SumFunctionOnSet(sh2, 0 .. (c + 1) - 1) = SumFunctionOnSet(sh2, 0 .. c-1) + sh2[c]
    <3>1. 0 .. (c + 1) - 1 = (0 .. c-1) \cup {c} /\ (0 .. c-1) \cap {c} = {}
      OBVIOUS
    <3>2. IsFiniteSet(0 .. c-1) /\ IsFiniteSet({c})
      <4>1. 0 \in Int /\ c-1 \in Int
        OBVIOUS
      <4> QED BY <4>1, FS_Interval, FS_Singleton
    <3>3. \A x \in (0 .. c-1) \cup {c} : sh2[x] \in Nat
      <4>1. (0 .. c-1) \cup {c} \subseteq 0 .. NCHUNK
        BY <2>1, ChunkFacts
      <4> QED BY <4>1 DEF TypesOK
    <3>4. SumFunctionOnSet(sh2, (0 .. c-1) \cup {c})
            = SumFunctionOnSet(sh2, 0 .. c-1) + SumFunctionOnSet(sh2, {c})
      BY <3>1, <3>2, <3>3, SumOfBoth
    <3>5. SumFunctionOnSet(sh2, {c}) = sh2[c]
      BY <3>3, SumOfOne
    <3> QED BY <3>1, <3>4, <3>5
  <2>4. Before(c + 1) = Before(c) + ChunkSum(c)
    <3> DEFINE a == c * CHUNKW
               b == (c + 1) * CHUNKW
    <3>1. a \in Nat /\ b \in Nat /\ b = a + CHUNKW /\ CHUNKW \in Nat /\ b <= NT
      <4>1. c + 1 \in 0 .. NCHUNK /\ c \in Nat
        BY <2>1, ChunkFacts
      <4> QED BY <4>1, ChunkFacts
    <3> HIDE DEF a, b
    <3>2. /\ 0 .. b - 1 = (0 .. a - 1) \cup (a .. b - 1)
          /\ (0 .. a - 1) \cap (a .. b - 1) = {}
          /\ 0 .. a - 1 \in SUBSET Threads /\ a .. b - 1 \in SUBSET Threads
      BY <3>1, ReduceAssumption DEF Threads
    <3>3. InputSum(0 .. b - 1) = InputSum(0 .. a - 1) + InputSum(a .. b - 1)
      BY <3>2, InputSumSplit
    <3> QED BY <3>3 DEF Before, ChunkSum, a, b
  <2> QED BY <2>1, <2>2, <2>3, <2>4
<1>3. Nat \subseteq T
  <2> HIDE DEF T
  <2> QED BY <1>1, <1>2, NatSetInduction
<1> QED BY <1>3, ChunkFacts

LEMMA TotalsStep ==
  ASSUME IInv, NEW t \in Threads, ScanTotals(t)
  PROVE  IInv'
<1>1. interval = "top" /\ AtTop /\ TypesOK /\ t \notin ran /\ ran' = ran \cup {t}
  BY DEF ScanTotals, Thread, IInv, AtInterval
<1>2. /\ input' = input /\ call' = call /\ interval' = interval /\ sh' = sh
      /\ Thread("top", t)
  BY DEF ScanTotals
<1>3. CASE t = 0
  <2>1. \A c \in 0 .. NCHUNK : SumFunctionOnSet(sh2, 0 .. c-1) = Before(c)
    BY <1>1, <1>3, ChunksAddUp DEF AtTop
  <2>2. sh2' = [c \in 0 .. NCHUNK |-> SumFunctionOnSet(sh2, 0 .. c-1)]
    BY <1>3 DEF ScanTotals
  <2>3. \A c \in 0 .. NCHUNK : Before(c) \in Nat
    <3> TAKE c \in 0 .. NCHUNK
    <3>1. c * CHUNKW \in Nat /\ c * CHUNKW <= NT
      BY ChunkFacts
    <3>2. 0 .. c * CHUNKW - 1 \in SUBSET Threads
      BY <3>1, ReduceAssumption DEF Threads
    <3> QED BY <1>1, <3>2, InputSumType DEF Before
  <2>4. TypesOK'
    BY <1>1, <1>2, <2>1, <2>2, <2>3 DEF TypesOK, ScanTotals
  <2>5. \A c \in 0 .. NCHUNK : sh2'[c] = Before(c)
    BY <2>1, <2>2
  <2>6. AtTop'
    BY <1>1, <1>2, <1>3, <2>5, SameInput DEF AtTop
  <2> QED BY <1>1, <1>2, <2>4, <2>6, OwnInterval
<1>4. CASE t # 0
  <2>1. sh2' = sh2
    BY <1>4 DEF ScanTotals
  <2>2. TypesOK'
    BY <1>1, <1>2, <2>1 DEF TypesOK, ScanTotals
  <2>3. AtTop'
    BY <1>1, <1>2, <1>4, <2>1, SameInput DEF AtTop
  <2> QED BY <1>1, <1>2, <2>2, <2>3, OwnInterval
<1> QED BY <1>3, <1>4

----------------------------------------------------------------------------
(* The results.                                                            *)

(* The operands before t, and all of them.                                 *)
LEMMA UpTo ==
  ASSUME TypesOK, NEW t \in Threads
  PROVE  /\ {u \in Threads : u < t} = 0 .. t - 1 /\ 0 .. t \in SUBSET Threads
         /\ InputSum(0 .. t) = InputSum(0 .. t - 1) + input[t]
         /\ InputSum(0 .. t - 1) \in Nat
<1>1. t \in Nat /\ t < NT
  BY ReduceAssumption DEF Threads
<1>2. /\ {u \in Threads : u < t} = 0 .. t - 1
      /\ 0 .. t = (0 .. t - 1) \cup {t} /\ (0 .. t - 1) \cap {t} = {}
      /\ 0 .. t - 1 \in SUBSET Threads /\ {t} \in SUBSET Threads
  BY <1>1, ReduceAssumption DEF Threads
<1>3. InputSum((0 .. t - 1) \cup {t}) = InputSum(0 .. t - 1) + InputSum({t})
  BY <1>2, InputSumSplit
<1>4. InputSum(0 .. t - 1) \in Nat
  BY <1>2, InputSumType
<1> QED BY <1>2, <1>3, <1>4, InputSumOne

(* The total of the chunks before t's and what is before t in its own.     *)
LEMMA TwoLevels ==
  ASSUME TypesOK, NEW t \in Threads
  PROVE  /\ InputSum(0 .. t - 1) = Within(t) + Before(ChunkOf(t))
         /\ Within(t) \in Nat /\ Before(ChunkOf(t)) \in Nat
         /\ Before(NCHUNK) = InputSum(Threads)
<1> DEFINE a == ChunkOf(t) * CHUNKW
<1>1. t \in Nat /\ t < NT /\ a \in Nat /\ a <= t
  BY ChunkFacts, ReduceAssumption DEF Threads
<1> HIDE DEF a
<1>2. /\ 0 .. t - 1 = (a .. t - 1) \cup (0 .. a - 1) /\ (a .. t - 1) \cap (0 .. a - 1) = {}
      /\ a .. t - 1 \in SUBSET Threads /\ 0 .. a - 1 \in SUBSET Threads
  BY <1>1, ReduceAssumption DEF Threads
<1>3. /\ InputSum(0 .. t - 1) = InputSum(a .. t - 1) + InputSum(0 .. a - 1)
      /\ InputSum(a .. t - 1) \in Nat /\ InputSum(0 .. a - 1) \in Nat
  BY <1>2, InputSumSplit, InputSumType
<1>4. 0 .. NCHUNK * CHUNKW - 1 = Threads
  BY ChunkFacts DEF Threads
<1> QED BY <1>3, <1>4 DEF Within, Before, a

LEMMA LeastIsMin ==
  ASSUME TypesOK, HasLeast({0})
  PROVE  sh[0] = Min({input[u] : u \in Threads})
<1> DEFINE X == {input[u] : u \in Threads}
<1>1. X \in SUBSET Nat /\ sh[0] \in X /\ \A x \in X : sh[0] <= x
  BY Workgroup DEF TypesOK, HasLeast
<1> HIDE DEF X
<1>2. Min(X) \in X /\ Min(X) <= sh[0] /\ sh[0] <= Min(X)
  BY <1>1, MinIsLeast
<1>3. \A x \in X : x \in Nat
  BY <1>1
<1>4. sh[0] \in Nat /\ Min(X) \in Nat
  BY <1>1, <1>2, <1>3
<1> QED BY <1>2, <1>4 DEF X

(* What the last interval finds in shared memory is what it returns. *)
LEMMA GetStep ==
  ASSUME IInv, NEW t \in Threads, Get(t)
  PROVE  IInv'
<1>1. /\ interval = "get" /\ AtGet /\ TypesOK /\ t \notin ran /\ ran' = ran \cup {t}
      /\ call \in Calls
  BY DEF Get, Thread, IInv, AtInterval, Branch, TypesOK
<1>2. /\ input' = input /\ call' = call /\ interval' = interval /\ sh' = sh /\ sh2' = sh2
  BY DEF Get
<1>3. /\ NT - 1 \in Threads /\ ChunkOf(t) \in 0 .. NCHUNK /\ NCHUNK \in 0 .. NCHUNK
      /\ 0 .. NT - 1 = Threads
  BY ChunkFacts, ReduceAssumption DEF Threads
<1> DEFINE res == CASE call \in {"sum", "min"} -> sh[0]
                    [] call = "scan"           -> sh[t] - input[t]
                    [] call = "scan2"          -> sh[t] + sh2[t \div CHUNKW]
           all == CASE call \in {"sum", "min"} -> total[t]
                    [] call = "scan"           -> sh[NT - 1]
                    [] call = "scan2"          -> sh2[NCHUNK]
<1>4. /\ res \in Int /\ all \in Int
      /\ call = "sum" => res = InputSum(Threads)
      /\ call = "min" => res = Min({input[u] : u \in Threads})
      /\ call \in {"scan", "scan2"} => /\ res = InputSum({u \in Threads : u < t})
                                       /\ all = InputSum(Threads)
  <2>1. CASE call \in {"sum", "min"}
    <3>1. res = sh[0] /\ all = total[t] /\ sh[0] \in Nat /\ total[t] \in Int
      BY <1>1, <2>1, Workgroup DEF TypesOK
    <3>2. /\ call = "sum" => res = InputSum(Threads)
          /\ call = "min" => res = Min({input[u] : u \in Threads})
      BY <1>1, <3>1, LeastIsMin DEF AtGet
    <3> HIDE DEF res, all
    <3> QED BY <2>1, <3>1, <3>2
  <2>2. CASE call = "scan"
    <3>1. res = sh[t] - input[t] /\ all = sh[NT - 1]
      BY <2>2
    <3>2. sh[t] = InputSum(0 .. t) /\ sh[NT - 1] = InputSum(Threads)
      BY <1>1, <1>3, <2>2 DEF AtGet
    <3>3. /\ InputSum(0 .. t) = InputSum(0 .. t - 1) + input[t] /\ InputSum(0 .. t - 1) \in Nat
          /\ {u \in Threads : u < t} = 0 .. t - 1 /\ input[t] \in Nat /\ sh[NT - 1] \in Nat
      BY <1>1, <1>3, UpTo DEF TypesOK
    <3> HIDE DEF res, all
    <3>4. res = InputSum({u \in Threads : u < t})
      <4>1. sh[t] - input[t] = InputSum(0 .. t - 1)
        BY <3>2, <3>3
      <4> QED BY <3>1, <3>3, <4>1
    <3>5. res \in Int /\ all \in Int /\ all = InputSum(Threads)
      BY <3>1, <3>2, <3>3, <3>4
    <3> QED BY <2>2, <3>4, <3>5
  <2>3. CASE call = "scan2"
    <3>1. res = sh[t] + sh2[ChunkOf(t)] /\ all = sh2[NCHUNK]
      BY <2>3 DEF ChunkOf
    <3>2. sh[t] = Within(t) /\ sh2[ChunkOf(t)] = Before(ChunkOf(t)) /\ sh2[NCHUNK] = Before(NCHUNK)
      BY <1>1, <1>3, <2>3 DEF AtGet
    <3>3. {u \in Threads : u < t} = 0 .. t - 1 /\ InputSum(0 .. t - 1) \in Nat
      BY <1>1, UpTo
    <3> HIDE DEF res, all
    <3>4. res = InputSum({u \in Threads : u < t}) /\ all = InputSum(Threads)
      BY <1>1, <3>1, <3>2, <3>3, TwoLevels
    <3>5. sh2[NCHUNK] \in Nat
      BY <1>1, <1>3 DEF TypesOK
    <3> QED BY <2>3, <3>1, <3>3, <3>4, <3>5
  <2> QED BY <1>1, <2>1, <2>2, <2>3 DEF Calls
<1>5. result' = [result EXCEPT ![t] = res] /\ total' = [total EXCEPT ![t] = all]
  BY DEF Get, IInv, TypesOK
<1> HIDE DEF res, all
<1>6. TypesOK' /\ Branch'
  BY <1>1, <1>2, <1>4, <1>5 DEF TypesOK, Branch, Get, Calls
<1>7. AtInterval'
  <2>1. AtGet'
    BY <1>1, <1>2, SameInput DEF AtGet, HasLeast
  <2> QED BY <1>1, <1>2, <2>1 DEF AtInterval
<1>8. ResultRight'
  <2>1. \A u \in ran' : /\ call = "sum" => result'[u] = InputSum(Threads)
                        /\ call = "min" => result'[u] = Min({input[v] : v \in Threads})
                        /\ call \in {"scan", "scan2"} =>
                             /\ result'[u] = InputSum({v \in Threads : v < u})
                             /\ total'[u] = InputSum(Threads)
    <3> TAKE u \in ran'
    <3>1. CASE u = t
      BY <1>1, <1>4, <1>5, <3>1 DEF TypesOK
    <3>2. CASE u # t
      <4>1. u \in ran /\ result'[u] = result[u] /\ total'[u] = total[u]
        BY <1>1, <1>5, <3>2 DEF TypesOK
      <4> QED BY <1>1, <4>1 DEF IInv, ResultRight, Calls
    <3> QED BY <3>1, <3>2
  <2> QED BY <1>1, <1>2, <2>1, SameInput DEF ResultRight, Calls
<1> QED BY <1>6, <1>7, <1>8 DEF IInv

----------------------------------------------------------------------------
(* The barriers.                                                           *)

LEMMA EmptyRound == ran' = {} => ResultRight' /\ AtPut'
BY DEF ResultRight, AtPut

(* One thread alone has nothing to reduce. *)
LEMMA AloneFacts ==
  ASSUME TypesOK, NT = 1, sh[0] = input[0]
  PROVE  /\ Threads = {0} /\ InputSum(Threads) = sh[0] /\ HasLeast({0})
         /\ \A t \in Threads : sh[t] = InputSum(0 .. t)
<1>1. Threads = {0} /\ 0 .. 0 = {0}
  BY DEF Threads
<1>2. InputSum({0}) = input[0] /\ input[0] \in Nat
  BY <1>1, InputSumOne DEF TypesOK
<1> QED BY <1>1, <1>2 DEF HasLeast

LEMMA LowerPart ==
  ASSUME NEW o \in Nat \ {0}, 2 * o <= NT
  PROVE  {t \in Threads : t < o \/ t < 2 * o} = 0 .. 2 * o - 1
<1>1. \A t \in Nat : (t < o \/ t < 2 * o) <=> t < 2 * o
  OBVIOUS
<1>2. {t \in Threads : t < o \/ t < 2 * o} = {t \in Threads : t < 2 * o}
  BY <1>1, Workgroup
<1> QED BY <1>2, ReduceAssumption DEF Threads

(* Into the first round of a halving loop, and from one to the next.       *)
LEMMA IntoRound ==
  ASSUME IInv, off' \in Halves, 2 * off' \in Halves, ran' = {}, sh' = sh, input' = input,
         call' = call,
         call = "sum" => SumFunctionOnSet(sh, 0 .. 2 * off' - 1) = InputSum(Threads),
         call = "min" => HasLeast(0 .. 2 * off' - 1)
  PROVE  AtRound'
<1>1. off' \in Nat \ {0} /\ 2 * off' <= NT
  BY HalvesFacts
<1>2. Live' = 0 .. 2 * off' - 1
  <2>1. Live' = {t \in Threads : t < off' \/ t < 2 * off'}
    BY DEF Live
  <2> QED BY <1>1, <2>1, LowerPart
<1>3. HasLeast(Live)' <=> HasLeast(Live')
  BY DEF HasLeast
<1> QED BY <1>2, <1>3, SameInput DEF AtRound

LEMMA PutSums ==
  ASSUME TypesOK, \A t \in Threads : sh[t] = input[t]
  PROVE  SumFunctionOnSet(sh, Threads) = InputSum(Threads) /\ HasLeast(Threads)
<1>1. SumFunctionOnSet(sh, Threads) = InputSum(Threads)
  BY Workgroup, SumOfSame DEF TypesOK, InputSum
<1>2. HasLeast(Threads)
  BY DEF TypesOK, HasLeast
<1> QED BY <1>1, <1>2

LEMMA AfterPut ==
  ASSUME IInv, ran = Threads, interval = "put", Barrier
  PROVE  AtInterval'
<1>0. /\ TypesOK /\ \A t \in Threads : sh[t] = input[t]
      /\ ran' = {} /\ sh' = sh /\ input' = input /\ call' = call /\ sh2' = sh2 /\ reg' = reg
  BY DEF IInv, AtInterval, AtPut, Barrier, Rounds, Enter
<1>1. CASE call \in {"sum", "min"} /\ NT \div 2 > 0
  <2>1. off' = NT \div 2 /\ interval' = "round"
    BY <1>1 DEF Barrier, Rounds, Enter, FirstHalf
  <2>2. NT # 1
    BY <1>1
  <2>3. off' \in Halves /\ 2 * off' = NT /\ NT \in Halves
    BY <2>1, <2>2, HalvesFacts
  <2>4. AtRound'
    BY <1>0, <2>3, PutSums, IntoRound DEF Threads
  <2> QED BY <2>1, <2>4 DEF AtInterval
<1>2. CASE call \in {"sum", "min"} /\ ~ (NT \div 2 > 0)
  <2>1. interval' = "get"
    BY <1>2 DEF Barrier, Rounds, Enter, FirstHalf
  <2>2. NT = 1
    BY <1>2, ReduceAssumption
  <2>3. sh[0] = input[0]
    BY <1>0, Workgroup
  <2>4. AtGet'
    BY <1>0, <1>2, <2>2, <2>3, AloneFacts, SameInput DEF AtGet, HasLeast
  <2> QED BY <2>1, <2>4 DEF AtInterval
<1>3. CASE call = "scan" /\ 1 < NT
  <2>1. off' = 1 /\ interval' = "read"
    BY <1>3 DEF Barrier, Rounds, Enter
  <2>2. \A t \in Threads : Window(t, 1) = {t}
    <3>1. \A t, u \in Threads : t - 1 < u /\ u <= t <=> u = t
      BY Workgroup
    <3> QED BY <3>1 DEF Window
  <2>3. \A t \in Threads : sh'[t] = InputSum(Window(t, 1))
    BY <1>0, <2>2, InputSumOne
  <2>4. AtRead'
    BY <1>0, <1>3, <2>1, <2>3, SameInput, ReduceAssumption DEF AtRead, Window
  <2> QED BY <2>1, <2>4 DEF AtInterval
<1>4. CASE call = "scan" /\ ~ (1 < NT)
  <2>1. interval' = "get"
    BY <1>4 DEF Barrier, Rounds, Enter
  <2>2. NT = 1 /\ sh[0] = input[0]
    BY <1>0, <1>4, Workgroup, ReduceAssumption
  <2>3. AtGet'
    BY <1>0, <1>4, <2>2, AloneFacts, SameInput DEF AtGet
  <2> QED BY <2>1, <2>3 DEF AtInterval
<1>5. CASE call = "scan2"
  <2>1. interval' = "chunks"
    BY <1>5 DEF Barrier, Rounds, Enter
  <2>2. AtChunks'
    BY <1>0, SameInput DEF AtChunks
  <2> QED BY <2>1, <2>2 DEF AtInterval
<1>6. call \in Calls
  BY DEF IInv, TypesOK, Branch
<1> QED BY <1>1, <1>2, <1>3, <1>4, <1>5, <1>6 DEF Calls

LEMMA AfterRound ==
  ASSUME IInv, ran = Threads, interval = "round", Barrier
  PROVE  AtInterval'
<1>0. /\ TypesOK /\ AtRound /\ call \in {"sum", "min"} /\ off' = off \div 2
      /\ ran' = {} /\ sh' = sh /\ input' = input /\ call' = call
      /\ interval' = IF off \div 2 > 0 THEN "round" ELSE "get"
  BY DEF IInv, AtInterval, Branch, Barrier, Rounds, Enter
<1>1. off \in Nat \ {0} /\ 2 * off <= NT
  BY <1>0, HalvesFacts DEF AtRound
<1>2. Live = 0 .. off - 1
  <2>1. \A t \in Threads : t < 2 * off /\ t - off \notin Threads => t < off
    BY <1>1, ReduceAssumption DEF Threads
  <2>2. \A t \in Threads : t \in Live <=> t < off
    BY <2>1 DEF Live
  <2>3. 0 .. off - 1 \subseteq Threads /\ \A t \in Threads : t < off <=> t \in 0 .. off - 1
    BY <1>1, ReduceAssumption DEF Threads
  <2> QED BY <2>2, <2>3 DEF Live
<1>3. /\ call = "sum" => SumFunctionOnSet(sh, 0 .. off - 1) = InputSum(Threads)
      /\ call = "min" => HasLeast(0 .. off - 1)
  BY <1>0, <1>2 DEF AtRound
<1>4. CASE off \div 2 > 0
  <2>1. off # 1
    BY <1>4
  <2>2. off' \in Halves /\ 2 * off' = off /\ off \in Halves
    BY <1>0, <2>1, HalvesFacts DEF AtRound
  <2>3. AtRound'
    BY <1>0, <1>3, <2>2, IntoRound
  <2> QED BY <1>0, <1>4, <2>3 DEF AtInterval
<1>5. CASE ~ (off \div 2 > 0)
  <2>1. off = 1
    BY <1>1, <1>5
  <2>2. 0 .. off - 1 = {0}
    BY <2>1
  <2>3. SumFunctionOnSet(sh, {0}) = sh[0]
    BY <1>0, Workgroup, SumOfOne DEF TypesOK
  <2>4. AtGet'
    BY <1>0, <1>3, <2>2, <2>3, SameInput DEF AtGet, HasLeast
  <2> QED BY <1>0, <1>5, <2>4 DEF AtInterval
<1> QED BY <1>4, <1>5

LEMMA AfterRead ==
  ASSUME IInv, ran = Threads, interval = "read", Barrier
  PROVE  AtInterval'
<1>0. /\ AtRead /\ off' = off /\ ran' = {} /\ sh' = sh /\ input' = input /\ reg' = reg
      /\ interval' = "add"
  BY DEF IInv, AtInterval, Barrier, Rounds, Enter
<1>1. /\ \A u : Partner(u)' = Partner(u)
      /\ \A u, o : InputSum(Window(u, o))' = InputSum(Window(u, o))
  BY <1>0, SameInput DEF Partner, Window
<1>2. AtAdd'
  BY <1>0, <1>1 DEF AtRead, AtAdd
<1> QED BY <1>0, <1>2 DEF AtInterval

LEMMA AfterAdd ==
  ASSUME IInv, ran = Threads, interval = "add", Barrier
  PROVE  AtInterval'
<1>0. /\ AtAdd /\ off' = 2 * off /\ ran' = {} /\ sh' = sh /\ input' = input /\ call' = call
      /\ interval' = (IF 2 * off < NT THEN "read" ELSE "get") /\ call = "scan"
  BY DEF IInv, AtInterval, Branch, Barrier, Rounds, Enter
<1>1. off \in Nat \ {0} /\ \A t \in Threads : sh[t] = InputSum(Window(t, 2 * off))
  BY <1>0, ReduceAssumption DEF AtAdd
<1>2. CASE 2 * off < NT
  <2>1. 2 * off \in 1 .. NT-1
    BY <1>1, <1>2, ReduceAssumption
  <2>2. \A t \in Threads : InputSum(Window(t, off))' = InputSum(Window(t, 2 * off))
    BY <1>0, SameInput DEF Window
  <2>3. AtRead'
    BY <1>0, <1>1, <2>1, <2>2 DEF AtRead
  <2> QED BY <1>0, <1>2, <2>3 DEF AtInterval
<1>3. CASE ~ (2 * off < NT)
  <2>1. ASSUME NEW t \in Threads PROVE Window(t, 2 * off) = 0 .. t
    <3>1. t \in Nat /\ t < NT
      BY ReduceAssumption DEF Threads
    <3>2. \A u \in Threads : t - 2 * off < u
      BY <1>1, <1>3, <3>1, ReduceAssumption DEF Threads
    <3> QED BY <3>1, <3>2, ReduceAssumption DEF Window, Threads
  <2>2. AtGet'
    BY <1>0, <1>1, <2>1, SameInput DEF AtGet
  <2> QED BY <1>0, <1>3, <2>2 DEF AtInterval
<1> QED BY <1>2, <1>3

LEMMA AfterChunks ==
  ASSUME IInv, ran = Threads, interval = "chunks", Barrier
  PROVE  AtInterval'
<1>0. /\ AtChunks /\ ran' = {} /\ sh' = sh /\ sh2' = sh2 /\ input' = input
      /\ interval' = "top"
  BY DEF IInv, AtInterval, Barrier, Rounds, Enter
<1>1. 0 .. NCHUNK-1 \subseteq Threads
  <2>1. NCHUNK \in Nat /\ NT \in Nat /\ NCHUNK <= NT
    BY ChunkFacts, ReduceAssumption
  <2> QED BY <2>1 DEF Threads
<1>2. AtTop'
  BY <1>0, <1>1, ChunkFacts, SameInput DEF AtChunks, AtTop
<1> QED BY <1>0, <1>2 DEF AtInterval

LEMMA AfterTop ==
  ASSUME IInv, ran = Threads, interval = "top", Barrier
  PROVE  AtInterval'
<1>0. /\ AtTop /\ ran' = {} /\ sh' = sh /\ sh2' = sh2 /\ input' = input /\ call' = call
      /\ call = "scan2" /\ interval' = "get"
  BY DEF IInv, AtInterval, Branch, Barrier, Rounds, Enter
<1>1. AtGet'
  BY <1>0, Workgroup, SameInput DEF AtTop, AtGet
<1> QED BY <1>0, <1>1 DEF AtInterval

LEMMA BarrierStep ==
  ASSUME IInv, Barrier
  PROVE  IInv'
<1>1. /\ ran = Threads /\ ran' = {} /\ input' = input /\ call' = call /\ sh' = sh
      /\ sh2' = sh2 /\ reg' = reg /\ result' = result /\ total' = total
      /\ interval \in {"put", "round", "read", "add", "chunks", "top"}
  BY DEF Barrier, Rounds, Enter
<1>2. AtInterval'
  BY <1>1, AfterPut, AfterRound, AfterRead, AfterAdd, AfterChunks, AfterTop
<1>3. off' \in Nat
  <2>1. NT \div 2 \in Nat
    BY ReduceAssumption
  <2>2. off \in Nat /\ off \div 2 \in Nat /\ 2 * off \in Nat
    BY DEF IInv, TypesOK
  <2> QED BY <2>1, <2>2 DEF Barrier, Rounds, Enter, FirstHalf
<1>4. TypesOK' /\ Branch'
  <2>1. call # "none" /\ call \in Calls
    BY <1>1 DEF IInv, Branch, TypesOK
  <2>2. /\ interval' \in {"put", "round", "read", "add", "chunks", "top", "get"}
        /\ interval' = "round" => call \in {"sum", "min"}
        /\ interval' \in {"read", "add"} => call = "scan"
        /\ interval' \in {"chunks", "top"} => call = "scan2"
    BY DEF Barrier, Rounds, Enter, IInv, Branch
  <2> QED BY <1>1, <1>3, <2>1, <2>2 DEF TypesOK, Branch, IInv
<1> QED BY <1>1, <1>2, <1>4, EmptyRound DEF IInv

----------------------------------------------------------------------------
(* The theorem.                                                            *)

LEMMA ReduceInitInv == ReduceInit => IInv
<1> SUFFICES ASSUME ReduceInit PROVE IInv
  OBVIOUS
<1>1. TypesOK
  BY DEF ReduceInit, TypesOK
<1> QED BY <1>1 DEF ReduceInit, IInv, Branch, AtInterval, AtGet, ResultRight

LEMMA ReduceNextInv == IInv /\ [ReduceNext]_reduceVars => IInv'
<1> SUFFICES ASSUME IInv, [ReduceNext]_reduceVars PROVE IInv'
  OBVIOUS
<1>1. ASSUME NEW c \in Calls, NEW v \in [Threads -> Values], Call(c, v) PROVE IInv'
  <2>1. v \in [Threads -> Nat]
    BY <1>1, ReduceAssumption
  <2>2. TypesOK' /\ Branch'
    BY <1>1, <2>1 DEF Call, Enter, IInv, TypesOK, Branch, Calls
  <2>3. interval' = "put" /\ ran' = {}
    BY <1>1 DEF Call, Enter
  <2> QED BY <2>2, <2>3, EmptyRound DEF IInv, AtInterval
<1>2. ASSUME NEW t \in Threads, Run(t) PROVE IInv'
  BY <1>2, PutStep, FoldStep, ReadStep, AddStep, ScanStep, TotalsStep, GetStep DEF Run
<1>3. CASE UNCHANGED reduceVars
  <2>1. AtInterval'
    BY <1>3 DEF reduceVars, IInv, AtInterval, AtPut, AtRound, AtRead, AtAdd, AtChunks, AtTop,
                AtGet, Live, HasLeast, Window, Partner, ChunkOf, Within, ChunkSum, Before, InputSum
  <2>2. TypesOK' /\ Branch'
    BY <1>3 DEF reduceVars, IInv, TypesOK, Branch
  <2>3. ResultRight'
    BY <1>3 DEF reduceVars, IInv, ResultRight, InputSum
  <2> QED BY <2>1, <2>2, <2>3 DEF IInv
<1> QED BY <1>1, <1>2, <1>3, BarrierStep DEF ReduceNext, ReduceRun, Stopped, Calls

(* Every collective gives every thread its result, for any power of two of *)
(* threads and any number of chunks that divides it, however the threads   *)
(* run between two barriers and whatever the call before left in shared    *)
(* memory.                                                                 *)
THEOREM CollectivesAreRight == ReduceSpec => []ResultRight
<1>1. ReduceInit => IInv
  BY ReduceInitInv
<1>2. IInv /\ [ReduceNext]_reduceVars => IInv'
  BY ReduceNextInv
<1>3. IInv => ResultRight
  BY DEF IInv
<1> QED BY <1>1, <1>2, <1>3, PTL DEF ReduceSpec

----------------------------------------------------------------------------
(***************************************************************************)
(* Launches.  What the Python side hands to a launcher is accepted by it.  *)
(*                                                                         *)
(* The launchers take a configuration for its word, so the argument is one *)
(* lemma per way to come by one: the override that parses and fits, the    *)
(* heuristic, its last resort, the fp8 table.  Each shows the threads, the *)
(* LDS and the split of K within what the launcher checks (Accepted,       *)
(* Skinnable).  The tokens are within MAX_M because a handle that is bound *)
(* had it read from the library (BoundRead).                               *)
(***************************************************************************)

(* A library that answers has said how many tokens it takes. *)
BoundRead == \A l \in {"w4", "bf16"} : fn[l] = "bound" => maxM[l] = LibMaxM

LaunchInv ==
  /\ env \in Settings /\ maxM \in [Libs -> Nat] /\ DOMAIN fn = Libs
  /\ BoundRead /\ NothingThrows

LEMMA MaxOfTwo ==
  ASSUME NEW a \in Int, NEW b \in Int
  PROVE  Max({a, b}) \in {a, b} /\ Max({a, b}) >= a /\ Max({a, b}) >= b
<1> DEFINE x == IF a >= b THEN a ELSE b
<1>1. x \in {a, b} /\ \A z \in {a, b} : x >= z
  OBVIOUS
<1> HIDE DEF x
<1> QED
  BY <1>1, Zenon DEF Max

LEMMA MinOfTwo ==
  ASSUME NEW a \in Int, NEW b \in Int
  PROVE  Min({a, b}) \in {a, b} /\ Min({a, b}) <= a /\ Min({a, b}) <= b
<1> DEFINE x == IF a <= b THEN a ELSE b
<1>1. x \in {a, b} /\ \A z \in {a, b} : x <= z
  OBVIOUS
<1> HIDE DEF x
<1> QED
  BY <1>1, Zenon DEF Min

(* The product of the columns of a block is what its LDS is counted from. *)
LEMMA LdsBoundsThreads ==
  ASSUME NEW wv \in Int, NEW sk \in Int, NEW npw \in Int, wv * npw * sk * 1024 <= 64 * 1024
  PROVE  wv * sk * npw * 16 <= 1024
<1> DEFINE p == wv * sk * npw
<1>1. wv * npw * sk = p
  OBVIOUS
<1>2. p \in Int
  OBVIOUS
<1>3. p * 1024 <= 64 * 1024
  BY <1>1
<1> HIDE DEF p
<1>4. p * 16 <= 1024
  BY <1>2, <1>3
<1> QED
  BY <1>4 DEF p

(* What the launcher takes for its word: of W4's configurations, and of    *)
(* the two fields that the bf16 launcher looks at.                         *)
Accepted(k, c) ==
  /\ c[1] \in Int /\ c[2] \in Int /\ c[3] \in {1, 4}
  /\ Fits(c[1], c[2], c[3]) /\ Splits(k, c[2], GROUP)

LEMMA ParsedIsInts ==
  ASSUME NEW v \in Seq(Int), NEW cols \in Nat
  PROVE  Parsed(v, cols) \in [1 .. cols -> Int]
BY DEF Parsed

LEMMA HeuristicAccepted ==
  ASSUME NEW k \in Nat, NEW ntiles \in Nat \ {0}, k % GROUP = 0
  PROVE  Accepted(k, Heuristic(k, ntiles))
<1> DEFINE S == {1} \cup {s \in {2, 4} : Splits(k, s, GROUP)}
           sk == Max(S)
           W == {8, 1024 \div (sk * 32), Lds \div (sk * 1024), ntiles}
           wv == Max({1, Min(W)})
<1>1. Splits(k, 1, GROUP)
  BY DEF Splits, GROUP
<1>2. sk \in {1, 2, 4} /\ Splits(k, sk, GROUP)
  <2>1. \E x \in S : \A z \in S : x >= z
    <3>1. CASE 4 \in S
      <4>1. \A z \in S : 4 >= z
        OBVIOUS
      <4> QED
        BY <3>1, <4>1
    <3>2. CASE 4 \notin S /\ 2 \in S
      <4>1. \A z \in S : 2 >= z
        BY <3>2
      <4> QED
        BY <3>2, <4>1
    <3>3. CASE 4 \notin S /\ 2 \notin S
      <4>1. S = {1}
        BY <3>3
      <4> QED
        BY <4>1
    <3> QED
      BY <3>1, <3>2, <3>3
  <2>2. sk \in S
    <3> HIDE DEF S
    <3> QED
      BY <2>1 DEF Max
  <2> HIDE DEF sk
  <2> QED
    BY <2>2, <1>1
<1> HIDE DEF S
<1>3. Min(W) \in W /\ \A z \in W : Min(W) <= z
  <2>1. W \in SUBSET Nat /\ W # {}
    <3> HIDE DEF sk
    <3> QED
      BY <1>2 DEF Lds
  <2> HIDE DEF W
  <2> QED
    BY <2>1, MinIsLeast
<1>4. Min(W) \in Nat /\ Min(W) <= 1024 \div (sk * 32) /\ Min(W) <= Lds \div (sk * 1024)
  <2> HIDE DEF sk
  <2> QED
    BY <1>2, <1>3 DEF Lds
<1>5. wv \in {1, Min(W)} /\ wv >= 1
  <2> DEFINE b == Min(W)
  <2>1. b \in Int
    BY <1>4
  <2> HIDE DEF b, sk, W
  <2>2. Max({1, b}) \in {1, b} /\ Max({1, b}) >= 1
    BY <2>1, MaxOfTwo
  <2> QED
    BY <2>2 DEF b
<1> HIDE DEF sk, W
<1>6. Fits(wv, sk, 1)
  <2> DEFINE b == Min(W)
  <2>1. b \in Nat /\ b <= 1024 \div (sk * 32) /\ b <= Lds \div (sk * 1024)
    BY <1>4
  <2>2. wv \in {1, b} /\ wv >= 1
    BY <1>5
  <2> HIDE DEF b, wv
  <2>3. CASE sk = 1
    BY <2>1, <2>2, <2>3 DEF Fits, Lds
  <2>4. CASE sk = 2
    BY <2>1, <2>2, <2>4 DEF Fits, Lds
  <2>5. CASE sk = 4
    BY <2>1, <2>2, <2>5 DEF Fits, Lds
  <2> QED
    BY <1>2, <2>3, <2>4, <2>5
<1>7. Heuristic(k, ntiles) = <<wv, sk, 1, 1>>
  BY DEF Heuristic, sk, W, S
<1>8. wv \in Int
  BY <1>4, <1>5
<1> HIDE DEF wv
<1> QED
  BY <1>2, <1>6, <1>7, <1>8 DEF Accepted

LEMMA PickedAccepted ==
  ASSUME env \in Settings, NEW m, NEW k \in Nat, NEW ntiles \in Nat \ {0}, k % GROUP = 0
  PROVE  Accepted(k, PickCfg(m, ntiles, k))
<1> DEFINE o == Parsed(env.w4cfg, 4)
           table == CfgTable(m)
           fits == {i \in DOMAIN table : Legal(k, ntiles, table[i])}
<1>1. o \in [1 .. 4 -> Int]
  BY LaunchAssumption, ParsedIsInts
<1>2. \A i \in DOMAIN table : table[i][1] \in Int /\ table[i][2] \in Int
  BY DEF CfgTable
<1>3. DOMAIN table \in SUBSET Nat
  BY DEF CfgTable
<1>4. ASSUME NEW c, c[1] \in Int, c[2] \in Int, Legal(k, ntiles, c) PROVE Accepted(k, c)
  BY <1>4 DEF Legal, Accepted
<1>5. CASE Legal(k, ntiles, o) /\ o[4] \in {0, 1}
  <2>1. Accepted(k, o)
    BY <1>1, <1>4, <1>5
  <2> QED
    BY <1>5, <2>1 DEF PickCfg
<1>6. CASE ~ (Legal(k, ntiles, o) /\ o[4] \in {0, 1}) /\ fits # {}
  <2>1. fits \in SUBSET Nat
    BY <1>3
  <2>2. Min(fits) \in fits
    <3> HIDE DEF fits
    <3> QED
      BY <2>1, <1>6, MinIsLeast
  <2>3. Accepted(k, table[Min(fits)])
    <3> DEFINE i == Min(fits)
    <3>1. i \in DOMAIN table /\ Legal(k, ntiles, table[i])
      BY <2>2
    <3> HIDE DEF i, table
    <3>2. Accepted(k, table[i])
      BY <3>1, <1>2, <1>4
    <3> QED
      BY <3>2 DEF i
  <2>4. PickCfg(m, ntiles, k) = table[Min(fits)]
    BY <1>6 DEF PickCfg
  <2> QED
    BY <2>3, <2>4
<1>7. CASE ~ (Legal(k, ntiles, o) /\ o[4] \in {0, 1}) /\ fits = {}
  BY <1>7, HeuristicAccepted DEF PickCfg
<1> QED
  BY <1>5, <1>6, <1>7

(* Two fields, legal for the bf16 kernel. *)
Skinnable(k, c) ==
  c[1] \in Int /\ c[2] \in Int /\ Fits(c[1], c[2], 1) /\ Splits(k, c[2], 16)

LEMMA Bf16Accepted ==
  ASSUME env \in Settings, NEW cols \in Nat, NEW k \in Nat, Bf16Cfg(cols, k) # <<>>
  PROVE  Skinnable(k, Bf16Cfg(cols, k))
<1> DEFINE o == Parsed(env.bf16cfg, 2)
           legal == {s \in {1, 2, 4, 8, 16} : Splits(k, s, 16)}
           few == {s \in legal : ((cols + 15) \div 16) * s <= env.waves}
           best == IF few # {} THEN Max(few) ELSE IF 2 \in legal THEN 2 ELSE Min(legal)
<1>1. o \in [1 .. 2 -> Int]
  BY LaunchAssumption, ParsedIsInts
<1>2. CASE Fits(o[1], o[2], 1) /\ Splits(k, o[2], 16)
  <2>1. Skinnable(k, o)
    BY <1>1, <1>2 DEF Skinnable
  <2> QED
    BY <1>2, <2>1 DEF Bf16Cfg
<1>3. CASE ~ (Fits(o[1], o[2], 1) /\ Splits(k, o[2], 16)) /\ legal # {}
  <2>1. best \in legal
    <3>1. ASSUME few # {} PROVE Max(few) \in few
      <4> few \in SUBSET {1, 2, 4, 8, 16}
        OBVIOUS
      <4> HIDE DEF few
      <4>1. \E x \in few : \A z \in few : x >= z
        <5>1. CASE 16 \in few
          BY <5>1
        <5>2. CASE 16 \notin few /\ 8 \in few
          BY <5>2
        <5>3. CASE 16 \notin few /\ 8 \notin few /\ 4 \in few
          BY <5>3
        <5>4. CASE 16 \notin few /\ 8 \notin few /\ 4 \notin few /\ 2 \in few
          BY <5>4
        <5>5. CASE 16 \notin few /\ 8 \notin few /\ 4 \notin few /\ 2 \notin few
          <6>1. few = {1}
            BY <3>1, <5>5
          <6> QED
            BY <6>1
        <5> QED
          BY <5>1, <5>2, <5>3, <5>4, <5>5
      <4> QED
        BY <4>1 DEF Max
    <3>2. Min(legal) \in legal
      <4> legal \in SUBSET Nat
        OBVIOUS
      <4> HIDE DEF legal
      <4> QED
        BY <1>3, MinIsLeast
    <3> QED
      BY <3>1, <3>2
  <2>2. Bf16Cfg(cols, k) = <<1, best>>
    BY <1>3 DEF Bf16Cfg
  <2> HIDE DEF best
  <2> QED
    BY <2>1, <2>2 DEF Skinnable, Fits, Lds
<1>4. CASE ~ (Fits(o[1], o[2], 1) /\ Splits(k, o[2], 16)) /\ legal = {}
  BY <1>4 DEF Bf16Cfg
<1> QED
  BY <1>2, <1>3, <1>4

LEMMA BlocksCover ==
  ASSUME NEW m \in Nat, m <= 64
  PROVE  m <= 16 * Blocks(m)
<1>1. (m + 15) \div 16 \in Int /\ m <= 16 * ((m + 15) \div 16)
  OBVIOUS
<1> DEFINE tiles == (m + 15) \div 16
<1>2. Min({4, tiles}) \in {4, tiles}
  BY <1>1, MinOfTwo
<1> HIDE DEF tiles
<1>3. m <= 16 * tiles
  BY <1>1 DEF tiles
<1> QED
  BY <1>2, <1>3 DEF Blocks, tiles

LEMMA W4Safe ==
  ASSUME LaunchInv, NEW m \in Tokens, NEW s \in Shapes, W4Call(m, s)
  PROVE  NothingThrows'
<1> m \in Nat /\ s[1] \in Nat \ {0} /\ s[2] \in Nat /\ LibMaxM \in 1 .. 64
  BY LaunchAssumption
<1> DEFINE tiles == (s[1] + 15) \div 16
           c == PickCfg(Min({m, maxM["w4"] + 1}), tiles, s[2])
<1>1. maxM["w4"] = LibMaxM /\ s[2] % GROUP = 0
  BY DEF LaunchInv, BoundRead, W4Call
<1>2. tiles \in Nat \ {0}
  OBVIOUS
<1>3. Accepted(s[2], c)
  BY <1>1, <1>2, PickedAccepted DEF LaunchInv
<1>4. CASE m > maxM["w4"]
  BY <1>4 DEF W4Call, Served, NothingThrows
<1>5. CASE ~ m > maxM["w4"]
  <2>1. last' = [by |-> "w4", launch |-> Launch(m, s[2], 16 * tiles, c)]
    BY <1>3, <1>5 DEF W4Call, Served, Accepted
  <2> HIDE DEF c, tiles
  <2>2. m <= LibMaxM /\ m <= 16 * Blocks(m)
    BY <1>1, <1>5, BlocksCover
  <2>3. (16 * tiles) % 16 = 0
    BY <1>2
  <2>4. c[1] * c[2] * 32 <= 1024 /\ c[1] * c[2] * c[3] * 16 <= 1024 /\ s[2] % (c[2] * GROUP) = 0
    BY <1>3, LdsBoundsThreads DEF Accepted, Fits, Splits, Lds
  <2>5. Max({c[1] * c[2] * 32, c[1] * c[2] * c[3] * 16}) <= 1024
    <3> DEFINE a == c[1] * c[2] * 32
               b == c[1] * c[2] * c[3] * 16
    <3>1. a \in Int /\ b \in Int /\ a <= 1024 /\ b <= 1024
      BY <1>3, <2>4 DEF Accepted
    <3> HIDE DEF a, b
    <3>2. Max({a, b}) <= 1024
      BY <3>1, MaxOfTwo
    <3> QED
      BY <3>2 DEF a, b
  <2>6. last'.by = "w4" /\ last'.launch.M = m /\ last'.launch.K = s[2] /\ last'.launch.N = 16 * tiles
        /\ last'.launch.cfg = c /\ last'.launch.MB = Blocks(m)
    BY <2>1 DEF Launch
  <2>7. c[3] \in {1, 4}
    BY <1>3 DEF Accepted
  <2> QED
    BY <2>2, <2>3, <2>4, <2>5, <2>6, <2>7 DEF NothingThrows
<1> QED
  BY <1>4, <1>5

LEMMA SkinnySafe ==
  ASSUME LaunchInv, NEW m \in Tokens, NEW s \in Shapes, NEW floor \in Int, NEW plain,
         Skinny(m, s, floor, plain) # NoLaunch, ServeBf16(Skinny(m, s, floor, plain))
  PROVE  NothingThrows'
<1> m \in Nat /\ s[1] \in Nat /\ s[2] \in Nat /\ LibMaxM \in 1 .. 64
  BY LaunchAssumption
<1> DEFINE c == Bf16Cfg(s[1], s[2])
           a == Skinny(m, s, floor, plain)
<1>1. fn["bf16"] = "bound" /\ m \in floor .. maxM["bf16"] /\ c # <<>> /\ a = Launch(m, s[2], s[1], c)
  BY DEF Skinny
<1>2. maxM["bf16"] = LibMaxM
  BY <1>1 DEF LaunchInv, BoundRead
<1>3. Skinnable(s[2], c)
  BY <1>1, Bf16Accepted DEF LaunchInv
<1> HIDE DEF c
<1>4. a.M = m /\ a.K = s[2] /\ a.cfg = c /\ a.MB = Blocks(m)
  BY <1>1 DEF Launch
<1> HIDE DEF a
<1>5. last' = [by |-> "bf16", launch |-> a]
  BY <1>3, <1>4 DEF ServeBf16, Served, Skinnable, a
<1>6. m <= LibMaxM /\ m <= 16 * Blocks(m)
  BY <1>1, <1>2, BlocksCover
<1>7. c[1] * c[2] * 32 <= 1024 /\ c[1] * c[2] * 16 <= 1024 /\ s[2] % (c[2] * 16) = 0
  BY <1>3 DEF Skinnable, Fits, Splits
<1>8. Max({c[1] * c[2] * 32, c[1] * c[2] * 16}) <= 1024
  <2> DEFINE x == c[1] * c[2] * 32
             z == c[1] * c[2] * 16
  <2>1. x \in Int /\ z \in Int /\ x <= 1024 /\ z <= 1024
    BY <1>3, <1>7 DEF Skinnable
  <2> HIDE DEF x, z
  <2>2. Max({x, z}) <= 1024
    BY <2>1, MaxOfTwo
  <2> QED
    BY <2>2 DEF x, z
<1> QED
  BY <1>4, <1>5, <1>6, <1>7, <1>8 DEF NothingThrows

LEMMA DenseSafe ==
  ASSUME LaunchInv, NEW m \in Tokens, NEW s \in Shapes, NEW plain \in BOOLEAN, DenseCall(m, s, plain)
  PROVE  NothingThrows'
<1> env.minN \in Int /\ env.ftMinN \in Int
  BY LaunchAssumption DEF LaunchInv
<1>1. ASSUME NEW by \in {"stock", "wvSplitK", "linear"}, Served(by, NoLaunch) PROVE NothingThrows'
  BY <1>1 DEF Served, NothingThrows
<1>2. CASE /\ Skinny(m, s, env.minN, plain) # NoLaunch
           /\ ServeBf16(Skinny(m, s, env.minN, plain))
  BY <1>2, SkinnySafe
<1>3. CASE /\ Skinny(m, s, env.ftMinN, plain) # NoLaunch
           /\ ServeBf16(Skinny(m, s, env.ftMinN, plain))
  BY <1>3, SkinnySafe
<1> QED
  BY <1>1, <1>2, <1>3 DEF DenseCall

(* A shape of the table is refused for its tokens or not at all. *)
LEMMA TableAccepted ==
  ASSUME NEW s \in DOMAIN Fp8Table, NEW m \in Nat, m <= 16
  PROVE  ~ Refused(m, s, Fp8Table[s])
<1>1. CASE s = <<8192, 2560>>
  BY <1>1 DEF Fp8Table, Refused, Lds, Fp8Tokens
<1>2. CASE s = <<6656, 2560>>
  BY <1>2 DEF Fp8Table, Refused, Lds, Fp8Tokens
<1>3. CASE s = <<2560, 3072>>
  BY <1>3 DEF Fp8Table, Refused, Lds, Fp8Tokens
<1> QED
  BY <1>1, <1>2, <1>3 DEF Fp8Table

LEMMA Fp8Safe ==
  ASSUME LaunchInv, NEW m \in Tokens, NEW s \in Shapes, NEW plain \in BOOLEAN, Fp8Call(m, s, plain)
  PROVE  NothingThrows'
<1> m \in Nat /\ env.fp8MaxM \in Int
  BY LaunchAssumption DEF LaunchInv
<1> DEFINE c == HcqCfg(m, s, plain)
           l == Launch(m, s[2], s[1], c)
<1>1. CASE last' = [by |-> "fp8hip", launch |-> NoLaunch]
  BY <1>1 DEF NothingThrows
<1>2. CASE last' = [by |-> "fp8", launch |-> l]
  <2> HIDE DEF l
  <2> QED
    BY <1>2 DEF NothingThrows
<1>3. CASE c # <<>> /\ Refused(m, s, c) /\ last' = [by |-> "refused", launch |-> l]
  <2>1. m <= env.fp8MaxM /\ s \in DOMAIN Fp8Table /\ c = Fp8Table[s]
    BY <1>3 DEF HcqCfg
  <2>2. m > 16
    BY <1>3, <2>1, TableAccepted
  <2>3. l.M = m
    BY DEF Launch
  <2>4. last'.by = "refused" /\ last'.launch.M \in Fp8Tokens + 1 .. env.fp8MaxM /\ env' = env
    BY <1>3, <2>1, <2>2, <2>3 DEF Fp8Tokens, Fp8Call, Served
  <2> QED
    BY <2>4 DEF NothingThrows
<1> QED
  BY <1>1, <1>2, <1>3 DEF Fp8Call, Served

LEMMA BindKeeps == ASSUME LaunchInv, NEW l \in Libs, Bind(l) PROVE LaunchInv'
<1>1. UNCHANGED <<env, last>> /\ DOMAIN fn' = Libs
  BY DEF Bind, LaunchInv
<1>2. maxM' \in [Libs -> Nat]
  <2>1. LibMaxM \in Nat /\ maxM \in [Libs -> Nat]
    BY LaunchAssumption DEF LaunchInv
  <2>2. UNCHANGED maxM \/ \E k \in Libs : ReadMaxM(k)
    BY DEF Bind, Libs
  <2> QED
    BY <2>1, <2>2 DEF ReadMaxM
<1>3. BoundRead'
  BY DEF Bind, LaunchInv, BoundRead, ReadMaxM, Libs
<1> QED
  BY <1>1, <1>2, <1>3 DEF LaunchInv, NothingThrows

LEMMA LaunchInvInit == LaunchInit => LaunchInv
BY DEF LaunchInit, LaunchInv, BoundRead, NothingThrows, Libs

LEMMA LaunchInvStep == LaunchInv /\ [LaunchNext]_launchVars => LaunchInv'
<1> SUFFICES ASSUME LaunchInv, [LaunchNext]_launchVars PROVE LaunchInv'
  OBVIOUS
<1>1. CASE GemmCall
  <2>1. UNCHANGED <<env, fn, maxM>>
    BY <1>1 DEF GemmCall, W4Call, DenseCall, Fp8Call, ServeBf16, Served
  <2>2. NothingThrows'
    BY <1>1, W4Safe, DenseSafe, Fp8Safe DEF GemmCall
  <2> QED
    BY <2>1, <2>2 DEF LaunchInv, BoundRead
<1>2. CASE UNCHANGED launchVars
  BY <1>2 DEF launchVars, LaunchInv, BoundRead, NothingThrows
<1> QED
  BY <1>1, <1>2, BindKeeps DEF LaunchNext

(* NothingThrows of every behaviour, for every setting of the overrides,   *)
(* every shape and number of tokens: no configuration that the Python side *)
(* reads, picks or falls back to is one that the launchers of the draft    *)
(* head and of the dense GEMMs throw on, every launch covers its tokens,   *)
(* and the fp8 kernel refuses no configuration of the table: a call it     *)
(* refuses has more tokens than its 16, under a VLLM_HC_FP8SK_MAX_M that   *)
(* says it takes them.                                                     *)
THEOREM LaunchesAreLegal == LaunchSpec => []NothingThrows
<1>1. LaunchInv => NothingThrows
  BY DEF LaunchInv
<1> QED
  BY <1>1, LaunchInvInit, LaunchInvStep, PTL DEF LaunchSpec

----------------------------------------------------------------------------
(***************************************************************************)
(* Heads' weights.  A logit is of its own row.                             *)
(*                                                                         *)
(* The packing goes chunk by chunk; a tile is where its number says, with  *)
(* each nibble where the kernel looks for it (TilesPacked), whatever the   *)
(* chunks.  Reading it back in the kernel's order undoes the packing       *)
(* (WhereItLies), so a column is computed from the row of its number; a    *)
(* call that dequantises in rounds has the columns below upto (Computed).  *)
(***************************************************************************)

(* Row r of the padded weight. *)
RowAt(r) == IF r < n THEN r ELSE Padding

Codes    == [row : Int, k : Int, twos : {0, 1}]
KBlocks  == 0 .. K \div KPB - 1
Groups   == 0 .. K \div GROUP_K - 1
Tile     == [KBlocks -> [0 .. 31 -> [0 .. 15 -> [0 .. 1 -> Codes]]]]
SzTile   == [Groups -> [0 .. 15 -> Int \X Int]]

WeightTypeOK ==
  /\ head \in Heads /\ wq \in Seq(Tile) /\ wsz \in Seq(SzTile)
  /\ w8 \in Seq(Int) /\ ws8 \in Seq(Int) /\ logits \in Seq(Int) /\ upto \in Nat

(* Tile t holds the 16 rows from 16 * (t - 1) on, in the kernel's order.   *)
CodeIs(x, t, kb, lane, b, half) ==
  x = Flip(Code(RowAt(16 * (t - 1) + (lane % 16)),
                KPB * kb + 16 * (b \div 4) + 8 * half + 4 * (lane \div 16) + (b % 4)))

TileIs(tile, t) ==
  \A kb \in KBlocks, lane \in 0 .. 31, b \in 0 .. 15, half \in 0 .. 1 :
    CodeIs(tile[kb][lane][b][half], t, kb, lane, b, half)

SzIs(tile, t) ==
  \A g \in Groups, r \in 0 .. 15 : tile[g][r] = <<RowAt(16 * (t - 1) + r), g>>

TilesPacked ==
  /\ Len(wsz) = Len(wq) /\ Len(wq) <= Tiles
  /\ \A t \in 1 .. Len(wq) : TileIs(wq[t], t) /\ SzIs(wsz[t], t)

PackedFp8 ==
  /\ n % 128 = 0 => 16 * Len(w8) <= n /\ 128 * Len(ws8) = 16 * Len(w8)
  /\ \A t \in 1 .. Len(w8) : w8[t] = t - 1
  /\ \A b \in 1 .. Len(ws8) : ws8[b] = b - 1

(* A call has the columns below upto. *)
Computed ==
  /\ Len(logits) = IF upto < n THEN upto ELSE n
  /\ \A c \in 1 .. Len(logits) : logits[c] = c - 1

WeightInv == WeightTypeOK /\ TilesPacked /\ PackedFp8 /\ Computed

----------------------------------------------------------------------------
LEMMA FlipTwice == ASSUME NEW r, NEW k PROVE Flip(Flip(Code(r, k))) = Code(r, k)
<1>1. Flip(Code(r, k)) = [row |-> r, k |-> k, twos |-> 1]
  BY DEF Flip, Code
<1>2. Flip([row |-> r, k |-> k, twos |-> 1]) = [row |-> r, k |-> k, twos |-> 0]
  BY DEF Flip
<1> QED
  BY <1>1, <1>2 DEF Code

LEMMA HeadDims ==
  ASSUME head \in Heads
  PROVE  /\ n \in Nat \ {0} /\ K \in Nat \ {0} /\ K % 128 = 0 /\ K >= 128
         /\ Tiles \in Nat /\ n <= 16 * Tiles /\ 16 * Tiles < n + 16
<1>1. n \in Nat \ {0} /\ K \in Nat \ {0} /\ K % 128 = 0
  BY WeightAssumption DEF n, K, GROUP_K
<1> QED
  BY <1>1 DEF Tiles

(* A code is where the kernel looks for it: k's bits, taken apart and put  *)
(* together again.                                                         *)
LEMMA Bits ==
  ASSUME NEW k \in Nat
  PROVE  /\ k \div 64 \in Nat
         /\ (k % 64) \div 16 \in 0 .. 3 /\ (k % 64) \div 16 = (k \div 16) % 4
         /\ (k % 16) \div 8 \in 0 .. 1 /\ (k % 16) \div 8 = (k \div 8) % 2
         /\ (k % 8) \div 4 \in 0 .. 1 /\ (k % 8) \div 4 = (k \div 4) % 2
         /\ k % 4 \in 0 .. 3
         /\ 64 * (k \div 64) + 16 * ((k % 64) \div 16) + 8 * ((k % 16) \div 8)
              + 4 * ((k % 8) \div 4) + (k % 4) = k
OBVIOUS

Lies(t, r, k, s, half, h, j) ==
  wq[t][k \div KPB][r + 16 * h][4 * s + j][half] = Flip(Code(RowAt(16 * (t - 1) + r), k))

LEMMA WhereItLies ==
  ASSUME WeightInv, NEW t \in 1 .. Len(wq), NEW r \in 0 .. 15, NEW k \in 0 .. K - 1,
         NEW s \in 0 .. 3, NEW half \in 0 .. 1, NEW h \in 0 .. 1, NEW j \in 0 .. 3,
         64 * (k \div 64) + 16 * s + 8 * half + 4 * h + j = k
  PROVE  Lies(t, r, k, s, half, h, j)
<1> K \in Nat /\ K % 128 = 0
  BY HeadDims DEF WeightInv, WeightTypeOK
<1>1. k \div KPB \in KBlocks
  BY DEF KBlocks, KPB
<1> DEFINE lane == r + 16 * h
           b == 4 * s + j
<1>2. lane \in 0 .. 31 /\ lane % 16 = r /\ lane \div 16 = h
  OBVIOUS
<1>3. b \in 0 .. 15 /\ b \div 4 = s /\ b % 4 = j
  OBVIOUS
<1> HIDE DEF lane, b
<1>4. wq[t][k \div KPB][lane][b][half] =
         Flip(Code(RowAt(16 * (t - 1) + (lane % 16)),
                   KPB * (k \div KPB) + 16 * (b \div 4) + 8 * half + 4 * (lane \div 16) + (b % 4)))
  <2>1. TileIs(wq[t], t)
    BY DEF WeightInv, TilesPacked
  <2>2. CodeIs(wq[t][k \div KPB][lane][b][half], t, k \div KPB, lane, b, half)
    BY <1>1, <1>2, <1>3, <2>1 DEF TileIs
  <2> QED BY <2>2 DEF CodeIs
<1>5. wq[t][k \div KPB][lane][b][half] = Flip(Code(RowAt(16 * (t - 1) + r), k))
  BY <1>2, <1>3, <1>4 DEF KPB
<1> QED
  BY <1>5 DEF lane, b, Lies

LEMMA RowOfWhole ==
  ASSUME head \in Heads, NEW r, NEW codes, NEW sz,
         \A k \in 0 .. K - 1 : codes[k] = Code(r, k), \A g \in Groups : sz[g] = <<r, g>>
  PROVE  RowOf(codes, sz) = r
<1>1. 0 \in 0 .. K - 1
  BY HeadDims
<1>2. codes[0].row = r
  <2>1. codes[0] = Code(r, 0)
    BY <1>1
  <2> QED
    BY <2>1 DEF Code
<1> QED
  BY <1>2 DEF RowOf, Groups

(* The kernel's column c is row c of the padded weight.                    *)
LEMMA ColumnIsRow ==
  ASSUME WeightInv, NEW c \in 0 .. 16 * Len(wq) - 1
  PROVE  KernelColumn(c) = RowAt(c)
<1> head \in Heads /\ Len(wq) \in Nat
  BY DEF WeightInv, WeightTypeOK
<1> DEFINE t == c \div 16 + 1
           r == c % 16
           At(k) == wq[t][k \div KPB][r + 16 * ((k % 8) \div 4)][4 * ((k % KPB) \div 16) + (k % 4)][(k % 16) \div 8]
           codes == [k \in 0 .. K - 1 |-> Flip(At(k))]
           sz == [g \in Groups |-> wsz[t][g][r]]
<1>1. t \in 1 .. Len(wq) /\ r \in 0 .. 15 /\ 16 * (t - 1) + r = c
  OBVIOUS
<1> HIDE DEF t, r
<1>2. ASSUME NEW k \in 0 .. K - 1 PROVE Flip(At(k)) = Code(RowAt(c), k)
  <2> k \in Nat
    BY HeadDims
  <2> DEFINE s == (k % KPB) \div 16
             half == (k % 16) \div 8
             h == (k % 8) \div 4
             j == k % 4
  <2>1. /\ s \in 0 .. 3 /\ half \in 0 .. 1 /\ h \in 0 .. 1 /\ j \in 0 .. 3
        /\ 64 * (k \div 64) + 16 * s + 8 * half + 4 * h + j = k
    BY Bits DEF KPB
  <2> HIDE DEF s, half, h, j
  <2>2. Lies(t, r, k, s, half, h, j)
    BY <1>1, <2>1, WhereItLies
  <2>3. At(k) = Flip(Code(RowAt(16 * (t - 1) + r), k))
    BY <2>2 DEF Lies, s, half, h, j
  <2> QED
    BY <1>1, <2>3, FlipTwice
<1>3. ASSUME NEW g \in Groups PROVE wsz[t][g][r] = <<RowAt(c), g>>
  <2>1. SzIs(wsz[t], t)
    BY <1>1 DEF WeightInv, TilesPacked
  <2> QED
    BY <1>1, <2>1 DEF SzIs
<1> HIDE DEF At
<1>4. RowOf(codes, sz) = RowAt(c)
  BY <1>2, <1>3, RowOfWhole
<1> QED
  BY <1>4 DEF KernelColumn, t, r, At, Groups

LEMMA UnpackedIsRow ==
  ASSUME WeightInv, NEW t0 \in Nat, NEW i \in Nat, t0 + i \div 16 < Len(wq)
  PROVE  Unpacked(t0, i) = RowAt(16 * t0 + i)
<1> head \in Heads /\ Len(wq) \in Nat
  BY DEF WeightInv, WeightTypeOK
<1> DEFINE t == t0 + i \div 16 + 1
           r == i % 16
           At(k) == wq[t][k \div KPB][16 * ((k \div 4) % 2) + r][4 * ((k \div 16) % 4) + (k % 4)][(k \div 8) % 2]
           codes == [k \in 0 .. K - 1 |-> Flip(At(k))]
           sz == [g \in Groups |-> wsz[t][g][r]]
<1>1. t \in 1 .. Len(wq) /\ r \in 0 .. 15 /\ 16 * (t - 1) + r = 16 * t0 + i
  OBVIOUS
<1> HIDE DEF t, r
<1>2. ASSUME NEW k \in 0 .. K - 1 PROVE Flip(At(k)) = Code(RowAt(16 * t0 + i), k)
  <2> k \in Nat
    BY HeadDims
  <2> DEFINE s == (k \div 16) % 4
             half == (k \div 8) % 2
             h == (k \div 4) % 2
             j == k % 4
  <2>1. /\ s \in 0 .. 3 /\ half \in 0 .. 1 /\ h \in 0 .. 1 /\ j \in 0 .. 3
        /\ 64 * (k \div 64) + 16 * s + 8 * half + 4 * h + j = k
    BY Bits
  <2> HIDE DEF s, half, h, j
  <2>2. wq[t][k \div KPB][16 * h + r][4 * s + j][half] = Flip(Code(RowAt(16 * (t - 1) + r), k))
    <3>1. Lies(t, r, k, s, half, h, j)
      BY <1>1, <2>1, WhereItLies
    <3>2. 16 * h + r = r + 16 * h
      BY <1>1, <2>1
    <3> QED
      BY <3>1, <3>2 DEF Lies
  <2>3. At(k) = Flip(Code(RowAt(16 * (t - 1) + r), k))
    BY <2>2 DEF s, half, h, j
  <2> QED
    BY <1>1, <2>3, FlipTwice
<1>3. ASSUME NEW g \in Groups PROVE wsz[t][g][r] = <<RowAt(16 * t0 + i), g>>
  <2>1. SzIs(wsz[t], t)
    BY <1>1 DEF WeightInv, TilesPacked
  <2> QED
    BY <1>1, <2>1 DEF SzIs
<1> HIDE DEF At
<1>4. RowOf(codes, sz) = RowAt(16 * t0 + i)
  BY <1>2, <1>3, RowOfWhole
<1> QED
  BY <1>4 DEF Unpacked, t, r, At, Groups

LEMMA RowAtInt == ASSUME head \in Heads, NEW r \in Int PROVE RowAt(r) \in Int
BY HeadDims DEF RowAt, Padding

(* unpack_w4 of rows a .. b-1 returns these rows.                          *)
LEMMA SliceIsRows ==
  ASSUME WeightInv, Len(wq) = Tiles, NEW a \in Nat, NEW b \in Nat, a < b, b <= n
  PROVE  Slice(a, b) \in Seq(Int) /\ Len(Slice(a, b)) = b - a
         /\ \A i \in 1 .. b - a : Slice(a, b)[i] = a + i - 1
<1> head \in Heads
  BY DEF WeightInv, WeightTypeOK
<1> n \in Nat /\ Tiles \in Nat /\ n <= 16 * Tiles
  BY HeadDims
<1> DEFINE t0 == a \div 16
           top == (b + 15) \div 16
           t1 == Min({top, Tiles})
           rows == [i \in 1 .. 16 * (t1 - t0) |-> Unpacked(t0, i - 1)]
<1>1. t0 \in Nat /\ 16 * t0 <= a /\ a < 16 * t0 + 16
  OBVIOUS
<1>2. t1 \in Nat /\ b <= 16 * t1 /\ t1 <= Tiles
  <2>1. top \in Nat /\ b <= 16 * top
    OBVIOUS
  <2> HIDE DEF top
  <2>2. t1 \in {top, Tiles} /\ \A z \in {top, Tiles} : t1 <= z
    BY <2>1, MinIsLeast
  <2> QED
    BY <2>1, <2>2
<1> HIDE DEF t0, t1
<1>3. \A i \in 1 .. 16 * (t1 - t0) : Unpacked(t0, i - 1) = RowAt(16 * t0 + (i - 1))
  <2> SUFFICES ASSUME NEW i \in 1 .. 16 * (t1 - t0)
               PROVE  Unpacked(t0, i - 1) = RowAt(16 * t0 + (i - 1))
    OBVIOUS
  <2>1. i - 1 \in Nat /\ (i - 1) \div 16 < t1 - t0
    BY <1>1, <1>2
  <2>2. t0 + (i - 1) \div 16 < Len(wq)
    BY <1>1, <1>2, <2>1
  <2> QED
    BY <1>1, <2>1, <2>2, UnpackedIsRow
<1>4. rows \in Seq(Int) /\ Len(rows) = 16 * (t1 - t0)
  <2>1. \A i \in 1 .. 16 * (t1 - t0) : Unpacked(t0, i - 1) \in Int
    BY <1>1, <1>2, <1>3, RowAtInt
  <2>2. 16 * (t1 - t0) \in Nat
    BY <1>1, <1>2
  <2> QED
    BY <2>1, <2>2
<1>5. Slice(a, b) = SubSeq(rows, a - 16 * t0 + 1, b - 16 * t0)
  BY DEF Slice, t0, t1
<1> DEFINE lo == a - 16 * t0 + 1
           hi == b - 16 * t0
<1>6. lo \in 1 .. Len(rows) /\ hi \in lo .. Len(rows) /\ hi - lo + 1 = b - a
  BY <1>1, <1>2, <1>4
<1>7. ASSUME NEW i \in 1 .. b - a PROVE rows[lo + i - 1] = a + i - 1
  <2>1. lo + i - 1 \in 1 .. 16 * (t1 - t0)
    BY <1>1, <1>2
  <2>2. rows[lo + i - 1] = RowAt(16 * t0 + ((lo + i - 1) - 1))
    BY <1>3, <2>1
  <2>3. 16 * t0 + ((lo + i - 1) - 1) = a + i - 1
    BY <1>1
  <2>4. a + i - 1 < n
    OBVIOUS
  <2> QED
    BY <2>2, <2>3, <2>4 DEF RowAt
<1> HIDE DEF rows, lo, hi
<1>8. /\ SubSeq(rows, lo, hi) \in Seq(Int) /\ Len(SubSeq(rows, lo, hi)) = hi - lo + 1
      /\ \A i \in 1 .. hi - lo + 1 : SubSeq(rows, lo, hi)[i] = rows[lo + i - 1]
  <2>1. lo \in 1 .. Len(rows) + 1 /\ hi \in lo - 1 .. Len(rows)
    BY <1>4, <1>6
  <2> QED
    BY <1>4, <1>6, <2>1, SubSeqProperties
<1> QED
  BY <1>5, <1>6, <1>7, <1>8 DEF lo, hi

----------------------------------------------------------------------------
LEMMA SameTiles ==
  ASSUME n' = n, K' = K
  PROVE  \A x, t : (TileIs(x, t)' <=> TileIs(x, t)) /\ (SzIs(x, t)' <=> SzIs(x, t))
<1>1. KBlocks' = KBlocks /\ Groups' = Groups
  BY DEF KBlocks, Groups
<1>2. \A r : RowAt(r)' = RowAt(r)
  BY DEF RowAt
<1>3. \A x, t, kb, lane, b, half : CodeIs(x, t, kb, lane, b, half)' <=> CodeIs(x, t, kb, lane, b, half)
  BY <1>2 DEF CodeIs
<1> QED
  BY <1>1, <1>2, <1>3 DEF TileIs, SzIs

(* A call does not disturb the weights. *)
LEMMA WeightsUntouched ==
  ASSUME WeightInv, UNCHANGED <<head, wq, wsz, w8, ws8>>, logits' \in Seq(Int), upto' \in Nat
  PROVE  WeightTypeOK' /\ TilesPacked' /\ PackedFp8'
<1>1. WeightTypeOK'
  BY DEF WeightInv, WeightTypeOK, Tile, SzTile, KBlocks, Groups, Codes, K
<1>2. TilesPacked'
  <2>1. TilesPacked
    BY DEF WeightInv
  <2>2. n' = n /\ K' = K
    BY DEF n, K
  <2>3. Tiles' = Tiles /\ KBlocks' = KBlocks /\ Groups' = Groups
    BY <2>2 DEF Tiles, KBlocks, Groups
  <2>4. \A x, t : (TileIs(x, t)' <=> TileIs(x, t)) /\ (SzIs(x, t)' <=> SzIs(x, t))
    BY <2>2, <2>3, SameTiles
  <2> QED
    BY <2>1, <2>3, <2>4 DEF TilesPacked
<1>3. PackedFp8'
  BY DEF WeightInv, PackedFp8, n
<1> QED
  BY <1>1, <1>2, <1>3

LEMMA NarrowComputes ==
  ASSUME WeightInv, Narrow, UNCHANGED <<head, wq, wsz, w8, ws8>>
  PROVE  WeightInv'
<1> head \in Heads
  BY DEF WeightInv, WeightTypeOK
<1> n \in Nat \ {0} /\ Tiles \in Nat /\ n <= 16 * Tiles
  BY HeadDims
<1> DEFINE out == [c \in 1 .. 16 * Tiles |-> KernelColumn(c - 1)]
<1>1. \A c \in 1 .. 16 * Tiles : out[c] = RowAt(c - 1)
  BY ColumnIsRow DEF Narrow
<1>2. out \in Seq(Int) /\ Len(out) = 16 * Tiles
  <2>1. \A c \in 1 .. 16 * Tiles : KernelColumn(c - 1) \in Int
    BY <1>1, RowAtInt
  <2> QED
    BY <2>1
<1> HIDE DEF out
<1>3. 1 \in 1 .. Len(out) + 1 /\ n \in 1 - 1 .. Len(out)
  BY <1>2
<1>4. /\ SubSeq(out, 1, n) \in Seq(Int) /\ Len(SubSeq(out, 1, n)) = n
      /\ \A c \in 1 .. n : SubSeq(out, 1, n)[c] = out[c]
  BY <1>2, <1>3, SubSeqProperties
<1>5. logits' = SubSeq(out, 1, n) /\ upto' = n
  BY DEF Narrow, out
<1>6. \A c \in 1 .. n : logits'[c] = c - 1
  BY <1>1, <1>4, <1>5 DEF RowAt
<1>7. WeightTypeOK' /\ TilesPacked' /\ PackedFp8'
  BY <1>4, <1>5, WeightsUntouched
<1>8. Computed'
  BY <1>4, <1>5, <1>6 DEF Computed, n
<1> QED
  BY <1>7, <1>8 DEF WeightInv

LEMMA WideComputes ==
  ASSUME WeightInv, Wide, UNCHANGED <<head, wq, wsz, w8, ws8>>
  PROVE  WeightInv'
<1> head \in Heads /\ upto \in Nat /\ logits \in Seq(Int)
  BY DEF WeightInv, WeightTypeOK
<1> n \in Nat \ {0} /\ DequantChunk \in Nat \ {0}
  BY HeadDims, WeightAssumption
<1> DEFINE b == Min({upto + DequantChunk, n})
           s == Slice(upto, b)
<1>1. upto < n /\ Len(logits) = upto
  BY DEF Wide, WeightInv, Computed
<1>2. b \in Nat /\ upto < b /\ b <= n /\ b = IF upto + DequantChunk < n THEN upto + DequantChunk ELSE n
  <2> DEFINE a == upto + DequantChunk
  <2>1. a \in Nat /\ upto < a
    OBVIOUS
  <2> HIDE DEF a
  <2>2. Min({a, n}) \in {a, n} /\ \A z \in {a, n} : Min({a, n}) <= z
    BY <2>1, MinIsLeast
  <2>3. Min({a, n}) \in Nat /\ upto < Min({a, n}) /\ Min({a, n}) <= n /\ Min({a, n}) = IF a < n THEN a ELSE n
    BY <1>1, <2>1, <2>2
  <2> QED
    BY <2>3 DEF a
<1> HIDE DEF b
<1>3. s \in Seq(Int) /\ Len(s) = b - upto /\ \A i \in 1 .. b - upto : s[i] = upto + i - 1
  BY <1>2, SliceIsRows DEF Wide
<1>4. logits' = logits \o s /\ upto' = upto + DequantChunk
  BY DEF Wide, b
<1> HIDE DEF s
<1>5. logits' \in Seq(Int) /\ Len(logits') = b
  <2>1. logits \o s \in Seq(Int) /\ Len(logits \o s) = Len(logits) + Len(s)
    BY <1>3, ConcatProperties
  <2> QED
    BY <1>1, <1>2, <1>3, <1>4, <2>1
<1>6. ASSUME NEW c \in 1 .. b PROVE logits'[c] = c - 1
  <2>0. logits'[c] = IF c <= Len(logits) THEN logits[c] ELSE s[c - Len(logits)]
    <3>1. \A i \in 1 .. Len(logits) + Len(s) :
            (logits \o s)[i] = IF i <= Len(logits) THEN logits[i] ELSE s[i - Len(logits)]
      BY <1>3, ConcatProperties
    <3>2. c \in 1 .. Len(logits) + Len(s)
      BY <1>1, <1>2, <1>3
    <3> QED
      BY <1>4, <3>1, <3>2
  <2>1. CASE c <= upto
    BY <1>1, <2>0, <2>1 DEF WeightInv, Computed
  <2>2. CASE c > upto
    <3>1. c - upto \in 1 .. b - upto
      BY <1>2, <2>2
    <3>2. s[c - upto] = upto + (c - upto) - 1
      BY <1>3, <3>1
    <3> QED
      BY <1>1, <1>2, <2>0, <2>2, <3>2
  <2> QED
    BY <1>2, <2>1, <2>2
<1>7. WeightTypeOK' /\ TilesPacked' /\ PackedFp8'
  BY <1>4, <1>5, WeightsUntouched
<1>8. Computed'
  BY <1>2, <1>4, <1>5, <1>6 DEF Computed, n
<1> QED
  BY <1>7, <1>8 DEF WeightInv

LEMMA Fp8Computes ==
  ASSUME WeightInv, Fp8, UNCHANGED <<head, wq, wsz, w8, ws8>>
  PROVE  WeightInv'
<1> head \in Heads /\ w8 \in Seq(Int) /\ ws8 \in Seq(Int)
  BY DEF WeightInv, WeightTypeOK
<1> n \in Nat \ {0}
  BY HeadDims
<1> DEFINE Row(c) == 16 * w8[c \div 16 + 1] + (c % 16)
           out == [c \in 1 .. n |->
                     IF ws8[(c - 1) \div 128 + 1] = Row(c - 1) \div 128 THEN Row(c - 1) ELSE Padding]
<1>1. n % 128 = 0 /\ 16 * Len(w8) = n /\ 128 * Len(ws8) = n
  BY DEF Fp8, WeightInv, PackedFp8
<1>2. ASSUME NEW c \in 1 .. n PROVE out[c] = c - 1
  <2> DEFINE e == c - 1
  <2>1. e \in Nat /\ e < n /\ e \div 16 + 1 \in 1 .. Len(w8) /\ e \div 128 + 1 \in 1 .. Len(ws8)
    BY <1>1
  <2>2. w8[e \div 16 + 1] = e \div 16 /\ ws8[e \div 128 + 1] = e \div 128
    <3> HIDE DEF e
    <3>1. w8[e \div 16 + 1] = (e \div 16 + 1) - 1 /\ ws8[e \div 128 + 1] = (e \div 128 + 1) - 1
      BY <2>1 DEF WeightInv, PackedFp8
    <3> QED
      BY <2>1, <3>1
  <2> HIDE DEF e
  <2>3. Row(e) = e
    BY <2>1, <2>2
  <2> HIDE DEF Row
  <2>4. (IF ws8[e \div 128 + 1] = Row(e) \div 128 THEN Row(e) ELSE Padding) = e
    BY <2>2, <2>3
  <2> QED
    BY <2>4 DEF e
<1>3. logits' = out /\ upto' = n
  BY DEF Fp8
<1> HIDE DEF out
<1>4. logits' \in Seq(Int) /\ Len(logits') = n
  <2>1. out \in [1 .. n -> Int]
    <3>1. \A c \in 1 .. n : out[c] \in Int
      BY <1>2
    <3> QED
      BY <3>1 DEF out
  <2> QED
    BY <1>3, <2>1
<1>5. WeightTypeOK' /\ TilesPacked' /\ PackedFp8'
  BY <1>3, <1>4, WeightsUntouched
<1>6. Computed'
  BY <1>2, <1>3, <1>4 DEF Computed, n
<1> QED
  BY <1>5, <1>6 DEF WeightInv

----------------------------------------------------------------------------
LEMMA PackFp8ChunkKeeps == ASSUME WeightInv, PackFp8Chunk PROVE WeightInv'
<1> head \in Heads /\ w8 \in Seq(Int) /\ ws8 \in Seq(Int)
  BY DEF WeightInv, WeightTypeOK
<1> n \in Nat \ {0} /\ Fp8Rows \in Nat \ {0} /\ Fp8Rows % 128 = 0
  BY HeadDims, WeightAssumption
<1> DEFINE room == n - 16 * Len(w8)
           rows == Min({Fp8Rows, room})
           tiles == [t \in 1 .. rows \div 16 |-> Len(w8) + t - 1]
           blocks == [b \in 1 .. rows \div 128 |-> Len(ws8) + b - 1]
<1>0. n % 128 = 0 /\ room \in Nat \ {0} /\ 128 * Len(ws8) = 16 * Len(w8)
  BY DEF PackFp8Chunk, WeightInv, PackedFp8
<1>1. rows \in Nat /\ rows % 128 = 0 /\ rows <= room
  <2>1. room % 128 = 0
    <3> DEFINE left == n \div 128 - Len(ws8)
    <3>1. room = n - 128 * Len(ws8) /\ n = 128 * (n \div 128)
      BY <1>0
    <3>2. room = 128 * left /\ left \in Int
      BY <3>1
    <3> HIDE DEF left, room
    <3> QED
      BY <3>2
  <2> HIDE DEF room
  <2>2. Min({Fp8Rows, room}) \in {Fp8Rows, room} /\ \A z \in {Fp8Rows, room} : Min({Fp8Rows, room}) <= z
    BY <1>0, MinIsLeast
  <2> HIDE DEF rows
  <2>3. rows \in {Fp8Rows, room} /\ rows <= room
    BY <2>2 DEF rows
  <2> QED
    BY <1>0, <2>1, <2>3
<1>2. w8' = w8 \o tiles /\ ws8' = ws8 \o blocks /\ UNCHANGED <<head, wq, wsz, logits, upto>>
  BY DEF PackFp8Chunk
<1> HIDE DEF room, rows
<1>3. tiles \in Seq(Int) /\ Len(tiles) = rows \div 16
  BY <1>1
<1>4. blocks \in Seq(Int) /\ Len(blocks) = rows \div 128
  BY <1>1
<1>5. \A t \in 1 .. rows \div 16 : tiles[t] = Len(w8) + t - 1
  OBVIOUS
<1>6. \A b \in 1 .. rows \div 128 : blocks[b] = Len(ws8) + b - 1
  OBVIOUS
<1> HIDE DEF tiles, blocks
<1>7. /\ w8' \in Seq(Int) /\ Len(w8') = Len(w8) + rows \div 16
      /\ \A t \in 1 .. Len(w8') : w8'[t] = IF t <= Len(w8) THEN w8[t] ELSE tiles[t - Len(w8)]
  BY <1>2, <1>3, ConcatProperties
<1>8. /\ ws8' \in Seq(Int) /\ Len(ws8') = Len(ws8) + rows \div 128
      /\ \A b \in 1 .. Len(ws8') : ws8'[b] = IF b <= Len(ws8) THEN ws8[b] ELSE blocks[b - Len(ws8)]
  BY <1>2, <1>4, ConcatProperties
<1>9. PackedFp8'
  <2>1. 16 * Len(w8') <= n /\ 128 * Len(ws8') = 16 * Len(w8')
    <3>1. 16 * (rows \div 16) = rows /\ 128 * (rows \div 128) = rows
      BY <1>1
    <3>2. rows <= n - 16 * Len(w8)
      BY <1>1 DEF room
    <3> DEFINE x == rows \div 16
               z == rows \div 128
    <3>3. x \in Nat /\ z \in Nat
      BY <1>1
    <3> HIDE DEF x, z
    <3>4. 16 * x = rows /\ 128 * z = rows /\ Len(w8') = Len(w8) + x /\ Len(ws8') = Len(ws8) + z
      BY <3>1, <1>7, <1>8 DEF x, z
    <3>5. Len(w8) \in Nat /\ Len(ws8) \in Nat
      OBVIOUS
    <3> DEFINE a == Len(w8)
               c == Len(ws8)
    <3>6. a \in Nat /\ c \in Nat /\ 128 * c = 16 * a /\ rows <= n - 16 * a /\ rows \in Nat
      BY <3>2, <3>5, <1>0, <1>1
    <3>7. Len(w8') = a + x /\ Len(ws8') = c + z
      BY <3>4
    <3> HIDE DEF a, c
    <3>8. 16 * (a + x) <= n /\ 128 * (c + z) = 16 * (a + x)
      BY <3>3, <3>4, <3>6
    <3> QED
      BY <3>7, <3>8
  <2>2. ASSUME NEW t \in 1 .. Len(w8') PROVE w8'[t] = t - 1
    <3>1. CASE t <= Len(w8)
      BY <1>7, <3>1 DEF WeightInv, PackedFp8
    <3>2. CASE t > Len(w8)
      <4> DEFINE u == t - Len(w8)
      <4>1. u \in 1 .. rows \div 16 /\ w8'[t] = tiles[u] /\ Len(w8) + u - 1 = t - 1
        BY <1>1, <1>7, <3>2
      <4> HIDE DEF u
      <4> QED
        BY <4>1, <1>5
    <3> QED
      BY <3>1, <3>2, <1>7
  <2>3. ASSUME NEW b \in 1 .. Len(ws8') PROVE ws8'[b] = b - 1
    <3>1. CASE b <= Len(ws8)
      BY <1>8, <3>1 DEF WeightInv, PackedFp8
    <3>2. CASE b > Len(ws8)
      <4> DEFINE u == b - Len(ws8)
      <4>1. u \in 1 .. rows \div 128 /\ ws8'[b] = blocks[u] /\ Len(ws8) + u - 1 = b - 1
        BY <1>1, <1>8, <3>2
      <4> HIDE DEF u
      <4> QED
        BY <4>1, <1>6
    <3> QED
      BY <3>1, <3>2, <1>8
  <2>4. n' = n
    BY <1>2 DEF n
  <2> QED
    BY <2>1, <2>2, <2>3, <2>4 DEF PackedFp8
<1>10. WeightTypeOK' /\ TilesPacked' /\ Computed'
  <2>1. n' = n /\ K' = K
    BY <1>2 DEF n, K
  <2>2. Tiles' = Tiles /\ KBlocks' = KBlocks /\ Groups' = Groups
    BY <2>1 DEF Tiles, KBlocks, Groups
  <2>3. \A x, t : (TileIs(x, t)' <=> TileIs(x, t)) /\ (SzIs(x, t)' <=> SzIs(x, t))
    BY <2>1, SameTiles
  <2>4. TilesPacked'
    BY <1>2, <2>2, <2>3 DEF WeightInv, TilesPacked
  <2>5. WeightTypeOK'
    BY <1>2, <1>7, <1>8, <2>2 DEF WeightInv, WeightTypeOK, Tile, SzTile, Codes
  <2>6. Computed'
    BY <1>2, <2>1 DEF WeightInv, Computed
  <2> QED
    BY <2>4, <2>5, <2>6
<1> QED
  BY <1>9, <1>10 DEF WeightInv

LEMMA PackChunkKeeps == ASSUME WeightInv, PackChunk PROVE WeightInv'
<1> head \in Heads /\ wq \in Seq(Tile) /\ wsz \in Seq(SzTile)
  BY DEF WeightInv, WeightTypeOK
<1> n \in Nat \ {0} /\ K \in Nat \ {0} /\ K % 128 = 0 /\ Tiles \in Nat /\ ChunkTiles \in Nat \ {0}
  BY HeadDims, WeightAssumption
<1> DEFINE done == Len(wq)
           tiles == Min({ChunkTiles, Tiles - done})
           Row(r) == IF 16 * done + r < n THEN 16 * done + r ELSE Padding
           codes == [r \in 0 .. 16 * tiles - 1 |-> [k \in 0 .. K - 1 |-> Code(Row(r), k)]]
           sz == [r \in 0 .. 16 * tiles - 1 |-> [g \in 0 .. K \div GROUP_K - 1 |-> <<Row(r), g>>]]
           newq == PackCodes(codes, tiles)
           newsz == PackSz(sz, tiles)
<1>1. wq' = wq \o newq /\ wsz' = wsz \o newsz /\ UNCHANGED <<head, w8, ws8, logits, upto>>
  BY DEF PackChunk
<1>2. done \in Nat /\ done < Tiles /\ Len(wsz) = done
  <2>1. Len(wq) < Tiles
    BY DEF PackChunk
  <2>2. Len(wsz) = Len(wq) /\ Len(wq) \in Nat
    BY DEF WeightInv, TilesPacked
  <2> QED
    BY <2>1, <2>2
<1>3. tiles \in Nat /\ done + tiles <= Tiles
  <2> DEFINE room == Tiles - done
  <2>1. room \in Nat
    BY <1>2
  <2> HIDE DEF room
  <2>2. Min({ChunkTiles, room}) \in {ChunkTiles, room} /\ \A z \in {ChunkTiles, room} : Min({ChunkTiles, room}) <= z
    BY <2>1, MinIsLeast
  <2>3. Min({ChunkTiles, room}) \in Nat /\ Min({ChunkTiles, room}) <= room
    BY <2>1, <2>2
  <2> QED
    BY <1>2, <2>3 DEF room
<1> HIDE DEF tiles, done
<1>4. \A r \in 0 .. 16 * tiles - 1 : Row(r) = RowAt(16 * done + r) /\ Row(r) \in Int
  BY <1>2, <1>3, RowAtInt DEF RowAt
<1> HIDE DEF Row
(* Codes and scales of the new tiles, where the kernel will look for them. *)
<1>5. ASSUME NEW t \in 1 .. tiles, NEW kb \in KBlocks, NEW lane \in 0 .. 31, NEW b \in 0 .. 15, NEW half \in 0 .. 1
      PROVE /\ CodeIs(newq[t][kb][lane][b][half], done + t, kb, lane, b, half)
            /\ newq[t][kb][lane][b][half] \in Codes
  <2> DEFINE r == 16 * (t - 1) + (lane % 16)
             k == KPB * kb + 16 * (b \div 4) + 8 * half + 4 * (lane \div 16) + (b % 4)
  <2>1. newq[t][kb][lane][b][half] = Nibble(codes, t - 1, kb, lane, b, half)
    BY DEF PackCodes, KBlocks
  <2>2. r \in 0 .. 16 * tiles - 1
    BY <1>3
  <2>3. k \in 0 .. K - 1
    BY DEF KPB, KBlocks
  <2>4. Nibble(codes, t - 1, kb, lane, b, half) = Flip(codes[r][k])
    BY DEF Nibble
  <2> HIDE DEF r, k
  <2>5. codes[r][k] = Code(Row(r), k)
    BY <2>2, <2>3
  <2>6. Row(r) = RowAt(16 * done + r) /\ Row(r) \in Int
    BY <1>4, <2>2
  <2>7. 16 * done + r = 16 * ((done + t) - 1) + (lane % 16)
    BY <1>2 DEF r
  <2>8. Flip(Code(Row(r), k)) \in Codes
    BY <2>3, <2>6 DEF Flip, Code, Codes
  <2> QED
    BY <2>1, <2>4, <2>5, <2>6, <2>7, <2>8 DEF k, CodeIs
<1>6. ASSUME NEW t \in 1 .. tiles, NEW g \in Groups, NEW r \in 0 .. 15
      PROVE /\ newsz[t][g][r] = <<RowAt(16 * ((done + t) - 1) + r), g>>
            /\ newsz[t][g][r] \in Int \X Int
  <2> DEFINE p == 16 * (t - 1) + r
  <2>1. newsz[t][g][r] = sz[p][g]
    BY DEF PackSz, Groups
  <2>2. p \in 0 .. 16 * tiles - 1 /\ 16 * done + p = 16 * ((done + t) - 1) + r
    BY <1>2, <1>3
  <2> HIDE DEF p
  <2>3. sz[p][g] = <<Row(p), g>>
    BY <2>2 DEF Groups
  <2>4. g \in Int
    BY DEF Groups, GROUP_K
  <2>5. Row(p) = RowAt(16 * ((done + t) - 1) + r) /\ Row(p) \in Int
    BY <1>4, <2>2
  <2> HIDE DEF newsz, sz
  <2>6. newsz[t][g][r] = <<Row(p), g>>
    BY <2>1, <2>3
  <2>7. <<Row(p), g>> \in Int \X Int
    BY <2>4, <2>5
  <2> QED
    BY <2>5, <2>6, <2>7
<1>7. newq \in Seq(Tile) /\ Len(newq) = tiles
  <2>1. newq = [t \in 1 .. tiles |-> newq[t]]
    BY DEF PackCodes
  <2>2. ASSUME NEW t \in 1 .. tiles PROVE newq[t] \in Tile
    <3>1. newq[t] = [kb \in KBlocks |-> [lane \in 0 .. 31 |-> [b \in 0 .. 15 |->
                       [half \in 0 .. 1 |-> Nibble(codes, t - 1, kb, lane, b, half)]]]]
      BY DEF PackCodes, KBlocks
    <3> HIDE DEF newq
    <3>2. \A kb \in KBlocks, lane \in 0 .. 31, b \in 0 .. 15, half \in 0 .. 1 :
             Nibble(codes, t - 1, kb, lane, b, half) = newq[t][kb][lane][b][half]
      BY <3>1
    <3>3. ASSUME NEW kb \in KBlocks, NEW lane \in 0 .. 31, NEW b \in 0 .. 15, NEW half \in 0 .. 1
          PROVE  Nibble(codes, t - 1, kb, lane, b, half) \in Codes
      <4>1. newq[t][kb][lane][b][half] \in Codes
        BY <1>5
      <4> QED
        BY <3>2, <4>1
    <3> QED
      BY <3>1, <3>3 DEF Tile
  <2> HIDE DEF newq
  <2>3. newq \in [1 .. tiles -> Tile]
    BY <2>1, <2>2
  <2> QED
    BY <1>3, <2>3
<1>8. newsz \in Seq(SzTile) /\ Len(newsz) = tiles
  <2>1. newsz = [t \in 1 .. tiles |-> newsz[t]]
    BY DEF PackSz
  <2>2. ASSUME NEW t \in 1 .. tiles PROVE newsz[t] \in SzTile
    <3>1. newsz[t] = [g \in Groups |-> [r \in 0 .. 15 |-> sz[16 * (t - 1) + r][g]]]
      BY DEF PackSz, Groups
    <3> HIDE DEF newsz
    <3>2. \A g \in Groups, r \in 0 .. 15 : sz[16 * (t - 1) + r][g] = newsz[t][g][r]
      BY <3>1
    <3>3. ASSUME NEW g \in Groups, NEW r \in 0 .. 15 PROVE sz[16 * (t - 1) + r][g] \in Int \X Int
      <4>1. newsz[t][g][r] \in Int \X Int
        BY <1>6
      <4> HIDE DEF sz
      <4> QED
        BY <3>2, <4>1
    <3> HIDE DEF sz
    <3> QED
      BY <3>1, <3>3 DEF SzTile
  <2> HIDE DEF newsz
  <2>3. newsz \in [1 .. tiles -> SzTile]
    BY <2>1, <2>2
  <2> QED
    BY <1>3, <2>3
<1> HIDE DEF newq, newsz
<1>9. /\ wq' \in Seq(Tile) /\ Len(wq') = done + tiles
      /\ \A t \in 1 .. Len(wq') : wq'[t] = IF t <= done THEN wq[t] ELSE newq[t - done]
  BY <1>1, <1>7, ConcatProperties DEF done
<1>10. /\ wsz' \in Seq(SzTile) /\ Len(wsz') = done + tiles
       /\ \A t \in 1 .. Len(wsz') : wsz'[t] = IF t <= done THEN wsz[t] ELSE newsz[t - done]
  BY <1>1, <1>2, <1>8, ConcatProperties
<1>11. n' = n /\ K' = K
  BY <1>1 DEF n, K
<1>12. Tiles' = Tiles /\ KBlocks' = KBlocks /\ Groups' = Groups
  BY <1>11 DEF Tiles, KBlocks, Groups
<1>13. TilesPacked'
  <2>1. Len(wsz') = Len(wq') /\ Len(wq') <= Tiles
    BY <1>3, <1>9, <1>10
  <2>2. ASSUME NEW t \in 1 .. Len(wq') PROVE TileIs(wq'[t], t) /\ SzIs(wsz'[t], t)
    <3>1. CASE t <= done
      <4>1. wq'[t] = wq[t] /\ wsz'[t] = wsz[t] /\ t \in 1 .. Len(wq)
        BY <1>2, <1>9, <1>10, <3>1 DEF done
      <4> QED
        BY <4>1 DEF WeightInv, TilesPacked
    <3>2. CASE t > done
      <4> DEFINE u == t - done
      <4>1. wq'[t] = newq[u] /\ wsz'[t] = newsz[u] /\ u \in 1 .. tiles /\ done + u = t
        BY <1>2, <1>3, <1>9, <1>10, <3>2
      <4> HIDE DEF u
      <4>2. TileIs(newq[u], done + u)
        BY <4>1, <1>5 DEF TileIs
      <4>3. SzIs(newsz[u], done + u)
        BY <4>1, <1>6 DEF SzIs
      <4> QED
        BY <4>1, <4>2, <4>3
    <3> QED
      BY <1>2, <1>9, <3>1, <3>2
  <2>3. \A x, t : (TileIs(x, t)' <=> TileIs(x, t)) /\ (SzIs(x, t)' <=> SzIs(x, t))
    BY <1>11, SameTiles
  <2> QED
    BY <2>1, <2>2, <2>3, <1>12 DEF TilesPacked
<1>14. WeightTypeOK'
  BY <1>1, <1>9, <1>10, <1>12 DEF WeightInv, WeightTypeOK, Tile, SzTile, Codes
<1>15. PackedFp8' /\ Computed'
  BY <1>1, <1>11 DEF WeightInv, PackedFp8, Computed
<1> QED
  BY <1>13, <1>14, <1>15 DEF WeightInv

----------------------------------------------------------------------------
LEMMA WeightInvInit == WeightInit => WeightInv
<1> SUFFICES ASSUME WeightInit PROVE WeightInv
  OBVIOUS
<1> head \in Heads
  BY DEF WeightInit
<1> n \in Nat \ {0} /\ Tiles \in Nat
  BY HeadDims
<1> QED
  BY DEF WeightInit, WeightInv, WeightTypeOK, TilesPacked, PackedFp8, Computed

LEMMA WeightInvStep == WeightInv /\ [WeightNext]_weightVars => WeightInv'
<1> SUFFICES ASSUME WeightInv, [WeightNext]_weightVars PROVE WeightInv'
  OBVIOUS
<1>1. CASE UNCHANGED weightVars
  <2>1. logits' \in Seq(Int) /\ upto' \in Nat /\ UNCHANGED <<head, wq, wsz, w8, ws8, logits, upto>>
    BY <1>1 DEF weightVars, WeightInv, WeightTypeOK
  <2>2. Computed'
    BY <2>1 DEF WeightInv, Computed, n
  <2> QED
    BY <2>1, <2>2, WeightsUntouched DEF WeightInv
<1>2. CASE Compute
  BY <1>2, NarrowComputes, WideComputes, Fp8Computes DEF Compute
<1> QED
  BY <1>1, <1>2, PackChunkKeeps, PackFp8ChunkKeeps DEF WeightNext

LEMMA WeightInvLogits == WeightInv => LogitsAreOfTheirRows
<1> SUFFICES ASSUME WeightInv, upto >= n PROVE logits = [c \in 1 .. n |-> c - 1]
  BY DEF LogitsAreOfTheirRows
<1>1. n \in Nat \ {0} /\ upto \in Nat /\ logits \in Seq(Int)
  BY HeadDims DEF WeightInv, WeightTypeOK
<1>2. Len(logits) = n /\ \A c \in 1 .. n : logits[c] = c - 1
  BY <1>1 DEF WeightInv, Computed
<1>3. DOMAIN logits = 1 .. n /\ logits = [c \in DOMAIN logits |-> logits[c]]
  BY <1>1, <1>2
<1> QED
  BY <1>2, <1>3

(* LogitsAreOfTheirRows of every behaviour, for every vocabulary and width, *)
(* and whatever chunks the rows are packed and dequantised in: a column    *)
(* that draft_w4_lmhead.py or the fp8 head has dealt with was computed     *)
(* from the weights of its own row.                                        *)
THEOREM LogitsAreRight == WeightSpec => []LogitsAreOfTheirRows
<1>1. WeightSpec => []WeightInv
  BY WeightInvInit, WeightInvStep, PTL DEF WeightSpec
<1> QED
  BY <1>1, WeightInvLogits, PTL

----------------------------------------------------------------------------
(***************************************************************************)
(* Row kernels.  Once all programs of a launch have run, every element is  *)
(* what the separate kernels leave.                                        *)
(*                                                                         *)
(* The programs share nothing but the tensors, and rows that are N apart   *)
(* do not overlap in N addresses (AddressesDiffer): what a program stored  *)
(* stays (TailDone, SiluDone), in any order.  The kernels read rows by a   *)
(* stride and the rest on trust, so each guard has to promise what they    *)
(* take for granted (TailLayouts, SiluShape); and the tensor that          *)
(* empty_like makes has its rows N apart even where it keeps the strides   *)
(* of the input (CopyIsPacked).  The scale is no less than any value of    *)
(* its row, hence the clamp does nothing.                                  *)
(***************************************************************************)

(* What a launch is, and the guard that let it in.                         *)
TailLaunch ==
  /\ launch.path \in {"gate", "gemv"}
  /\ IsLayout(launch.x) /\ IsLayout(launch.w) /\ IsLayout(launch.gate) /\ IsLayout(launch.out)
  /\ \A len \in {launch.x.N, launch.out.N} : \E b \in BlockSizes : b >= len
  /\ launch.path = "gate" => Supported(launch.gate, launch.out)
  /\ launch.path = "gemv" => SupportedGemv(launch.x, launch.w, launch.out)

SiluLaunch ==
  /\ launch.path = "silu"
  /\ launch.x \in Inputs /\ launch.holds \in Contents
  /\ SupportedSilu(launch.x)

(* What the programs that have run left.                                   *)
TailDone ==
  LET done == Rows(launch.out) \ pending IN
  /\ pending \subseteq Rows(launch.out)
  /\ DOMAIN y = {r * launch.out.N + c : r \in done, c \in Cols(launch.out)}
  /\ \A r \in done, c \in Cols(launch.out) : y[r * launch.out.N + c] = StockTail(r, c)

SiluDone ==
  /\ pending \subseteq Rows(launch.x)
  /\ \A r \in Rows(launch.x) \ pending :
       /\ r \in DOMAIN scale /\ scale[r] = StockScale(r)
       /\ \A c \in 0 .. d - 1 :
            /\ r * d + c \in DOMAIN q /\ q[r * d + c] = <<StockAct(r, c), StockScale(r)>>
            /\ launch.write_act =>
                 r * d + c \in DOMAIN y /\ y[r * d + c] = StockAct(r, c)

RowInv ==
  /\ strayed = FALSE
  /\ \/ TailLaunch /\ TailDone
     \/ SiluLaunch /\ SiluDone
     \/ launch.path = "stock" /\ pending = {} /\ y = <<>> /\ q = <<>>

----------------------------------------------------------------------------
(* Lanes.                                                                  *)

LEMMA MinOfPair ==
  ASSUME NEW a \in Nat, NEW b \in Nat PROVE Min({a, b}) \in {a, b}
<1>1. {a, b} \subseteq Nat /\ {a, b} # {}
  OBVIOUS
<1> QED BY <1>1, MinIsLeast

LEMMA BlockSize ==
  ASSUME NEW len \in Nat, \E b \in BlockSizes : b >= len
  PROVE  /\ NextPowerOf2(len) \in Nat \ {0}
         /\ LaneBlock(len) \in Nat \ {0}
<1>1. BlockSizes \subseteq Nat \ {0} /\ MaxLanes \in Nat \ {0}
  BY RowAssumption
<1>2. NextPowerOf2(len) \in {b \in BlockSizes : b >= len}
  <2>1. {b \in BlockSizes : b >= len} \subseteq Nat /\ {b \in BlockSizes : b >= len} # {}
    BY <1>1
  <2> QED BY <2>1, MinIsLeast DEF NextPowerOf2
<1>3. NextPowerOf2(len) \in Nat \ {0}
  BY <1>1, <1>2
<1>4. LaneBlock(len) \in {MaxLanes, NextPowerOf2(len)}
  BY <1>1, <1>3, MinOfPair DEF LaneBlock
<1> QED BY <1>1, <1>3, <1>4

(* The blocks together cover every column, and the mask stops there.       *)
LEMMA LanesAreColumns ==
  ASSUME NEW len \in Nat, NEW b \in Nat \ {0}
  PROVE  Lanes(len, b) = 0 .. len - 1
<1> DEFINE k == (len + b - 1) \div b
<1>1. k \in Int /\ b * k >= len
  <2>1. k \in Int /\ len + b - 1 < b * k + b
    BY QuotientBounds, len + b - 1 \in Int
  <2> HIDE DEF k
  <2>2. b * k \in Int
    BY <2>1
  <2> DEFINE p == b * k
  <2>3. p \in Int /\ len + b - 1 < p + b
    BY <2>1, <2>2
  <2> HIDE DEF p
  <2>4. p >= len
    BY <2>3
  <2> QED BY <2>1, <2>4 DEF p
<1> HIDE DEF k
<1>2. b * k \in Int
  BY <1>1
<1> DEFINE p == b * k
<1>3. p \in Int /\ p >= len
  BY <1>1, <1>2
<1>4. Lanes(len, b) = {c \in 0 .. p - 1 : c < len}
  BY DEF Lanes, k, p
<1> HIDE DEF p
<1> QED BY <1>3, <1>4

----------------------------------------------------------------------------
(* Addresses.                                                              *)

(* Rows that are n apart do not overlap in their first n addresses.        *)
LEMMA AddressesDiffer ==
  ASSUME NEW len \in Nat, NEW r \in Nat, NEW i \in Nat, NEW c \in 0 .. len - 1, NEW e \in 0 .. len - 1,
         r * len + c = i * len + e
  PROVE  r = i /\ c = e
<1>1. ASSUME NEW a \in Nat, NEW b \in Nat, a < b PROVE a * len + len <= b * len
  <2>1. (a + 1) * len <= b * len
    BY <1>1, ProductMonotone
  <2>2. (a + 1) * len = a * len + len
    OBVIOUS
  <2> QED BY <2>1, <2>2
<1> DEFINE rn == r * len
           jn == i * len
<1>2. rn \in Nat /\ jn \in Nat /\ rn + c = jn + e
  OBVIOUS
<1>3. (r < i => rn + len <= jn) /\ (i < r => jn + len <= rn)
  BY <1>1
<1> HIDE DEF rn, jn
<1>4. r = i
  BY <1>2, <1>3
<1>5. rn = jn
  BY <1>4 DEF rn, jn
<1> QED BY <1>2, <1>4, <1>5

(* A row of n addresses lies among the first t * n.                          *)
LEMMA AddressBounded ==
  ASSUME NEW t \in Nat, NEW len \in Nat, NEW r \in 0 .. t - 1, NEW c \in 0 .. len - 1
  PROVE  r * len + c \in 0 .. t * len - 1
<1>1. (r + 1) * len <= t * len /\ (r + 1) * len = r * len + len
  BY ProductMonotone
<1> DEFINE rn == r * len
           tn == t * len
<1>2. rn \in Nat /\ tn \in Nat /\ rn + len <= tn
  BY <1>1
<1> HIDE DEF rn, tn
<1>3. rn + c \in 0 .. tn - 1
  BY <1>2
<1> QED BY <1>3 DEF rn, tn

(* The copy that empty_like makes is always read at r * N + c: a tensor of *)
(* contiguous rows has no gaps only if its rows follow one another.        *)
LEMMA CopyIsPacked ==
  ASSUME NEW a, IsLayout(a), a.s1 = 1, NEW r \in Rows(a), NEW c \in Cols(a)
  PROVE  Elem(EmptyLike(a), r, c) = r * a.N + c
<1>1. a.T \in Nat /\ a.N \in Nat /\ a.s0 \in Nat /\ r \in 0 .. a.T - 1 /\ c \in 0 .. a.N - 1
  BY DEF IsLayout, Rows, Cols
<1>2. CASE Elems(a) # 0 .. a.T * a.N - 1
  BY <1>1, <1>2 DEF EmptyLike, Elem, Packed
<1>3. CASE Elems(a) = 0 .. a.T * a.N - 1
  <2>1. EmptyLike(a) = a /\ Elem(a, r, c) = r * a.s0 + c
    BY <1>1, <1>3 DEF EmptyLike, Elem
  <2>2. CASE a.s0 = a.N
    BY <2>1, <2>2
  <2>3. CASE r = 0
    BY <1>1, <2>1, <2>3
  <2>4. ASSUME r # 0, a.s0 # a.N PROVE FALSE
    <3> DEFINE T == a.T
               N == a.N
               S == a.s0
    <3>1. T \in Nat /\ N \in Nat /\ S \in Nat /\ T >= 2 /\ N >= 1 /\ S # N
      BY <1>1, <2>4
    <3>2. \A i \in 0 .. T - 1, e \in 0 .. N - 1 : i * S + e \in 0 .. T * N - 1
      BY <1>1, <1>3 DEF Elem, Elems, Rows, Cols, IsLayout
    <3>3. \A v \in 0 .. T * N - 1 : \E i \in 0 .. T - 1, e \in 0 .. N - 1 : v = i * S + e
      <4> SUFFICES ASSUME NEW v \in 0 .. T * N - 1
                   PROVE  \E i \in 0 .. T - 1, e \in 0 .. N - 1 : v = i * S + e
        OBVIOUS
      <4>1. PICK i \in Rows(a), e \in Cols(a) : v = Elem(a, i, e)
        BY <1>3 DEF Elems
      <4>2. i \in 0 .. T - 1 /\ e \in 0 .. N - 1 /\ v = i * S + e
        BY <4>1, <1>1 DEF Elem, Rows, Cols
      <4> QED BY <4>2
    <3> HIDE DEF T, N, S
    <3>4. T * N \in Nat /\ T * N >= 2 * N
      BY <3>1, ProductMonotone
    <3>5. ASSUME S > N PROVE FALSE
      <4>1. N \in 0 .. T * N - 1
        BY <3>1, <3>4
      <4>2. PICK i \in 0 .. T - 1, e \in 0 .. N - 1 : N = i * S + e
        BY <3>3, <4>1
      <4>3. CASE i = 0
        BY <3>1, <4>2, <4>3
      <4>4. CASE i >= 1
        <5>1. 1 * S <= i * S /\ i * S \in Nat
          BY <3>1, <4>4, ProductMonotone
        <5> QED BY <3>1, <3>5, <4>2, <5>1
      <4> QED BY <3>1, <4>3, <4>4
    <3>6. ASSUME S < N PROVE FALSE
      <4>1. PICK i \in 0 .. T - 1, e \in 0 .. N - 1 : T * N - 1 = i * S + e
        BY <3>1, <3>3, <3>4
      <4>2. i * S \in Nat /\ i * S <= i * (N - 1)
        <5>1. S <= N - 1 /\ N - 1 \in Nat
          BY <3>1, <3>6
        <5>2. S * i <= (N - 1) * i
          BY <3>1, <5>1, ProductMonotone
        <5> QED BY <3>1, <5>2
      <4>3. i * (N - 1) = i * N - i /\ i * N \in Nat
        BY <3>1
      <4>4. (i + 1) * N <= T * N /\ (i + 1) * N = i * N + N
        BY <3>1, ProductMonotone
      <4> DEFINE iS == i * S
                 iN == i * N
                 TN == T * N
      <4>5. /\ iS \in Nat /\ iN \in Nat /\ TN \in Nat
            /\ TN - 1 = iS + e /\ iS <= iN - i /\ iN + N <= TN /\ TN >= 2 * N
            /\ (i = 0 => iS = 0)
        BY <3>1, <3>4, <4>1, <4>2, <4>3, <4>4
      <4> HIDE DEF iS, iN, TN
      <4> QED BY <3>1, <4>5
    <3> QED BY <3>1, <3>5, <3>6
  <2> QED BY <1>1, <2>2, <2>3, <2>4
<1> QED BY <1>2, <1>3

LEMMA CopyHolds ==
  ASSUME NEW a, IsLayout(a), a.s1 = 1, NEW r \in Rows(a), NEW c \in Cols(a)
  PROVE  r * a.N + c \in Elems(EmptyLike(a))
<1>1. Elem(EmptyLike(a), r, c) = r * a.N + c
  BY CopyIsPacked
<1>2. Rows(EmptyLike(a)) = Rows(a) /\ Cols(EmptyLike(a)) = Cols(a)
  BY DEF EmptyLike, Packed, Rows, Cols
<1> QED BY <1>1, <1>2 DEF Elems

LEMMA CopyElements ==
  ASSUME NEW a, IsLayout(a), a.s1 = 1
  PROVE  Elems(EmptyLike(a)) = {r * a.N + c : r \in Rows(a), c \in Cols(a)}
<1>1. Rows(EmptyLike(a)) = Rows(a) /\ Cols(EmptyLike(a)) = Cols(a)
  BY DEF EmptyLike, Packed, Rows, Cols
<1>2. \A r \in Rows(a), c \in Cols(a) : Elem(EmptyLike(a), r, c) = r * a.N + c
  BY CopyIsPacked
<1> QED BY <1>1, <1>2 DEF Elems

----------------------------------------------------------------------------
(* The tail.                                                               *)

(* What the guards promise of the tensors.                                 *)
LEMMA TailLayouts ==
  ASSUME TailLaunch
  PROVE  /\ launch.out.s1 = 1
         /\ launch.path = "gate" =>
              launch.gate.N = 1 /\ launch.gate.T = launch.out.T /\ launch.gate.s0 = 1
         /\ launch.path = "gemv" =>
              /\ launch.w.T = 1 /\ launch.w.N = launch.x.N /\ launch.w.s1 = 1
              /\ launch.x.T = launch.out.T /\ launch.x.s1 = 1
BY DEF TailLaunch, Supported, SupportedGemv

LEMMA TailLanes ==
  ASSUME TailLaunch
  PROVE  /\ Lanes(launch.out.N, LaneBlock(launch.out.N)) = Cols(launch.out)
         /\ XLanes = Cols(launch.x)
<1>1. launch.out.N \in Nat /\ launch.x.N \in Nat
  BY DEF TailLaunch, IsLayout
<1>2. LaneBlock(launch.out.N) \in Nat \ {0} /\ LaneBlock(launch.x.N) \in Nat \ {0}
  BY <1>1, BlockSize DEF TailLaunch
<1> QED BY <1>1, <1>2, LanesAreColumns DEF XLanes, Cols

(* A program's scalar is the dot product of its own row.                   *)
LEMMA ScalarIsDot ==
  ASSUME TailLaunch, NEW r \in Rows(launch.out)
  PROVE  Scalar(r) = Dot(r)
<1>1. r \in Int /\ launch.x.s0 \in Nat /\ launch.w.s0 \in Nat /\ launch.x.N \in Nat
  BY DEF TailLaunch, IsLayout, Rows
<1>2. CASE launch.path = "gate"
  <2>1. \A j \in Rows(launch.gate) : Elem(launch.gate, j, 0) = j
    BY <1>2, TailLayouts DEF Elem, Rows, TailLaunch, IsLayout
  <2>2. r \in Rows(launch.gate)
    BY <1>2, TailLayouts DEF Rows
  <2>3. {j \in Rows(launch.gate) : Elem(launch.gate, j, 0) = r} = {r}
    BY <2>1, <2>2
  <2> QED BY <1>2, <2>3 DEF Scalar
<1>3. CASE launch.path = "gemv"
  <2>1. \A k \in Cols(launch.x) :
          Elem(launch.x, r, k) = r * launch.x.s0 + k /\ Elem(launch.w, 0, k) = k
    BY <1>1, <1>3, TailLayouts DEF Elem, Cols
  <2>2. Scalar(r) = {<<r * launch.x.s0 + k, k>> : k \in Cols(launch.x)}
    BY <1>3, TailLanes DEF Scalar
  <2> QED BY <2>1, <2>2 DEF Dot
<1> QED BY <1>2, <1>3 DEF TailLaunch

(* A program stays within its tensors.                                     *)
LEMMA TailStays ==
  ASSUME TailLaunch, NEW r \in Rows(launch.out)
  PROVE  ~ Strays(TailTouches(r))
<1> SUFFICES ASSUME NEW p \in TailTouches(r) PROVE p[2] \in Elems(p[1])
  BY DEF Strays
<1>1. r \in Int /\ IsLayout(launch.out)
  BY DEF TailLaunch, IsLayout, Rows
<1>2. Lanes(launch.out.N, LaneBlock(launch.out.N)) = Cols(launch.out) /\ XLanes = Cols(launch.x)
  BY TailLanes
<1>3. CASE \E c \in Cols(launch.out) : p = <<EmptyLike(launch.out), RowOfY(r) + c>>
  BY <1>1, <1>3, CopyHolds, TailLayouts DEF RowOfY
<1>4. CASE \E c \in Cols(launch.out) : p = <<launch.out, RowOfOut(r) + c>>
  <2>1. PICK c \in Cols(launch.out) : p = <<launch.out, RowOfOut(r) + c>>
    BY <1>4
  <2>2. Elem(launch.out, r, c) = RowOfOut(r) + c
    BY <1>1, TailLayouts DEF Elem, RowOfOut, Cols, IsLayout
  <2> QED BY <2>1, <2>2 DEF Elems
<1>5. CASE launch.path = "gate" /\ p = <<launch.gate, r>>
  <2>1. r \in Rows(launch.gate) /\ 0 \in Cols(launch.gate)
    BY <1>5, TailLayouts DEF Rows, Cols
  <2>2. Elem(launch.gate, r, 0) = r
    BY <1>1, <1>5, TailLayouts DEF Elem, TailLaunch, IsLayout
  <2> QED BY <1>5, <2>1, <2>2 DEF Elems
<1>6. CASE launch.path = "gemv" /\ \E k \in Cols(launch.x) : p = <<launch.x, r * launch.x.s0 + k>>
  <2>1. PICK k \in Cols(launch.x) : p = <<launch.x, r * launch.x.s0 + k>>
    BY <1>6
  <2>2. r \in Rows(launch.x)
    BY <1>6, TailLayouts DEF Rows
  <2>3. Elem(launch.x, r, k) = r * launch.x.s0 + k
    BY <1>1, <1>6, TailLayouts DEF Elem, Cols, TailLaunch, IsLayout
  <2> QED BY <2>1, <2>2, <2>3 DEF Elems
<1>7. CASE launch.path = "gemv" /\ \E k \in Cols(launch.x) : p = <<launch.w, k>>
  <2>1. PICK k \in Cols(launch.x) : p = <<launch.w, k>>
    BY <1>7
  <2>2. 0 \in Rows(launch.w) /\ k \in Cols(launch.w)
    BY <1>7, TailLayouts DEF Rows, Cols
  <2>3. Elem(launch.w, 0, k) = k
    BY <1>7, TailLayouts DEF Elem, Cols, TailLaunch, IsLayout
  <2> QED BY <2>1, <2>2, <2>3 DEF Elems
<1>8. \/ \E c \in Cols(launch.out) : p = <<EmptyLike(launch.out), RowOfY(r) + c>>
      \/ \E c \in Cols(launch.out) : p = <<launch.out, RowOfOut(r) + c>>
      \/ launch.path = "gate" /\ p = <<launch.gate, r>>
      \/ launch.path = "gemv" /\ \E k \in Cols(launch.x) : p = <<launch.x, r * launch.x.s0 + k>>
      \/ launch.path = "gemv" /\ \E k \in Cols(launch.x) : p = <<launch.w, k>>
  <2>1. CASE launch.path = "gate"
    BY <1>2, <2>1 DEF TailTouches
  <2>2. CASE launch.path = "gemv"
    BY <1>2, <2>2 DEF TailTouches
  <2> QED BY <2>1, <2>2 DEF TailLaunch
<1> QED BY <1>3, <1>4, <1>5, <1>6, <1>7, <1>8

(* What a launch is does not change with a step.                           *)
LEMMA LaunchKept ==
  ASSUME launch' = launch
  PROVE  /\ TailLaunch' <=> TailLaunch
         /\ SiluLaunch' <=> SiluLaunch
BY DEF TailLaunch, SiluLaunch

LEMMA TailKeeps ==
  ASSUME TailLaunch, TailDone, NEW r \in pending, TailProgram(r),
         pending' = pending \ {r}, launch' = launch, strayed = FALSE
  PROVE  TailDone' /\ strayed' = FALSE
<1> DEFINE N == launch.out.N
           done == Rows(launch.out) \ pending
           row == {r * N + c : c \in Cols(launch.out)}
           f == [a \in row |-> <<Scalar(r), a - RowOfY(r) + RowOfOut(r)>>]
<1>1. r \in Rows(launch.out) /\ r \in Nat /\ N \in Nat /\ launch.out.s0 \in Nat
  BY DEF TailDone, TailLaunch, IsLayout, Rows
<1>2. y' = Stored(y, f)
  BY TailLanes DEF TailProgram, RowOfY
<1>3. DOMAIN f = row
  OBVIOUS
<1>4. DOMAIN y' = DOMAIN y \cup row
  BY <1>2, <1>3 DEF Stored
<1>5. Rows(launch.out)' = Rows(launch.out) /\ Cols(launch.out)' = Cols(launch.out)
  BY DEF Rows, Cols
<1>6. Rows(launch.out) \ pending' = done \cup {r}
  BY <1>1
<1>7. DOMAIN y' = {i * N + c : i \in done \cup {r}, c \in Cols(launch.out)}
  BY <1>4 DEF TailDone
<1>8. ASSUME NEW c \in Cols(launch.out) PROVE y'[r * N + c] = StockTail(r, c)
  <2>1. r * N + c \in row
    OBVIOUS
  <2>2. y'[r * N + c] = f[r * N + c]
    BY <1>2, <1>3, <2>1 DEF Stored
  <2>3. f[r * N + c] = <<Scalar(r), (r * N + c) - r * N + r * launch.out.s0>>
    BY <2>1 DEF RowOfY, RowOfOut
  <2>4. (r * N + c) - r * N + r * launch.out.s0 = Elem(launch.out, r, c)
    BY <1>1, TailLayouts DEF Elem, Cols
  <2> QED BY <1>1, <2>2, <2>3, <2>4, ScalarIsDot DEF StockTail
<1>9. ASSUME NEW i \in done, NEW c \in Cols(launch.out) PROVE y'[i * N + c] = StockTail(i, c)
  <2>1. i \in Nat /\ i # r
    BY <1>1 DEF Rows
  <2>2. i * N + c \notin row
    <3> SUFFICES ASSUME NEW e \in Cols(launch.out), i * N + c = r * N + e PROVE FALSE
      OBVIOUS
    <3>1. c \in 0 .. N - 1 /\ e \in 0 .. N - 1
      BY DEF Cols
    <3> QED BY <1>1, <2>1, <3>1, AddressesDiffer
  <2>3. i * N + c \in DOMAIN y
    BY DEF TailDone
  <2>4. y'[i * N + c] = y[i * N + c]
    BY <1>2, <1>3, <2>2, <2>3 DEF Stored
  <2> QED BY <2>4 DEF TailDone
<1>10. \A i, c : StockTail(i, c)' = StockTail(i, c)
  BY DEF StockTail, Dot, Elem, Cols
<1>11. TailDone'
  <2>1. pending' \subseteq Rows(launch.out)
    BY DEF TailDone
  <2>2. \A i \in done \cup {r}, c \in Cols(launch.out) : y'[i * N + c] = StockTail(i, c)
    BY <1>8, <1>9
  <2> HIDE DEF done, N
  <2> QED BY <1>5, <1>6, <1>7, <1>10, <2>1, <2>2 DEF TailDone, N
<1>12. strayed' = FALSE
  <2>1. strayed' = (strayed \/ Strays(TailTouches(r)))
    BY DEF TailProgram
  <2>2. ~ Strays(TailTouches(r))
    BY <1>1, TailStays
  <2> QED BY <2>1, <2>2
<1> QED BY <1>11, <1>12

----------------------------------------------------------------------------
(* Largest members.                                                        *)

(* Every value of an integer function on 0 .. k - 1 is bounded by one.     *)
LEMMA ValuesHaveMax ==
  ASSUME NEW f, NEW k \in Nat \ {0}, \A c \in 0 .. k - 1 : f[c] \in Int
  PROVE  \E m \in 0 .. k - 1 : \A c \in 0 .. k - 1 : f[m] >= f[c]
<1> DEFINE good == {j \in Nat : j + 1 <= k => \E m \in 0 .. j : \A c \in 0 .. j : f[m] >= f[c]}
<1>1. 0 \in good
  BY 0 \in 0 .. 0
<1>2. ASSUME NEW j \in Nat, j \in good PROVE j + 1 \in good
  <2> SUFFICES ASSUME j + 2 <= k
               PROVE  \E m \in 0 .. j + 1 : \A c \in 0 .. j + 1 : f[m] >= f[c]
    OBVIOUS
  <2>1. PICK m \in 0 .. j : \A c \in 0 .. j : f[m] >= f[c]
    BY <1>2
  <2>2. \A c \in 0 .. j + 1 : f[c] \in Int
    OBVIOUS
  <2>3. \A c \in 0 .. j + 1 : c \in 0 .. j \/ c = j + 1
    OBVIOUS
  <2>4. m \in 0 .. j + 1 /\ j + 1 \in 0 .. j + 1
    OBVIOUS
  <2>5. CASE f[m] >= f[j + 1]
    <3>1. \A c \in 0 .. j + 1 : f[m] >= f[c]
      BY <2>1, <2>3, <2>5
    <3> QED BY <2>4, <3>1
  <2>6. CASE ~ (f[m] >= f[j + 1])
    <3>1. \A c \in 0 .. j + 1 : f[j + 1] >= f[c]
      <4> SUFFICES ASSUME NEW c \in 0 .. j + 1 PROVE f[j + 1] >= f[c]
        OBVIOUS
      <4>1. f[m] \in Int /\ f[j + 1] \in Int /\ f[c] \in Int
        BY <2>2, <2>4
      <4> QED BY <2>1, <2>3, <2>6, <4>1
    <3> QED BY <2>4, <3>1
  <2> QED BY <2>5, <2>6
<1>3. Nat \subseteq good
  <2> HIDE DEF good
  <2> QED BY <1>1, <1>2, NatSetInduction
<1>4. k - 1 \in good /\ (k - 1) + 1 = k
  BY <1>3
<1> QED BY <1>4

LEMMA MaxIsMost ==
  ASSUME NEW S \in SUBSET Int, \E m \in S : \A v \in S : m >= v
  PROVE  Max(S) \in S /\ \A v \in S : Max(S) >= v
BY DEF Max

LEMMA MaxIsIt ==
  ASSUME NEW S \in SUBSET Int, NEW m \in S, \A v \in S : m >= v
  PROVE  Max(S) = m
<1> DEFINE x == Max(S)
<1>1. x \in S /\ x >= m
  BY MaxIsMost
<1> HIDE DEF x
<1>2. x \in Int /\ m \in Int /\ m >= x
  BY <1>1
<1>3. x = m
  BY <1>1, <1>2
<1> QED BY <1>3 DEF x

(* The largest of a set and a floor, taken in one step or in two.          *)
LEMMA MaxWithFloor ==
  ASSUME NEW S \in SUBSET Int, NEW floor \in Int, \E m \in S : \A v \in S : m >= v
  PROVE  /\ Max({Max(S), floor}) = Max(S \cup {floor})
         /\ Max(S \cup {floor}) \in Int
         /\ \A v \in S : Max(S \cup {floor}) >= v
<1>1. Max(S) \in Int /\ Max(S) \in S /\ \A v \in S : Max(S) >= v
  BY MaxIsMost
<1> DEFINE m == Max(S)
<1> HIDE DEF m
<1>2. m \in Int /\ m \in S /\ \A v \in S : m >= v
  BY <1>1 DEF m
<1>3. CASE m >= floor
  <2>1. Max({m, floor}) = m
    BY <1>2, <1>3, MaxIsIt
  <2>2. Max(S \cup {floor}) = m
    BY <1>2, <1>3, MaxIsIt
  <2> QED BY <1>2, <2>1, <2>2 DEF m
<1>4. CASE ~ (m >= floor)
  <2>1. Max({m, floor}) = floor
    <3>1. floor >= m /\ floor >= floor /\ {m, floor} \in SUBSET Int
      BY <1>2, <1>4
    <3> QED BY <3>1, MaxIsIt
  <2>2. \A v \in S \cup {floor} : floor >= v
    <3> SUFFICES ASSUME NEW v \in S \cup {floor} PROVE floor >= v
      OBVIOUS
    <3> QED BY <1>2, <1>4
  <2>3. Max(S \cup {floor}) = floor
    BY <2>2, MaxIsIt
  <2> QED BY <2>1, <2>2, <2>3 DEF m
<1> QED BY <1>3, <1>4

----------------------------------------------------------------------------
(* The activation.                                                         *)

LEMMA SiluShape ==
  ASSUME SiluLaunch
  PROVE  /\ IsLayout(launch.x) /\ launch.x.s1 = 1
         /\ d \in Nat \ {0} /\ launch.x.N = 2 * d
         /\ Lanes(d, NextPowerOf2(d)) = 0 .. d - 1
<1>1. IsLayout(launch.x) /\ launch.x.N >= 2 /\ \E b \in BlockSizes : b >= launch.x.N \div 2
  BY RowAssumption DEF SiluLaunch
<1>2. launch.x.N % 2 = 0 /\ launch.x.s1 = 1 /\ launch.x.N \in Nat
  BY <1>1 DEF SiluLaunch, SupportedSilu, IsLayout
<1>3. d \in Nat \ {0} /\ launch.x.N = 2 * d
  BY <1>1, <1>2 DEF d
<1>4. NextPowerOf2(d) \in Nat \ {0}
  BY <1>1, <1>3, BlockSize DEF d
<1> QED BY <1>1, <1>2, <1>3, <1>4, LanesAreColumns

(* The two halves of a row, and what comes of them.                        *)
LEMMA SiluAddress ==
  ASSUME SiluLaunch, NEW r \in Rows(launch.x), NEW c \in 0 .. d - 1
  PROVE  /\ Elem(launch.x, r, c) = r * launch.x.s0 + c
         /\ Elem(launch.x, r, d + c) = r * launch.x.s0 + d + c
         /\ c \in Cols(launch.x) /\ d + c \in Cols(launch.x)
         /\ StockAct(r, c) \in Int /\ Abs(StockAct(r, c)) \in Int
<1>1. /\ launch.x.s0 \in Nat /\ launch.x.s1 = 1 /\ d \in Nat /\ launch.x.N = 2 * d
      /\ r \in Int /\ launch.x.T \in Nat /\ r \in 0 .. launch.x.T - 1
  BY SiluShape DEF IsLayout, Rows
<1>2. Elem(launch.x, r, c) = r * launch.x.s0 + c /\ Elem(launch.x, r, d + c) = r * launch.x.s0 + d + c
  <2> DEFINE rs == r * launch.x.s0
  <2>1. rs \in Int
    BY <1>1
  <2>2. Elem(launch.x, r, c) = rs + c * 1 /\ Elem(launch.x, r, d + c) = rs + (d + c) * 1
    BY <1>1 DEF Elem
  <2> HIDE DEF rs
  <2>3. Elem(launch.x, r, c) = rs + c /\ Elem(launch.x, r, d + c) = rs + d + c
    BY <1>1, <2>1, <2>2
  <2> QED BY <2>3 DEF rs
<1>3. c \in 0 .. launch.x.N - 1 /\ d + c \in 0 .. launch.x.N - 1
  BY <1>1
<1>4. /\ launch.holds[Elem(launch.x, r, c)] \in DOMAIN Silu
      /\ launch.holds[Elem(launch.x, r, d + c)] \in DOMAIN Silu
  BY <1>1, <1>3, RowAssumption DEF SiluLaunch, Elem
<1>5. StockAct(r, c) \in Int
  <2> DEFINE g == launch.holds[Elem(launch.x, r, c)]
             u == launch.holds[Elem(launch.x, r, d + c)]
  <2>1. Silu[g] \in Int /\ u \in Int
    BY <1>4, RowAssumption
  <2>2. \A v \in Int : Round(v) \in Int
    BY DEF Round
  <2>3. StockAct(r, c) = Round((Round(Silu[g]) * u) \div 8)
    BY DEF StockAct
  <2> HIDE DEF g, u
  <2>4. Round(Silu[g]) * u \in Int
    BY <2>1, <2>2
  <2>5. \A v \in Int : v \div 8 \in Int
    OBVIOUS
  <2> QED BY <2>2, <2>3, <2>4, <2>5
<1> QED BY <1>2, <1>3, <1>5 DEF Abs, Cols

(* The scale that a program computes is the stock one, and no value is     *)
(* beyond it.                                                              *)
LEMMA ScaleIsStock ==
  ASSUME SiluLaunch, NEW r \in Rows(launch.x)
  PROVE  LET S == {Abs(StockAct(r, c)) : c \in 0 .. d - 1} IN
         /\ Max({Max(S), ScaleFloor}) = StockScale(r)
         /\ StockScale(r) \in Int
         /\ \A c \in 0 .. d - 1 : StockScale(r) >= Abs(StockAct(r, c))
<1> DEFINE S == {Abs(StockAct(r, c)) : c \in 0 .. d - 1}
           f == [c \in 0 .. d - 1 |-> Abs(StockAct(r, c))]
<1>1. d \in Nat \ {0} /\ ScaleFloor \in Int
  BY SiluShape, RowAssumption
<1>2. \A c \in 0 .. d - 1 : f[c] \in Int
  BY SiluAddress
<1>3. S \in SUBSET Int
  BY <1>2
<1>4. \E m \in S : \A v \in S : m >= v
  <2>1. PICK m \in 0 .. d - 1 : \A c \in 0 .. d - 1 : f[m] >= f[c]
    <3> HIDE DEF f
    <3> QED BY <1>1, <1>2, ValuesHaveMax
  <2> QED BY <2>1
<1>5. StockScale(r) = Max(S \cup {ScaleFloor})
  BY DEF StockScale
<1>6. \A c \in 0 .. d - 1 : Abs(StockAct(r, c)) \in S
  OBVIOUS
<1> HIDE DEF S
<1>7. /\ Max({Max(S), ScaleFloor}) = StockScale(r)
      /\ StockScale(r) \in Int
      /\ \A v \in S : StockScale(r) >= v
  BY <1>1, <1>3, <1>4, <1>5, MaxWithFloor
<1> QED BY <1>6, <1>7 DEF S

(* A program of the activation, told in terms of the separate kernels.     *)
LEMMA SiluStores ==
  ASSUME SiluLaunch, NEW r \in Rows(launch.x), SiluProgram(r), strayed = FALSE
  PROVE  LET stores == {r * d + c : c \in 0 .. d - 1} IN
         /\ strayed' = FALSE
         /\ scale' = Stored(scale, [i \in {r} |-> StockScale(r)])
         /\ q' = Stored(q, [a \in stores |-> <<StockAct(r, a - r * d), StockScale(r)>>])
         /\ launch.write_act => y' = Stored(y, [a \in stores |-> StockAct(r, a - r * d)])
         /\ ~ launch.write_act => y' = y
<1> DEFINE base == r * launch.x.s0
           stores == {r * d + c : c \in 0 .. d - 1}
           Prod(c) == Product(launch.holds[base + c], launch.holds[base + d + c])
           s == Max({Amax({Prod(c) : c \in 0 .. d - 1}), ScaleFloor})
<1>1. d \in Nat \ {0} /\ Lanes(d, NextPowerOf2(d)) = 0 .. d - 1
  BY SiluShape
<1>2. /\ q' = Stored(q, [a \in stores |-> Quantised(Round(Prod(a - r * d)), s)])
      /\ scale' = Stored(scale, [i \in {r} |-> s])
      /\ y' = IF launch.write_act THEN Stored(y, [a \in stores |-> Round(Prod(a - r * d))]) ELSE y
      /\ strayed' = (strayed \/ Strays({<<launch.x, base + c>> : c \in 0 .. d - 1}
                                         \cup {<<launch.x, base + d + c>> : c \in 0 .. d - 1}))
  BY <1>1 DEF SiluProgram
<1>3. ASSUME NEW c \in 0 .. d - 1 PROVE Round(Prod(c)) = StockAct(r, c)
  BY SiluAddress DEF StockAct, Product
<1>4. {Abs(Round(p)) : p \in {Prod(c) : c \in 0 .. d - 1}} = {Abs(StockAct(r, c)) : c \in 0 .. d - 1}
  <2>1. {Abs(Round(p)) : p \in {Prod(c) : c \in 0 .. d - 1}} = {Abs(Round(Prod(c))) : c \in 0 .. d - 1}
    OBVIOUS
  <2> QED BY <1>3, <2>1
<1>5. s = StockScale(r)
  BY <1>4, ScaleIsStock DEF Amax
<1>6. ASSUME NEW a \in stores PROVE a - r * d \in 0 .. d - 1
  <2>1. PICK c \in 0 .. d - 1 : a = r * d + c
    OBVIOUS
  <2>2. r * d \in Int
    BY <1>1 DEF Rows
  <2> DEFINE rd == r * d
  <2>3. rd \in Int /\ a = rd + c
    BY <2>1, <2>2
  <2> HIDE DEF rd
  <2>4. a - rd = c
    BY <1>1, <2>3
  <2> QED BY <2>4 DEF rd
<1>7. ASSUME NEW c \in 0 .. d - 1
      PROVE  Quantised(StockAct(r, c), StockScale(r)) = <<StockAct(r, c), StockScale(r)>>
  <2>1. Abs(StockAct(r, c)) \in Int /\ StockScale(r) \in Int /\ StockScale(r) >= Abs(StockAct(r, c))
    BY SiluAddress, ScaleIsStock
  <2>2. ~ (Abs(StockAct(r, c)) > StockScale(r))
    BY <2>1
  <2> QED BY <2>2 DEF Quantised
<1>8. ASSUME NEW c \in 0 .. d - 1 PROVE base + c \in Elems(launch.x) /\ base + d + c \in Elems(launch.x)
  BY SiluAddress DEF Elems
<1>9. ~ Strays({<<launch.x, base + c>> : c \in 0 .. d - 1}
                 \cup {<<launch.x, base + d + c>> : c \in 0 .. d - 1})
  BY <1>8 DEF Strays
<1>10. strayed' = FALSE
  BY <1>2, <1>9
<1>11. \A a \in stores : Round(Prod(a - r * d)) = StockAct(r, a - r * d)
  BY <1>3, <1>6
<1>12. \A a \in stores : Quantised(Round(Prod(a - r * d)), s) = <<StockAct(r, a - r * d), StockScale(r)>>
  BY <1>5, <1>6, <1>7, <1>11
<1>13. /\ q' = Stored(q, [a \in stores |-> <<StockAct(r, a - r * d), StockScale(r)>>])
       /\ launch.write_act => y' = Stored(y, [a \in stores |-> StockAct(r, a - r * d)])
  <2>1. [a \in stores |-> Quantised(Round(Prod(a - r * d)), s)]
          = [a \in stores |-> <<StockAct(r, a - r * d), StockScale(r)>>]
    BY <1>12
  <2>2. [a \in stores |-> Round(Prod(a - r * d))] = [a \in stores |-> StockAct(r, a - r * d)]
    BY <1>11
  <2> HIDE DEF stores
  <2> QED BY <1>2, <2>1, <2>2
<1> QED BY <1>2, <1>5, <1>10, <1>13

LEMMA SiluKeeps ==
  ASSUME SiluLaunch, SiluDone, NEW r \in pending, SiluProgram(r),
         pending' = pending \ {r}, launch' = launch, strayed = FALSE
  PROVE  SiluDone' /\ strayed' = FALSE
<1> DEFINE stores == {r * d + c : c \in 0 .. d - 1}
           done == Rows(launch.x) \ pending
<1>1. r \in Rows(launch.x) /\ r \in Nat /\ d \in Nat
  BY SiluShape DEF SiluDone, Rows
<1>2. /\ strayed' = FALSE
      /\ scale' = Stored(scale, [i \in {r} |-> StockScale(r)])
      /\ q' = Stored(q, [a \in stores |-> <<StockAct(r, a - r * d), StockScale(r)>>])
      /\ launch.write_act => y' = Stored(y, [a \in stores |-> StockAct(r, a - r * d)])
  BY <1>1, SiluStores
<1>3. ASSUME NEW c \in 0 .. d - 1 PROVE r * d + c \in stores /\ (r * d + c) - r * d = c
  <2>1. r * d \in Int
    BY <1>1
  <2> QED BY <1>1, <2>1
<1>4. ASSUME NEW i \in done, NEW c \in 0 .. d - 1 PROVE i * d + c \notin stores /\ i \notin {r}
  <2>1. i \in Nat /\ i # r
    BY <1>1 DEF Rows
  <2> SUFFICES ASSUME NEW e \in 0 .. d - 1, i * d + c = r * d + e PROVE FALSE
    BY <2>1
  <2> QED BY <1>1, <2>1, AddressesDiffer
<1>5. ASSUME NEW m, NEW f, NEW a PROVE
        /\ a \in DOMAIN f => a \in DOMAIN Stored(m, f) /\ Stored(m, f)[a] = f[a]
        /\ a \in DOMAIN m /\ a \notin DOMAIN f => a \in DOMAIN Stored(m, f) /\ Stored(m, f)[a] = m[a]
  BY DEF Stored
<1>6. r \in DOMAIN scale' /\ scale'[r] = StockScale(r)
  BY <1>2, <1>5
<1>7. ASSUME NEW c \in 0 .. d - 1
      PROVE  /\ r * d + c \in DOMAIN q' /\ q'[r * d + c] = <<StockAct(r, c), StockScale(r)>>
             /\ launch.write_act => r * d + c \in DOMAIN y' /\ y'[r * d + c] = StockAct(r, c)
  <2> HIDE DEF stores
  <2> QED BY <1>2, <1>3, <1>5
<1>8. ASSUME NEW i \in done
      PROVE  /\ i \in DOMAIN scale' /\ scale'[i] = StockScale(i)
             /\ \A c \in 0 .. d - 1 :
                  /\ i * d + c \in DOMAIN q' /\ q'[i * d + c] = <<StockAct(i, c), StockScale(i)>>
                  /\ launch.write_act => i * d + c \in DOMAIN y' /\ y'[i * d + c] = StockAct(i, c)
  <2>1. i \in DOMAIN scale /\ scale[i] = StockScale(i) /\ i \notin {r}
    BY <1>1 DEF SiluDone
  <2>2. i \in DOMAIN scale' /\ scale'[i] = StockScale(i)
    BY <1>2, <1>5, <2>1
  <2>3. ASSUME NEW c \in 0 .. d - 1
        PROVE  /\ i * d + c \in DOMAIN q' /\ q'[i * d + c] = <<StockAct(i, c), StockScale(i)>>
               /\ launch.write_act => i * d + c \in DOMAIN y' /\ y'[i * d + c] = StockAct(i, c)
    <3>1. i * d + c \notin stores
      BY <1>4
    <3>2. /\ i * d + c \in DOMAIN q /\ q[i * d + c] = <<StockAct(i, c), StockScale(i)>>
          /\ launch.write_act => i * d + c \in DOMAIN y /\ y[i * d + c] = StockAct(i, c)
      BY DEF SiluDone
    <3> HIDE DEF stores
    <3> QED BY <1>2, <1>5, <3>1, <3>2
  <2> QED BY <2>2, <2>3
<1>9. /\ d' = d /\ Rows(launch.x)' = Rows(launch.x) /\ launch'.write_act = launch.write_act
      /\ \A i, c : StockAct(i, c)' = StockAct(i, c)
      /\ \A i : StockScale(i)' = StockScale(i)
  BY DEF d, Rows, StockAct, StockScale, Elem
<1>10. Rows(launch.x) \ pending' = done \cup {r} /\ pending' \subseteq Rows(launch.x)
  BY <1>1 DEF SiluDone
<1>11. \A i \in done \cup {r} :
         /\ i \in DOMAIN scale' /\ scale'[i] = StockScale(i)
         /\ \A c \in 0 .. d - 1 :
              /\ i * d + c \in DOMAIN q' /\ q'[i * d + c] = <<StockAct(i, c), StockScale(i)>>
              /\ launch.write_act => i * d + c \in DOMAIN y' /\ y'[i * d + c] = StockAct(i, c)
  BY <1>6, <1>7, <1>8
<1>12. SiluDone'
  <2> HIDE DEF done
  <2> QED BY <1>9, <1>10, <1>11 DEF SiluDone
<1> QED BY <1>2, <1>12

----------------------------------------------------------------------------
(* Both together.                                                          *)

LEMMA RowInvInit == RowInit => RowInv
<1> SUFFICES ASSUME RowInit PROVE RowInv
  OBVIOUS
<1>1. y = <<>> /\ q = <<>> /\ scale = <<>> /\ DOMAIN y = {}
  BY DEF RowInit
<1>2. ASSUME NEW tail \in Tails, NEW m \in Modes,
             launch = [path |-> TailPath(m, tail), x |-> tail.x, w |-> tail.w,
                       gate |-> tail.gate, out |-> tail.out],
             pending = IF TailPath(m, tail) = "stock" THEN {} ELSE Rows(tail.out),
             strayed = NoPrograms(TailPath(m, tail), Rows(tail.out))
      PROVE  RowInv
  <2>1. /\ TailPath(m, tail) \in {"gate", "gemv", "stock"}
        /\ TailPath(m, tail) = "gate" => Supported(tail.gate, tail.out)
        /\ TailPath(m, tail) = "gemv" => SupportedGemv(tail.x, tail.w, tail.out)
    BY DEF TailPath
  <2>2. strayed = FALSE
    <3>1. CASE TailPath(m, tail) = "gemv"
      <4>1. tail.out.T \in Nat /\ 0 < tail.out.T
        <5>1. 0 < tail.x.T /\ tail.x.T = tail.out.T
          BY <2>1, <3>1 DEF SupportedGemv
        <5>2. tail.out.T \in Nat
          BY RowAssumption DEF IsLayout
        <5> QED BY <5>1, <5>2
      <4>2. 0 \in Rows(tail.out)
        BY <4>1 DEF Rows
      <4> QED BY <1>2, <4>2 DEF NoPrograms
    <3>2. CASE TailPath(m, tail) # "gemv"
      BY <1>2, <3>2 DEF NoPrograms
    <3> QED BY <3>1, <3>2
  <2>3. CASE TailPath(m, tail) = "stock"
    BY <1>1, <1>2, <2>2, <2>3 DEF RowInv
  <2>4. CASE TailPath(m, tail) # "stock"
    <3>1. launch.path \in {"gate", "gemv"}
      BY <1>2, <2>1, <2>4
    <3>2. TailLaunch
      BY <1>2, <2>1, <3>1, RowAssumption DEF TailLaunch
    <3>3. pending = Rows(launch.out)
      BY <1>2, <2>4
    <3>4. TailDone
      BY <1>1, <3>3 DEF TailDone
    <3> QED BY <2>2, <3>2, <3>4 DEF RowInv
  <2> QED BY <2>3, <2>4
<1>3. ASSUME NEW a \in Inputs, NEW h \in Contents, NEW act \in BOOLEAN, NEW plain \in BOOLEAN,
             launch = [path |-> IF plain /\ SupportedSilu(a) THEN "silu" ELSE "stock", x |-> a,
                       holds |-> h, write_act |-> act],
             pending = IF plain /\ SupportedSilu(a) THEN Rows(a) ELSE {},
             strayed = FALSE
      PROVE  RowInv
  <2>1. CASE plain /\ SupportedSilu(a)
    <3>1. SiluLaunch
      BY <1>3, <2>1 DEF SiluLaunch
    <3>2. SiluDone
      BY <1>3, <2>1 DEF SiluDone
    <3> QED BY <1>3, <3>1, <3>2 DEF RowInv
  <2>2. CASE ~ (plain /\ SupportedSilu(a))
    BY <1>1, <1>3, <2>2 DEF RowInv
  <2> QED BY <2>1, <2>2
<1> QED BY <1>2, <1>3 DEF RowInit

LEMMA RowInvStep == RowInv /\ [RowNext]_rowVars => RowInv'
<1>1. ASSUME RowInv, NEW r \in pending, Program(r) PROVE RowInv'
  <2>1. /\ pending' = pending \ {r} /\ launch' = launch /\ strayed = FALSE
        /\ TailProgram(r) \/ SiluProgram(r)
    BY <1>1 DEF Program, RowInv
  <2>2. CASE TailLaunch /\ TailDone
    <3>1. TailProgram(r)
      BY <2>1, <2>2 DEF TailLaunch, SiluProgram
    <3>2. TailDone' /\ strayed' = FALSE /\ TailLaunch'
      BY <2>1, <2>2, <3>1, TailKeeps, LaunchKept
    <3> QED BY <3>2 DEF RowInv
  <2>3. CASE SiluLaunch /\ SiluDone
    <3>1. SiluProgram(r)
      BY <2>1, <2>3 DEF SiluLaunch, TailProgram
    <3>2. SiluDone' /\ strayed' = FALSE /\ SiluLaunch'
      BY <2>1, <2>3, <3>1, SiluKeeps, LaunchKept
    <3> QED BY <3>2 DEF RowInv
  <2> QED BY <1>1, <2>2, <2>3 DEF RowInv
<1>2. ASSUME RowInv, UNCHANGED rowVars PROVE RowInv'
  <2>1. /\ launch' = launch /\ pending' = pending /\ y' = y /\ q' = q
        /\ scale' = scale /\ strayed' = strayed
    BY <1>2 DEF rowVars
  <2>2. (TailLaunch' <=> TailLaunch) /\ (SiluLaunch' <=> SiluLaunch)
    BY <2>1, LaunchKept
  <2>3. TailDone' <=> TailDone
    BY <2>1 DEF TailDone, StockTail, Dot, Elem, Rows, Cols
  <2>4. SiluDone' <=> SiluDone
    BY <2>1 DEF SiluDone, StockScale, StockAct, d, Elem, Rows
  <2> QED BY <1>2, <2>1, <2>2, <2>3, <2>4 DEF RowInv
<1> QED BY <1>1, <1>2 DEF RowNext

LEMMA RowInvStock == RowInv => FusedIsStock
<1> SUFFICES ASSUME RowInv PROVE FusedIsStock
  OBVIOUS
<1>1. CASE TailLaunch /\ TailDone
  <2> SUFFICES ASSUME pending = {}
               PROVE  /\ DOMAIN y = Elems(EmptyLike(launch.out))
                      /\ \A r \in Rows(launch.out), c \in Cols(launch.out) :
                           y[Elem(EmptyLike(launch.out), r, c)] = StockTail(r, c)
    BY <1>1 DEF FusedIsStock, RowInv, TailLaunch
  <2>1. IsLayout(launch.out) /\ launch.out.s1 = 1
    BY <1>1, TailLayouts DEF TailLaunch
  <2>2. DOMAIN y = Elems(EmptyLike(launch.out))
    <3>1. DOMAIN y = {r * launch.out.N + c : r \in Rows(launch.out), c \in Cols(launch.out)}
      BY <1>1 DEF TailDone
    <3> QED BY <2>1, <3>1, CopyElements
  <2>3. ASSUME NEW r \in Rows(launch.out), NEW c \in Cols(launch.out)
        PROVE  y[Elem(EmptyLike(launch.out), r, c)] = StockTail(r, c)
    BY <1>1, <2>1, CopyIsPacked DEF TailDone
  <2> QED BY <2>2, <2>3
<1>2. CASE SiluLaunch /\ SiluDone
  <2> SUFFICES ASSUME pending = {}, NEW r \in Rows(launch.x)
               PROVE  /\ scale[r] = StockScale(r)
                      /\ \A c \in 0 .. d - 1 : LET a == Elem(Packed(launch.x.T, d), r, c) IN
                           /\ q[a] = <<StockAct(r, c), StockScale(r)>>
                           /\ launch.write_act => y[a] = StockAct(r, c)
    BY <1>2 DEF FusedIsStock, RowInv, SiluLaunch
  <2>1. ASSUME NEW c \in 0 .. d - 1 PROVE Elem(Packed(launch.x.T, d), r, c) = r * d + c
    BY DEF Elem, Packed
  <2> QED BY <1>2, <2>1 DEF SiluDone
<1>3. CASE launch.path = "stock" /\ pending = {} /\ y = <<>> /\ q = <<>>
  BY <1>3 DEF FusedIsStock, RowInv
<1> QED BY <1>1, <1>2, <1>3 DEF RowInv

(* FusedIsStock of every behaviour, for every layout, content, block size  *)
(* and mode: in whatever order the programs of a launch run,               *)
(* fused_gate_mul.py and fused_silu_mul_quant.py leave what the separate   *)
(* kernels would, and touch nothing outside their tensors.                 *)
THEOREM RowsAreStock == RowSpec => []FusedIsStock
<1>1. RowInit => RowInv
  BY RowInvInit
<1>2. RowInv /\ [RowNext]_rowVars => RowInv'
  BY RowInvStep
<1>3. RowInv => FusedIsStock
  BY RowInvStock
<1> QED BY <1>1, <1>2, <1>3, PTL DEF RowSpec
=============================================================================
