---------------------------- MODULE BlockReduce ----------------------------
(***************************************************************************)
(* The block collectives of the LRU kernels, thread by thread: blkSum and  *)
(* blkMin (tree reduction), blkExScan (Hillis-Steele) and blkExScan2 (two  *)
(* scans at once, chunked on two levels).  A kernel calls them one after  *)
(* the other on the same shared array, so each must leave it in a state    *)
(* the next may overwrite.                                                 *)
(*                                                                         *)
(* Threads run in any order between two barriers.  What a barrier allows   *)
(* next is decided by "interval", the one all threads are in.               *)
(***************************************************************************)
EXTENDS Integers, FiniteSetsExt, Sequences

CONSTANTS
  NT,          (* threads of the workgroup, a power of two                  *)
  NCHUNK,      (* chunks of the two-level scan                              *)
  Values,      (* what a thread may contribute                              *)
  MaxReductions (* bound: collectives called in a row                       *)

(* Halved again and again, n comes down to 1 without a remainder.          *)
PowerOfTwo(n) ==
  \E H \in SUBSET (1 .. n) : n \in H /\ \A k \in H : k = 1 \/ (k % 2 = 0 /\ k \div 2 \in H)

ASSUME ReduceAssumption ==
  /\ NT \in Nat \ {0} /\ PowerOfTwo(NT) /\ NCHUNK \in 1 .. NT /\ NT % NCHUNK = 0
  /\ Values \subseteq Nat /\ MaxReductions \in Nat

Threads == 0 .. NT-1
CHUNKW  == NT \div NCHUNK

VARIABLES
  input,   \* [thread] the operand of the call
  call,    \* "sum", "min", "scan", "scan2", or "none" before any
  interval, \* "put", "round", "read", "add", "chunks", "top", "get"
  off,     \* distance of the current round
  ran,     \* threads that have finished the interval
  sh,      \* the shared array
  sh2,     \* shared: totals of the chunks, grand total last (ca)
  reg,     \* [thread] value held in a register over a barrier
  result,  \* [thread] what the call returned
  total,   \* [thread] the total a scan returned
  made     \* calls so far

reduceVars == <<input, call, interval, off, ran, sh, sh2, reg, result, total, made>>

ReduceInit ==
  /\ input = [t \in Threads |-> 0] /\ call = "none" /\ interval = "get" /\ off = 0
  /\ ran = Threads
  /\ sh = [t \in Threads |-> 0] /\ sh2 = [c \in 0 .. NCHUNK |-> 0]
  /\ reg = [t \in Threads |-> 0] /\ result = reg /\ total = reg /\ made = 0

(* The barrier that closes a collective (for blkExScan2, the one after its *)
(* caller bucketScan2) is the guard ran = Threads of the next call.        *)
Enter(p) == interval' = p /\ ran' = {}

Call(c, v) ==
  /\ interval = "get" /\ ran = Threads /\ made < MaxReductions
  /\ call' = c /\ input' = v /\ made' = made + 1
  /\ Enter("put")
  /\ UNCHANGED <<off, sh, sh2, reg, result, total>>

Thread(p, t) == interval = p /\ t \in Threads \ ran /\ ran' = ran \cup {t}

(* sh[t] = v *)
Put(t) ==
  /\ Thread("put", t)
  /\ sh' = [sh EXCEPT ![t] = input[t]]
  /\ UNCHANGED <<input, call, interval, off, sh2, reg, result, total, made>>

(* One round of blkSum or blkMin: the lower half folds in the upper half.  *)
Fold(t) ==
  /\ Thread("round", t)
  /\ sh' = IF t < off
             THEN [sh EXCEPT ![t] = IF call = "sum" THEN @ + sh[t + off]
                                    ELSE Min({@, sh[t + off]})]
             ELSE sh
  /\ UNCHANGED <<input, call, interval, off, sh2, reg, result, total, made>>

(* One round of blkExScan: read the partner, barrier, add. *)
ReadPartner(t) ==
  /\ Thread("read", t)
  /\ reg' = [reg EXCEPT ![t] = IF t >= off THEN sh[t - off] ELSE 0]
  /\ UNCHANGED <<input, call, interval, off, sh, sh2, result, total, made>>

AddUnsynced(t) ==        \* fault: the partner is read again, past the barrier
  /\ Thread("add", t)
  /\ sh' = [sh EXCEPT ![t] = @ + (IF t >= off THEN sh[t - off] ELSE 0)]
  /\ UNCHANGED <<input, call, interval, off, sh2, reg, result, total, made>>

AddPartner(t) ==
  /\ Thread("add", t)
  /\ sh' = [sh EXCEPT ![t] = @ + reg[t]]
  /\ UNCHANGED <<input, call, interval, off, sh2, reg, result, total, made>>

(* blkExScan2: thread c scans chunk c serially, then thread 0 the totals.  *)
SumOf(lo, hi) == SumFunctionOnSet(sh, lo .. hi)

ScanChunk(t) ==
  /\ Thread("chunks", t)
  /\ LET lo == t * CHUNKW
         mine == lo .. lo + CHUNKW - 1
     IN IF t < NCHUNK
          THEN /\ sh' = [i \in Threads |-> IF i \in mine THEN SumOf(lo, i - 1) ELSE sh[i]]
               /\ sh2' = [sh2 EXCEPT ![t] = SumOf(lo, lo + CHUNKW - 1)]
          ELSE UNCHANGED <<sh, sh2>>
  /\ UNCHANGED <<input, call, interval, off, reg, result, total, made>>

ScanTotals(t) ==
  /\ Thread("top", t)
  /\ sh2' = IF t = 0
              THEN [c \in 0 .. NCHUNK |-> SumFunctionOnSet(sh2, 0 .. c-1)]
              ELSE sh2
  /\ UNCHANGED <<input, call, interval, off, sh, reg, result, total, made>>

(* The result, read from shared memory before the closing barrier. *)
Get(t) ==
  /\ Thread("get", t)
  /\ result' = [result EXCEPT ![t] =
               CASE call \in {"sum", "min"} -> sh[0]
                 [] call = "scan"           -> sh[t] - input[t]
                 [] call = "scan2"          -> sh[t] + sh2[t \div CHUNKW]]
  /\ total' = [total EXCEPT ![t] =
                 CASE call \in {"sum", "min"} -> @
                   [] call = "scan"           -> sh[NT - 1]
                   [] call = "scan2"          -> sh2[NCHUNK]]
  /\ UNCHANGED <<input, call, interval, off, sh, sh2, reg, made>>

(* The loops' control, taken by all threads at a barrier. *)
FirstHalf == NT \div 2
RoundsForever(o, more, p) ==           \* fault: a halving loop runs on at 0
  off' = o /\ Enter(IF more \/ o = 0 THEN p ELSE "get")
Rounds(o, more, p) == off' = o /\ Enter(IF more THEN p ELSE "get")

Barrier ==
  /\ ran = Threads
  /\ \/ /\ interval = "put" /\ call \in {"sum", "min"}
        /\ Rounds(FirstHalf, FirstHalf > 0, "round")
     \/ /\ interval = "round"
        /\ Rounds(off \div 2, off \div 2 > 0, "round")
     \/ /\ interval = "put" /\ call = "scan"
        /\ Rounds(1, 1 < NT, "read")
     \/ interval = "read" /\ Enter("add") /\ UNCHANGED off
     \/ /\ interval = "add"
        /\ Rounds(2 * off, 2 * off < NT, "read")
     \/ interval = "put" /\ call = "scan2" /\ Enter("chunks") /\ UNCHANGED off
     \/ interval = "chunks" /\ Enter("top") /\ UNCHANGED off
     \/ interval = "top" /\ Enter("get") /\ UNCHANGED off
  /\ UNCHANGED <<input, call, sh, sh2, reg, result, total, made>>

Run(t) ==
  Put(t) \/ Fold(t) \/ ReadPartner(t) \/ AddPartner(t)
    \/ ScanChunk(t) \/ ScanTotals(t) \/ Get(t)

ReduceRun == Barrier \/ \E t \in Threads : Run(t)

Stopped == interval = "get" /\ ran = Threads /\ made = MaxReductions /\ UNCHANGED reduceVars

ReduceNext ==
  \/ \E c \in {"sum", "min", "scan", "scan2"}, v \in [Threads -> Values] : Call(c, v)
  \/ ReduceRun \/ Stopped

ReduceFairness == WF_reduceVars(ReduceRun)

ReduceSpec == ReduceInit /\ [][ReduceNext]_reduceVars /\ ReduceFairness

----------------------------------------------------------------------------
(* Properties.                                                             *)

InputSum(T) == SumFunctionOnSet(input, T)

(* Each collective returns to every thread what its name promises, in any  *)
(* order of the threads and whatever the previous call left in the shared  *)
(* array: the threads agree on the branch they take, and the scans hand    *)
(* out positions without gap or overlap.                                   *)
ResultRight ==
  interval = "get" => \A t \in ran :
    CASE call = "none"  -> TRUE
      [] call = "sum"   -> result[t] = InputSum(Threads)
      [] call = "min"   -> result[t] = Min({input[u] : u \in Threads})
      [] call \in {"scan", "scan2"} ->
           /\ result[t] = InputSum({u \in Threads : u < t})
           /\ total[t] = InputSum(Threads)

(* Every call returns: the rounds halve or double their way out. *)
Returns == call # "none" ~> (interval = "get" /\ ran = Threads)
=============================================================================
