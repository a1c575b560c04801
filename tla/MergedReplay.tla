---------------------------- MODULE MergedReplay ----------------------------
(***************************************************************************)
(* The concurrency section of locality_sim's main: for each B, every B     *)
(* generations of the capture in a row are merged into one trace, a step   *)
(* the union of theirs, and the policies replay what comes out.  Belady's  *)
(* next uses are kept in _NEXTS under the address of the trace (id); an    *)
(* address is free again once main has dropped the list that had it.       *)
(***************************************************************************)
EXTENDS LocalitySim

CONSTANTS BATCHES,    \* the Bs, in order
          Addresses   \* bound: where a list may be allocated

VARIABLES
  nth,       \* which of BATCHES
  merged,    \* addresses of the merged traces
  mtr,       \* what main's variable mtr is bound to, or None
  lists,     \* address -> trace, of the lists that are still referred to
  _NEXTS,    \* address -> step -> expert -> step of its next use
  tried,     \* merged traces replayed
  sum,       \* policy -> misses at this B
  raised     \* an IndexError

mergedVars == <<nth, merged, mtr, lists, _NEXTS, tried, sum, raised>>

None == "none"

generations == SelectSeq(<<SubSeq(trace, 1, cut), SubSeq(trace, cut + 1, T)>>, LAMBDA g : g # <<>>)

MergedInit ==
  /\ nth = 0 /\ merged = <<>> /\ mtr = None /\ lists = <<>> /\ _NEXTS = <<>>
  /\ tried = 0 /\ sum = [p \in {"lru_ws", "belady"} |-> 0] /\ raised = FALSE

B == BATCHES[nth]
Groups == IF nth = 0 THEN 0 ELSE Len(generations) \div B

(* The next B: the list of its predecessor goes, and the traces with it,   *)
(* but for the one that mtr is still bound to.                             *)
NextB ==
  /\ ~raised /\ tried = Groups /\ nth < Len(BATCHES)
  /\ nth' = nth + 1 /\ merged' = <<>> /\ tried' = 0 /\ sum' = [p \in DOMAIN sum |-> 0]
  /\ lists' = Restrict(lists, DOMAIN lists \cap {mtr})
  /\ UNCHANGED <<mtr, _NEXTS, raised>>

Union(grp) ==
  [s \in 1 .. Min({Len(g) : g \in ToSet(grp)}) |-> UNION {g[s] : g \in ToSet(grp)}]

MergeGroup ==
  /\ Len(merged) < Groups
  /\ \E a \in Addresses \ DOMAIN lists :
       LET g == Len(merged) * B
           tr == Union(SubSeq(generations, g + 1, g + B)) IN
       /\ merged' = Append(merged, a) /\ mtr' = a
       /\ lists' = (a :> tr) @@ Restrict(lists, DOMAIN lists \cap ToSet(merged))
  /\ UNCHANGED <<nth, _NEXTS, tried, sum, raised>>

(* belady_nexts: computed once for a key, whatever is at the address now.  *)
Nexts(tr) ==
  [s \in DOMAIN tr |-> [e \in Experts |->
     Min({u \in s + 1 .. Len(tr) : e \in tr[u]} \cup {T + 1})]]
belady_nexts(a) == IF a \in DOMAIN _NEXTS THEN _NEXTS[a] ELSE Nexts(lists[a])

LruMisses(tr) ==
  FoldLeft(LAMBDA c, R : LET n == AccessStep("lru_ws", c.od, R) IN [od |-> n.od, miss |-> c.miss + n.miss],
           [od |-> NewLru("lru_ws"), miss |-> 0], tr).miss

(* Ties fall either way, so a trace may cost Belady this or that.          *)
BeladyMisses(tr, nx) ==
  {c[2] : c \in FoldLeft(
     LAMBDA cs, s : UNION {{<<r, c[2] + Cardinality(tr[s] \ c[1])>> :
                              r \in BeladyLeaves(c[1], tr[s], nx[s])} : c \in cs},
     {<<NewBelady, 0>>}, [s \in DOMAIN tr |-> s])}

ReplayMerged ==
  /\ ~raised /\ Len(merged) = Groups /\ tried < Groups
  /\ LET a == merged[tried + 1]
         nx == belady_nexts(a) IN
     /\ _NEXTS' = (a :> nx) @@ _NEXTS
     /\ IF Len(nx) < Len(lists[a]) THEN raised' = TRUE /\ UNCHANGED <<tried, sum>>
        ELSE /\ \E m \in BeladyMisses(lists[a], nx) :
                  sum' = [lru_ws |-> sum.lru_ws + LruMisses(lists[a]), belady |-> sum.belady + m]
             /\ tried' = tried + 1 /\ UNCHANGED raised
  /\ UNCHANGED <<nth, merged, mtr, lists>>

MergedNext == NextB \/ MergeGroup \/ ReplayMerged

MergedDone == raised \/ (nth = Len(BATCHES) /\ tried = Groups)

----------------------------------------------------------------------------
(* Properties.                                                             *)

(* "belady: an upper bound on what ANY dynamic policy could do on this     *)
(* trace": the replay ends, and at no B does Belady miss more than the     *)
(* warm LRU.                                                               *)
BeladyBoundsLru == ~raised /\ sum.belady <= sum.lru_ws
=============================================================================
