---------------------------- MODULE LocalitySim ----------------------------
(***************************************************************************)
(* The offline cache policies of locality_sim.py, replayed on the routing  *)
(* trace of one layer, and the batch LRU of mtp_prefetch.py beside them.   *)
(* A trace is two generations in a row; a step is the set of its distinct  *)
(* experts, handled in ascending order (np.unique).  DECAY is 1/2.         *)
(***************************************************************************)
EXTENDS RouteTrace

CONSTANTS
  Cap,       \* slots
  Pin        \* int(cap * HYBRID_PIN)

ASSUME PolicyAssumption == Cap \in 1 .. E-1 /\ Pin \in 0 .. Cap

VARIABLES
  cut,        \* how many steps are the first generation's
  carry,      \* replay's carry: one cache across the generations
  od,         \* policy -> OrderedDict, least recently used first
  lfu,        \* [score, heap, boost]
  res,        \* Belady's residents
  miss        \* policy -> misses so far

policyVars == <<cut, carry, od, lfu, res, miss>>

Lrus == {"lru", "lru_ws", "hybrid", "batch"}
Policies == Lrus \cup {"static", "lfu", "belady"}

hot == SubSeq(ranked, 1, Cap)
Pins(p) == ToSet(SubSeq(ranked, 1, IF p = "hybrid" THEN Pin ELSE 0))
Free(p) == Cap - Cardinality(Pins(p))

(***************************************************************************)
(* A policy as it is made: warm from the hot set in profile order, except  *)
(* for the cold LRU.                                                       *)
(***************************************************************************)
NewLru(p) ==
  IF p = "lru" THEN <<>>
  ELSE LET warm == SelectSeq(hot, LAMBDA e : e \notin Pins(p))
       IN SubSeq(warm, 1, Min({Len(warm), Free(p)}))

NewLfu ==
  [score |-> [e \in ToSet(hot) |-> 0], heap |-> {<<0, e>> : e \in ToSet(hot)}, boost |-> 1]

NewBelady == ToSet(hot)

(* popitem(last=False) until no more than n are left. *)
Trim(o, n) == IF Len(o) <= n THEN o ELSE SubSeq(o, Len(o) - n + 1, Len(o))

----------------------------------------------------------------------------
(* Steps of the policies: what each holds after the step, and its misses.  *)

(* One round of the loop of LRU.step: the eviction is inside it. *)
AccessUnmoved(p, a, e) ==       \* fault: a hit stays where it is
  CASE e \in Pins(p) \/ Contains(a.od, e) -> a
    [] OTHER -> [od |-> Trim(Append(a.od, e), Free(p)), miss |-> a.miss + 1]

Access(p, a, e) ==
  CASE e \in Pins(p) -> a
    [] e \notin Pins(p) /\ Contains(a.od, e) -> [a EXCEPT !.od = Append(Remove(@, e), e)]
    [] OTHER -> [od |-> Trim(Append(a.od, e), Free(p)), miss |-> a.miss + 1]

AccessStep(p, o, R) ==
  FoldLeft(LAMBDA a, e : Access(p, a, e), [od |-> o, miss |-> 0], SetToSortSeq(R, <))

(* LRU.step of mtp_prefetch: one eviction loop after all accesses. *)
BatchStep(o, R) ==
  [od |-> Trim(SelectSeq(o, LAMBDA e : e \notin R) \o SetToSortSeq(R, <), Cap),
   miss |-> Cardinality(R \ ToSet(o))]

LruStep(p, o, R) == IF p = "batch" THEN BatchStep(o, R) ELSE AccessStep(p, o, R)

(* LFU.step: the boost grows instead of every score decaying. *)
TouchNew(f, R) ==               \* fault: a hit does not push its new score
  LET b == 2 * f.boost
      s == [e \in DOMAIN f.score \cup R |->
              (IF e \in DOMAIN f.score THEN f.score[e] ELSE 0) + (IF e \in R THEN b ELSE 0)]
  IN [score |-> s, heap |-> f.heap \cup {<<s[e], e>> : e \in R \ DOMAIN f.score}, boost |-> b]

Touch(f, R) ==
  LET b == 2 * f.boost
      s == [e \in DOMAIN f.score \cup R |->
              (IF e \in DOMAIN f.score THEN f.score[e] ELSE 0) + (IF e \in R THEN b ELSE 0)]
  IN [score |-> s, heap |-> f.heap \cup {<<s[e], e>> : e \in R}, boost |-> b]

Below(x, y) == x[1] < y[1] \/ (x[1] = y[1] /\ x[2] < y[2])

(* The heappop loop: stale entries are dropped, those of this step go back. *)
RECURSIVE Shrink(_, _, _)
Shrink(f, R, back) ==
  IF Cardinality(DOMAIN f.score) <= Cap \/ f.heap = {}
  THEN [f EXCEPT !.heap = @ \cup back]
  ELSE LET top == CHOOSE x \in f.heap : \A y \in f.heap : x = y \/ Below(x, y)
           e == top[2]
           popped == [f EXCEPT !.heap = @ \ {top}]
           stale == e \notin DOMAIN f.score \/ f.score[e] # top[1]
       IN CASE stale -> Shrink(popped, R, back)
            [] ~stale /\ e \in R -> Shrink(popped, R, back \cup {top})
            [] OTHER -> Shrink([popped EXCEPT !.score = [x \in DOMAIN @ \ {e} |-> @[x]]], R, back)

LfuStep(f, R) == Shrink(Touch(f, R), R, {})

(* belady_nexts: the next step that routes e; the trace goes on to the end *)
(* of the generation, or of all of them when the cache is carried.         *)
Horizon(s) == IF carry \/ s > cut THEN T ELSE cut
NextUseSame(s, e) ==             \* fault: the step's own experts are recorded too early
  Min({u \in s .. Horizon(s) : e \in trace[u]} \cup {T + 1})
NextUse(s, e) == Min({u \in s + 1 .. Horizon(s) : e \in trace[u]} \cup {T + 1})

(* Belady.step: sorted is stable over a set, so ties fall either way. *)
BeladyLeaves(r, R, next) ==
  LET all == r \cup R
      free == IF Cardinality(R) <= Cap THEN all \ R ELSE all
      over == Max({0, Cardinality(all) - Cap})
  IN {all \ out : out \in {o \in kSubset(over, free) :
        \A x \in o, y \in free \ o : next[x] >= next[y]}}

----------------------------------------------------------------------------
PolicyInit ==
  /\ cut \in 1 .. T /\ carry \in BOOLEAN
  /\ od = [p \in Lrus |-> NewLru(p)] /\ lfu = NewLfu /\ res = NewBelady
  /\ miss = [p \in Policies |-> 0]

(* What replay steps from: policies are made anew for a generation unless  *)
(* they are carried, Belady always; the study with the batch LRU has one   *)
(* per generation.                                                         *)
Anew(p) == t = cut /\ (~carry \/ p \in {"belady", "batch"})
LruNow(p) == IF Anew(p) THEN NewLru(p) ELSE od[p]
LfuNow == IF Anew("lfu") THEN NewLfu ELSE lfu
BeladyNow == IF Anew("belady") THEN NewBelady ELSE res

Misses(p, R) ==
  CASE p \in Lrus -> LruStep(p, LruNow(p), R).miss
    [] p = "static" -> Cardinality(R \ ToSet(hot))
    [] p = "lfu" -> Cardinality(R \ DOMAIN LfuNow.score)
    [] p = "belady" -> Cardinality(R \ BeladyNow)

PolicyStep ==
  LET R == trace[t + 1] IN
    /\ od' = [p \in Lrus |-> LruStep(p, LruNow(p), R).od]
    /\ lfu' = LfuStep(LfuNow, R)
    /\ res' \in BeladyLeaves(BeladyNow, R, [e \in Experts |-> NextUse(t + 1, e)])
    /\ miss' = [p \in Policies |-> miss[p] + Misses(p, R)]
    /\ UNCHANGED <<cut, carry>>

----------------------------------------------------------------------------
(* Properties.                                                             *)

(* Evicting inside a step or after it leaves the same cache, in the same   *)
(* order (mtp_prefetch and locality_sim may use either); only the misses   *)
(* differ, and always the same way.                                        *)
GranularityOnlyCosts ==
  ~carry => od["batch"] = od["lru_ws"] /\ miss["batch"] <= miss["lru_ws"]

(* The fewest misses of steps s .. last from the residents r, of all ways  *)
(* to keep the step's experts where they fit, and at most Cap of the rest. *)
RECURSIVE Fewest(_, _, _)
Fewest(s, last, r) ==
  IF s > last THEN 0
  ELSE LET R == trace[s]
           all == r \cup R
           keeps == {k \in kSubset(Min({Cap, Cardinality(all)}), all) :
                       Cardinality(R) <= Cap => R \subseteq k}
       IN Cardinality(R \ r) + Min({Fewest(s + 1, last, k) : k \in keeps})

(* "per-layer optimal": no demand cache that keeps each step's experts     *)
(* misses less than Belady, however the ties fall.                         *)
BeladyOptimal ==
  t = T => miss["belady"] = Fewest(1, cut, ToSet(hot)) + Fewest(cut + 1, T, ToSet(hot))

(* Lazy deletion from the heap and the growing boost come to: among the    *)
(* residents the step does not route, the lowest scores leave, and as many *)
(* as the cache is over.  (A step wider than the cache stays whole.)       *)
LfuEvictsLeast ==
  [][LET R == trace[t + 1]
         before == DOMAIN LfuNow.score \cup R
         kept == DOMAIN lfu'.score
     IN t' = t + 1 =>
        /\ R \subseteq kept
        /\ Cardinality(kept) = Max({Cap, Cardinality(R)})
        /\ \A x \in before \ kept, y \in kept \ R :
             Below(<<LfuNow.score[x], x>>, <<lfu'.score[y], y>>)]_<<t, policyVars>>
=============================================================================
