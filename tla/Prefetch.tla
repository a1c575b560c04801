------------------------------ MODULE Prefetch ------------------------------
(***************************************************************************)
(* mtp_prefetch.py: would a predictor have named the experts a layer is    *)
(* about to miss?  One generation of a capture goes step by step and layer *)
(* by layer through the batch LRU of each layer; in its second half every  *)
(* predictor is scored against what the LRU misses (predictability).       *)
(***************************************************************************)
EXTENDS Ranking, FiniteSetsExt, SequencesExt

CONSTANTS
  NExperts,     \* experts of a layer
  NLAYER,       \* layers captured
  Depth,        \* rows of a step (modal); each routes one expert
  T,            \* bound: steps of the generation
  Captures,     \* generations tried: [step -> [layer -> [row -> expert]]]
  Ranked,       \* layer -> the profile's ranking of its experts, most routed first
  SlotsOf,      \* layer -> its share of the slots
  BUDGETS       \* experts a predictor may name

Ids        == 0 .. NExperts-1
LayerIds   == 1 .. NLAYER
Predictors == {"last", "freq", "cooc", "oracle"}
Never      == 0

ASSUME PrefetchAssumption ==
  /\ NExperts \in Nat \ {0} /\ NLAYER \in Nat \ {0} /\ Depth \in Nat \ {0} /\ T \in Nat \ {0}
  /\ \A l \in LayerIds :
       /\ SlotsOf[l] \in 0 .. NExperts
       /\ Ranked[l] \in [1 .. NExperts -> Ids] /\ ToSet(Ranked[l]) = Ids
  /\ BUDGETS \subseteq Nat /\ IsFiniteSet(BUDGETS)
  /\ \A a \in Captures : \A s \in 1 .. T, l \in LayerIds, j \in 1 .. Depth : a[s][l][j] \in Ids

VARIABLES
  capture,
  now, layer,   \* the loop: the step and the layer it is at
  od,           \* layer -> OrderedDict of its cache, least recently used first
  lastuse,      \* layer -> expert -> step of its last use, or Never
  hits, issued, \* predictor -> budget -> experts named that were missed; named
  tot_miss,
  rec_hist      \* steps since the last use -> misses scored

prefetchVars == <<capture, now, layer, od, lastuse, hits, issued, tot_miss, rec_hist>>

----------------------------------------------------------------------------
(* The capture.                                                            *)

sets(a, s, l) == {a[s][l][j] : j \in 1 .. Depth}

Half == T \div 2
TrainedAll == 1 .. T                  \* fault: on what it is scored on
Trained == 1 .. Half

(* C: how often f is routed by layer l in a step that routes e by layer    *)
(* l - 1, over the first half.                                             *)
Cooc(a, l, e, f) == Cardinality({s \in Trained : e \in sets(a, s, l - 1) /\ f \in sets(a, s, l)})

----------------------------------------------------------------------------
(* LRU.step: the routed experts move to the end, then the oldest go.       *)
Without(o, R) ==
  LET stay == {i \in DOMAIN o : o[i] \notin R}
  IN [j \in 1 .. Cardinality(stay) |-> o[ById(stay)[j]]]

Trimmed(o, cap) == IF Len(o) <= cap THEN o ELSE SubSeq(o, Len(o) - cap + 1, Len(o))
LruStep(o, R, cap) == Trimmed(Without(o, R) \o ById(R), cap)
Warm(l) == SubSeq(Ranked[l], 1, SlotsOf[l])

(***************************************************************************)
(* What each predictor names for layer l of step s, best first.            *)
(***************************************************************************)
ByScore(score) == Sorted(Ids, [e \in Ids |-> e - NExperts * score[e]])

LastStepOwn(a, s, l) == ById(sets(a, s, l))       \* fault: this step's own experts
LastStep(a, s, l) == IF s = 1 THEN <<>> ELSE ById(sets(a, s - 1, l))

Candidates(name, a, s, l) ==
  CASE name = "last"   -> LastStep(a, s, l)
    [] name = "freq"   -> Ranked[l]
    [] name = "cooc"   -> ByScore([f \in Ids |->
                             SumFunctionOnSet([e \in Ids |-> Cooc(a, l, e, f)], sets(a, s, l - 1))])
    [] name = "oracle" -> ById(sets(a, s, l) \ ToSet(od[l]))

ResAfter(a, s, l) == ToSet(LruStep(od[l], sets(a, s, l), SlotsOf[l]))     \* fault: once the misses are in
ResBefore(a, s, l) == ToSet(od[l])

Pick(name, a, s, l, b) ==
  LET fresh == Without(Candidates(name, a, s, l), ResBefore(a, s, l))
  IN {fresh[i] : i \in 1 .. Min({b, Len(fresh)})}

----------------------------------------------------------------------------
(* One round of the loops over steps and layers.                           *)

Missed == sets(capture, now, layer) \ ToSet(od[layer])
Age(e) == IF lastuse[layer][e] = Never THEN Never ELSE now - lastuse[layer][e]
Scored == now > Half /\ layer > 1 /\ Missed # {}

Score ==
  IF Scored
  THEN /\ tot_miss' = tot_miss + Cardinality(Missed)
       /\ issued' = [p \in Predictors |-> [b \in BUDGETS |->
            issued[p][b] + Cardinality(Pick(p, capture, now, layer, b))]]
       /\ hits' = [p \in Predictors |-> [b \in BUDGETS |->
            hits[p][b] + Cardinality(Missed \cap Pick(p, capture, now, layer, b))]]
       /\ rec_hist' = [k \in 0 .. T |-> rec_hist[k] + Cardinality({e \in Missed : Age(e) = k})]
  ELSE UNCHANGED <<tot_miss, issued, hits, rec_hist>>

RouteLayer ==
  /\ now <= T
  /\ Score
  /\ od' = [od EXCEPT ![layer] = LruStep(@, sets(capture, now, layer), SlotsOf[layer])]
  /\ lastuse' = [lastuse EXCEPT ![layer] =
       [e \in Ids |-> IF e \in sets(capture, now, layer) THEN now ELSE @[e]]]
  /\ layer' = IF layer = NLAYER THEN 1 ELSE layer + 1
  /\ now' = IF layer = NLAYER THEN now + 1 ELSE now
  /\ UNCHANGED capture

Zero == [p \in Predictors |-> [b \in BUDGETS |-> 0]]

PrefetchInit ==
  /\ capture \in Captures /\ now = 1 /\ layer = 1
  /\ od = [l \in LayerIds |-> Warm(l)] /\ lastuse = [l \in LayerIds |-> [e \in Ids |-> Never]]
  /\ hits = Zero /\ issued = Zero /\ tot_miss = 0 /\ rec_hist = [k \in 0 .. T |-> 0]

PrefetchSpec == PrefetchInit /\ [][RouteLayer]_prefetchVars

----------------------------------------------------------------------------
(* Properties.                                                             *)

(* "before layer L's router runs, what could name layer L's misses?": all  *)
(* but the oracle name the same experts whatever the capture holds from    *)
(* this layer of this step on.                                             *)
Blank(l, s) ==
  [x \in 1 .. T |-> [m \in LayerIds |->
     IF x > s \/ (x = s /\ m >= l) THEN [j \in 1 .. Depth |-> NExperts - 1] ELSE capture[x][m]]]
PicksAreCausal ==
  now <= T /\ Scored =>
    \A p \in Predictors \ {"oracle"}, b \in BUDGETS :
      Pick(p, capture, now, layer, b) = Pick(p, Blank(layer, now), now, layer, b)

(* "the true miss set (upper bound)": no predictor covers more than the    *)
(* oracle at any budget, the oracle wastes nothing, and with a name for    *)
(* each row of a step it covers every miss; the ages of the misses add up  *)
(* to as many, and none was routed within the last SlotsOf[l] \div Depth   *)
(* steps, which the cache of layer l still holds whole.                    *)
OracleIsABound ==
  /\ \A p \in Predictors, b \in BUDGETS :
       hits[p][b] <= hits["oracle"][b] /\ hits["oracle"][b] = issued["oracle"][b]
  /\ \A b \in BUDGETS : b >= Depth => hits["oracle"][b] = tot_miss
  /\ SumFunctionOnSet(rec_hist, DOMAIN rec_hist) = tot_miss
  /\ \A k \in DOMAIN rec_hist \ {0} :
       (\A l \in LayerIds \ {1} : k <= SlotsOf[l] \div Depth) => rec_hist[k] = 0

(* The scores of a predictor can be read as coverage of what a real cache  *)
(* misses: nothing is scored on what it could not know, and nothing beats  *)
(* the oracle.                                                             *)
ScoresAreFair == PicksAreCausal /\ OracleIsABound
=============================================================================
