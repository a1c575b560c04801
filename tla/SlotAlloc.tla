----------------------------- MODULE SlotAlloc -----------------------------
(***************************************************************************)
(* slot_alloc.py: one pass over a layer's trace gives its misses at every  *)
(* capacity (Mattson stack distances, counted per step in a Fenwick tree); *)
(* the slot budget is then split over the layers where it saves most.      *)
(* miss_hist's list seq is the hot set in reverse, one expert a step, and  *)
(* then the trace; positions count from 0.                                 *)
(***************************************************************************)
EXTENDS KernelLRU

CONSTANTS
  OtherHists, \* histograms the second layer may have
  Totals      \* slot budgets tried

VARIABLES
  last,      \* expert -> position of its last use
  fen,       \* the tree: node -> sum
  hist,      \* distance -> accesses; E + 1 is "infinite"
  n_access,
  replays,   \* for every capacity, a KernelLRU on the same trace ...
  replayMiss,\* ... and its misses
  H, caps, left, heap   \* alloc_optimal: empty until the trace is through

countVars == <<last, fen, hist, n_access, replays, replayMiss>>
allocVars == <<H, caps, left, heap>>

Caps == 1 .. E - 1
ncap == E + 1
Positions == E + T

(* The replay of main's INSERTS=99999 arm: nothing is cut short. *)
Replay(C) == INSTANCE KernelLRU WITH S <- C, MaxDistinct <- C, MaxInserts <- E

(***************************************************************************)
(* class Fenwick: node i holds the sum of the i & -i positions up to it.   *)
(***************************************************************************)
LowBit(i) == CHOOSE p \in {1, 2, 4, 8, 16} : i % p = 0 /\ (i \div p) % 2 = 1

RECURSIVE Up(_), Down(_)
Up(i) == IF i > Positions THEN {} ELSE {i} \cup Up(i + LowBit(i))
Down(i) == IF i = 0 THEN {} ELSE {i} \cup Down(i - LowBit(i))

Add(f, i, v) == [n \in DOMAIN f |-> f[n] + (IF n \in Up(i + 1) THEN v ELSE 0)]
Pre(f, i) == MapThenSumSet(LAMBDA n : f[n], Down(i + 1))

(* The distance of a reuse of e at position pos: the experts used since,   *)
(* one mark each; its own step's other experts do not count.               *)
DistanceOwn(e, pos) ==          \* fault: they do, and so does e
  IF e \notin DOMAIN last THEN ncap
  ELSE Min({ncap, Pre(fen, pos - 1) - Pre(fen, last[e] - 1)})

Distance(e, pos) ==
  IF e \notin DOMAIN last THEN ncap
  ELSE Min({ncap, Pre(fen, pos - 1) - Pre(fen, last[e])})

(* Moves after all accesses of the step: marks go to position pos. *)
MoveAdd(f, e, pos) == Add(f, pos, 1)                            \* fault: the old mark stays
Move(f, e, pos) == Add(IF e \in DOMAIN last THEN Add(f, last[e], -1) ELSE f, pos, 1)
Marked(R, pos) == FoldSet(LAMBDA e, f : Move(f, e, pos), fen, R)
LastUse(R, pos) == [e \in DOMAIN last \cup R |-> IF e \in R THEN pos ELSE last[e]]

(* The synthetic steps: rank 0 is the last of them. *)
WarmLast(r) == [e \in ToSet(r) |-> Len(r) - (CHOOSE j \in 1 .. Len(r) : r[j] = e)]
CountInit ==
  LET init == SubSeq(ranked, 1, E - 1) IN
  /\ last = WarmLast(init)
  /\ fen = FoldSet(LAMBDA e, f : Add(f, WarmLast(init)[e], 1), [n \in 1 .. Positions |-> 0], ToSet(init))
  /\ hist = [d \in 0 .. ncap |-> 0] /\ n_access = 0
  /\ replays = [C \in Caps |-> WarmStamps(SubSeq(ranked, 1, C))]
  /\ replayMiss = [C \in Caps |-> 0]

CountStep ==
  LET R == trace[t + 1]
      pos == E - 1 + t IN
  /\ hist' = [d \in 0 .. ncap |-> hist[d] + Quantify(R, LAMBDA e : Distance(e, pos) = d)]
  /\ n_access' = n_access + Cardinality(R)
  /\ fen' = Marked(R, pos) /\ last' = LastUse(R, pos)
  /\ replays' = [C \in Caps |-> Replay(C)!After(replays[C], R)]
  /\ replayMiss' = [C \in Caps |-> replayMiss[C] + Cardinality(R \ DOMAIN replays[C])]
  /\ UNCHANGED allocVars

(* misses(C) of miss_hist's docstring, and the sum misses_at takes. *)
Hits(h, C) == MapThenSumSet(LAMBDA d : h[d], 0 .. C - 1)
MissesDocumented(h, n, C) == n - Hits(h, C)
misses_at(hs, cs) ==
  MapThenSumSet(LAMBDA l : MapThenSumSet(LAMBDA d : hs[l][d], 0 .. ncap)
                           - MapThenSumSet(LAMBDA d : hs[l][d], 0 .. Min({cs[l], ncap})),
                DOMAIN hs)

(***************************************************************************)
(* alloc_optimal: greedy on the slopes of the concave hull of the misses   *)
(* saved, layer by layer.                                                  *)
(***************************************************************************)
cmax == E
Saved(h, C) == Hits(h, C)

\* the middle point of three that lies on or below the chord is popped
Redundant(h, a, b, c) ==
  (Saved(h, b) - Saved(h, a)) * (c - b) <= (Saved(h, c) - Saved(h, b)) * (b - a)
RECURSIVE Popped(_, _, _)
Popped(h, hull, c) ==
  LET n == Len(hull) IN
  IF n >= 2 /\ Redundant(h, hull[n - 1], hull[n], c) THEN Popped(h, Front(hull), c) ELSE hull
HullAll(h) == [i \in 1 .. cmax + 1 |-> i - 1]                    \* fault: plain greedy
Hull(h) == FoldLeft(LAMBDA hull, c : Append(Popped(h, hull, c), c), <<0>>,
                    [c \in 1 .. cmax |-> c])

(* Segment si of layer li, as the heap orders them: steepest first, then   *)
(* the lower layer. *)
Width(li, si) == Hull(H[li])[si + 1] - Hull(H[li])[si]
Rise(li, si) == Saved(H[li], Hull(H[li])[si + 1]) - Saved(H[li], Hull(H[li])[si])
Steeper(x, y) ==
  LET a == Rise(x[1], x[2]) * Width(y[1], y[2])
      b == Rise(y[1], y[2]) * Width(x[1], x[2])
  IN a > b \/ (a = b /\ x[1] < y[1])

AllocStart ==
  /\ H = <<>>
  /\ \E other \in OtherHists, total \in Totals :
       /\ H' = <<hist, other>> /\ left' = total
  /\ caps' = <<0, 0>> /\ heap' = {<<1, 1>>, <<2, 1>>}
  /\ UNCHANGED countVars

PopSegment ==
  /\ left > 0 /\ heap # {}
  /\ LET top == CHOOSE x \in heap : \A y \in heap : x = y \/ Steeper(x, y)
         li == top[1]
         take == Min({Width(li, top[2]), left, cmax - caps[li]})
         more == top[2] + 1 < Len(Hull(H[li])) /\ caps[li] + take < cmax
     IN /\ caps' = [caps EXCEPT ![li] = @ + take]
        /\ left' = left - take
        /\ heap' = (heap \ {top}) \cup (IF more THEN {<<li, top[2] + 1>>} ELSE {})
  /\ UNCHANGED <<countVars, H>>

AllocDone == H # <<>> /\ (left = 0 \/ heap = {})

(***************************************************************************)
(* The splits it is compared with: equal shares, and shares in proportion  *)
(* to the experts a layer's generations touch (ws).  Two floors are at     *)
(* most one slot short, which goes where ws / slots is largest.            *)
(***************************************************************************)
Capped(c) == [li \in DOMAIN c |-> Min({c[li], cmax})]
alloc_equal(total, n) ==
  Capped([li \in 1 .. n |-> total \div n + (IF li <= total % n THEN 1 ELSE 0)])
alloc_demand(ws, total) ==
  LET c == [li \in 1 .. 2 |-> (ws[li] * total) \div (ws[1] + ws[2])]
      neediest == {li \in 1 .. 2 : \A o \in 1 .. 2 :
                     ws[li] * Max({c[o], 1}) >= ws[o] * Max({c[li], 1})}
  IN {Capped([c EXCEPT ![li] = @ + total - c[1] - c[2]]) : li \in neediest}

----------------------------------------------------------------------------
(* Properties.                                                             *)

Splits(n) == {c \in [1 .. 2 -> 0 .. cmax] : c[1] + c[2] = n}

(* "a real access is a HIT at cap C iff its stack distance < C": at every  *)
(* capacity that holds each step, the curve has no more misses than the    *)
(* simulator itself on the same trace, and as many while no two experts    *)
(* share a step (sharing one makes them equally recent, and then the       *)
(* simulator has to choose).                                               *)
CurveIsReplay ==
  \A C \in Caps : (\A s \in 1 .. t : Cardinality(trace[s]) <= C) =>
    /\ MissesDocumented(hist, n_access, C) <= replayMiss[C]
    /\ (\A s \in 1 .. t : Cardinality(trace[s]) = 1) =>
         MissesDocumented(hist, n_access, C) = replayMiss[C]

(* misses_at puts the curve in figures for a split of the slots.           *)
MissesAtIsTheCurve ==
  \A C \in Caps : misses_at(<<hist>>, <<C>>) = MissesDocumented(hist, n_access, C)

(* The concave majorant of the misses saved at c slots, times 12 (a common *)
(* multiple of all widths up to cmax = 4).                                 *)
Relaxed(h, c) ==
  Max({(12 * (Saved(h, a) * (b - c) + Saved(h, b) * (c - a))) \div (b - a) :
         <<a, b>> \in {x \in (0 .. c) \X (c .. cmax) : x[1] # x[2]}})

ByHulls(cs) == Relaxed(H[1], cs[1]) + Relaxed(H[2], cs[2])
Rivals(total) ==
  {alloc_equal(total, 2)}
    \cup UNION {alloc_demand(<<Cardinality(UNION ToSet(trace)), ws>>, total) : ws \in 1 .. E}

(* The whole budget is spent, as far as there are experts to hold; no      *)
(* other split of it saves more by the hulls, and none saves more at all   *)
(* when every layer ends at a vertex of its hull ("optimal for the         *)
(* hull-relaxed problem and integral at every hull vertex").  The equal    *)
(* and the proportional split of the table spend no more and save no more. *)
AllocOptimal ==
  AllocDone =>
    /\ \A c \in Rivals(caps[1] + caps[2] + left) :
         c[1] + c[2] <= caps[1] + caps[2] /\ ByHulls(c) <= ByHulls(caps)
    /\ caps[1] + caps[2] + left \in Totals
    /\ left = Max({0, caps[1] + caps[2] + left - 2 * cmax})
    /\ \A c \in Splits(caps[1] + caps[2]) :
         /\ ByHulls(c) <= ByHulls(caps)
         /\ (\A li \in 1 .. 2 : Relaxed(H[li], caps[li]) = 12 * Saved(H[li], caps[li])) =>
              Saved(H[1], c[1]) + Saved(H[2], c[2])
                <= Saved(H[1], caps[1]) + Saved(H[2], caps[2])
============================================================================
