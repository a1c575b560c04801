---------------------------- MODULE DecodeMemos ----------------------------
(***************************************************************************)
(* What the patched layers remember from one Python call to the next while *)
(* forwards run eagerly and while HIP graphs are captured from them: the   *)
(* split rope cache (cos_sin_halves), the (1 + w) of a GemmaRMSNorm        *)
(* (_weight_for) and the last fp8 quantisation (fp8_quant_shared).  A      *)
(* replay runs no Python: it reads the tensors its capture read.           *)
(***************************************************************************)
EXTENDS Integers, FiniteSets

CONSTANTS
  Graphs,     \* graphs to capture
  Addresses,  \* where activations can be allocated
  NoTensor,   \* no memo, an empty slot
  MaxBuilt,   \* bound: tensors made, by the memos and as activations
  MaxMoves    \* bound: reloads and casts that move a source

Sites == {"rope", "norm"}
Eager == "eager"

(* A memoised tensor, a quantisation, and what the slot and its callers    *)
(* hold; "nothing" is none of them.                                        *)
Homes    == Graphs \cup {Eager}
Tensors  == [site : Sites, key : Nat, home : Homes, n : Nat]
Quants   == [n : Nat, ver : {0, 1}, home : Homes]
Slotted  == [addr : Addresses, q : Quants]
Handed   == [q : Quants, n : Nat, ver : {0, 1}, home : Homes]
Acts     == [addr : Addresses, n : Nat, ver : {0, 1}, calls : {0, 1, 2}]

ASSUME MemoAssumption ==
  /\ MaxBuilt \in Nat /\ Eager \notin Graphs
  /\ NoTensor \notin Tensors /\ NoTensor \notin Slotted /\ NoTensor \notin Handed

VARIABLES
  ctx,       \* Eager, or the graph being captured
  captured,
  source,    \* site -> identity of the rope cache; address and dtype of the weight
  memo,      \* site -> the tensor remembered, or NoTensor
  baked,     \* graph -> tensors its kernels read
  acts,      \* live activations of this forward
  a8_slot,   \* _a8_slot
  given,     \* the last quantisation handed out, and for what
  made       \* tensors so far

siteVars == <<source, memo, baked>>
quantVars == <<acts, a8_slot, given>>
memoVars == <<ctx, captured, siteVars, quantVars, made>>

MemoInit ==
  /\ ctx = Eager /\ captured = {}
  /\ source = [s \in Sites |-> 0] /\ memo = [s \in Sites |-> NoTensor]
  /\ baked = [g \in Graphs |-> {}]
  /\ acts = {} /\ a8_slot = NoTensor /\ given = NoTensor
  /\ made = 0

(***************************************************************************)
(* The two memos.  A miss builds a tensor in the memory of the context;    *)
(* under capture that is the graph's private pool, and it is not kept.     *)
(***************************************************************************)
Fresh(s) == [site |-> s, key |-> source[s], home |-> ctx, n |-> made]
HitAnyKey(s) == memo[s] # NoTensor          \* fault: whatever the source is now
Hit(s) == memo[s] # NoTensor /\ memo[s].key = source[s]
KeepAlways(s, x) == x                   \* fault: kept even under capture
Keep(s, x) == IF ctx = Eager THEN x ELSE memo[s]

Lookup(s) ==
  /\ made < MaxBuilt
  /\ LET x == IF Hit(s) THEN memo[s] ELSE Fresh(s) IN
       /\ memo' = [memo EXCEPT ![s] = IF Hit(s) THEN @ ELSE Keep(s, x)]
       /\ baked' = IF ctx = Eager THEN baked ELSE [baked EXCEPT ![ctx] = @ \cup {x}]
       /\ made' = IF Hit(s) THEN made ELSE made + 1
  /\ UNCHANGED <<ctx, captured, source, quantVars>>

(* A weight is reloaded, or the rope cache cast to another dtype: before   *)
(* the first capture ("weights are static after load").                    *)
Move(s) ==
  /\ ctx = Eager /\ captured = {} /\ source[s] < MaxMoves
  /\ source' = [source EXCEPT ![s] = @ + 1]
  /\ UNCHANGED <<ctx, captured, memo, baked, quantVars, made>>

(***************************************************************************)
(* The shared quantisation.  "slot[0] is x" compares addresses of objects; *)
(* the slot's own reference keeps the object's address taken.              *)
(***************************************************************************)
Unpinned == {}                          \* fault: no strong reference
Pinned == IF a8_slot = NoTensor THEN {} ELSE {a8_slot.addr}

Activation ==
  /\ made < MaxBuilt
  /\ \E a \in Addresses \ (Pinned \cup {x.addr : x \in acts}) :
       acts' = acts \cup {[addr |-> a, n |-> made, ver |-> 0, calls |-> 0]}
  /\ made' = made + 1
  /\ UNCHANGED <<ctx, captured, siteVars, a8_slot, given>>

Release(x) ==
  /\ acts' = acts \ {x}
  /\ UNCHANGED <<ctx, captured, siteVars, a8_slot, given, made>>

Serves(x) == a8_slot # NoTensor /\ a8_slot.addr = x.addr
SlotKept == a8_slot                     \* fault: a hit leaves the slot as it is
SlotAfterHit == NoTensor

(* 1 after a first call, 0 again when the second comes back to back. *)
CallsAfter(x) ==
  CASE x.calls = 0 -> 1
    [] x.calls = 1 /\ given.n = x.n -> 0
    [] OTHER -> 2

Quantise(x) ==
  LET q == IF Serves(x) THEN a8_slot.q ELSE [n |-> x.n, ver |-> x.ver, home |-> ctx]
  IN /\ a8_slot' = IF Serves(x) THEN SlotAfterHit ELSE [addr |-> x.addr, q |-> q]
     /\ given' = [q |-> q, n |-> x.n, ver |-> x.ver, home |-> ctx]
     /\ acts' = (acts \ {x}) \cup {[x EXCEPT !.calls = CallsAfter(x)]}
     /\ UNCHANGED <<ctx, captured, siteVars, made>>

(* Assumed: x is written in place only when its calls came in pairs, back  *)
(* to back ("nobody writes into that tensor in place between the two       *)
(* calls"; another tensor's call in between would leave the slot filled).  *)
Write(x) ==
  /\ x.calls = 0 /\ x.ver = 0
  /\ acts' = (acts \ {x}) \cup {[x EXCEPT !.ver = 1]}
  /\ UNCHANGED <<ctx, captured, siteVars, a8_slot, given, made>>

(***************************************************************************)
(* Forwards come and go in a context; their activations go with them.      *)
(***************************************************************************)
Capture(g) ==
  /\ ctx = Eager /\ g \notin captured /\ acts = {}
  /\ ctx' = g
  /\ UNCHANGED <<captured, siteVars, quantVars, made>>

EndCapture ==
  /\ ctx # Eager /\ acts = {}
  /\ ctx' = Eager /\ captured' = captured \cup {ctx}
  /\ UNCHANGED <<siteVars, quantVars, made>>

Replay(g) == ctx = Eager /\ g \in captured /\ UNCHANGED memoVars

MemoNext ==
  \/ \E s \in Sites : Lookup(s) \/ Move(s)
  \/ Activation
  \/ \E x \in acts : Release(x) \/ Quantise(x) \/ Write(x)
  \/ \E g \in Graphs : Capture(g) \/ Replay(g)
  \/ EndCapture

MemoSpec == MemoInit /\ [][MemoNext]_memoVars

----------------------------------------------------------------------------
(* Properties.                                                             *)

(* A tensor allocated in a capturing graph's private pool is "correct for  *)
(* this graph, but must not be handed to another graph or to eager".       *)
PoolStaysPrivate ==
  /\ \A s \in Sites : memo[s] = NoTensor \/ memo[s].home = Eager
  /\ \A g \in Graphs : \A x \in baked[g] : x.home \in {Eager, g}
  /\ given # NoTensor => given.q.home \in {Eager, given.home}

(* What a graph reads outside its pool stays allocated and current: it is  *)
(* still the tensor the memo holds, whatever eager forwards did since.     *)
BakedStayLive ==
  \A g \in Graphs : \A x \in baked[g] :
    /\ x.home = Eager => memo[x.site] = x
    /\ x.key = source[x.site]

(* The quantisation handed out is that of the tensor asked about, with     *)
(* what it holds now.                                                      *)
QuantIsOfX == given # NoTensor => given.q.n = given.n /\ given.q.ver = given.ver
============================================================================
