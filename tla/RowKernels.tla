----------------------------- MODULE RowKernels -----------------------------
(***************************************************************************)
(* The two row-per-program Triton kernels and the layers that launch them: *)
(* the tail of the shared expert (fused_gate_mul.py from qwen2_moe.py) and *)
(* the activation of the routed experts with its fp8 quantisation          *)
(* (fused_silu_mul_quant.py from r4d_mxfp4_moe.py).  Programs of a launch  *)
(* run in any order; each finds its row by a base and a row stride, and    *)
(* takes the rest of the layout on trust from the guard.                   *)
(*                                                                         *)
(* A tensor is a layout, [T, N, s0, s1]: element (r, c) lies at address    *)
(* r * s0 + c * s1.  In the tail an element is named by its address.  The  *)
(* activation counts in eighths, of which the storage dtype has every      *)
(* fourth, so that rounding shows.                                         *)
(***************************************************************************)
EXTENDS Integers, FiniteSetsExt

CONSTANTS
  Tails,        \* shared-expert tails: layouts of [x, w, gate, out]
  Modes,        \* [mode, mounted, gemv]: VLLM_FUSED_SHARED_GATE, the module is
                \* mounted, and with a gemv for a gate of weights and no bias
  MaxRows,      \* VLLM_FUSED_SHARED_GATE_MAX_ROWS
  MaxLanes,     \* the widest block of the tail (1024)
  Inputs,       \* layouts of the activation's input
  Contents,     \* what it may hold: address -> value
  BlockSizes,   \* powers of two, as far as these tensors need them
  MaxBlock,     \* _MAX_BLOCK
  Silu,         \* value -> its silu
  ScaleFloor    \* the amax that the least scale is made for

IsLayout(a) == a.T \in Nat /\ a.N \in Nat /\ a.s0 \in Nat /\ a.s1 \in Nat

ASSUME RowAssumption ==
  /\ MaxLanes \in Nat \ {0} /\ ScaleFloor \in Nat
  /\ BlockSizes \subseteq Nat \ {0}
  /\ \A t \in Tails :
       /\ IsLayout(t.x) /\ IsLayout(t.w) /\ IsLayout(t.gate) /\ IsLayout(t.out)
       /\ \A n \in {t.x.N, t.out.N} : \E b \in BlockSizes : b >= n
  /\ \A a \in Inputs :
       IsLayout(a) /\ a.N >= 2 /\ \E b \in BlockSizes : b >= a.N \div 2
  /\ \A v \in DOMAIN Silu : v \in Int /\ Silu[v] \in Int
  /\ \A a \in Inputs, h \in Contents : \A r \in 0 .. a.T - 1, c \in 0 .. a.N - 1 :
       h[r * a.s0 + c * a.s1] \in DOMAIN Silu

VARIABLES
  launch,       \* the tensors, and the path that serves them
  pending,      \* rows whose program has not run
  y, q, scale,  \* address -> what was stored there
  strayed       \* a program touched what is no element of its tensors

rowVars == <<launch, pending, y, q, scale, strayed>>

----------------------------------------------------------------------------
(* Layouts.                                                                *)

Rows(a) == 0 .. a.T - 1
Cols(a) == 0 .. a.N - 1
Elem(a, r, c) == r * a.s0 + c * a.s1
Elems(a) == {Elem(a, r, c) : r \in Rows(a), c \in Cols(a)}
Packed(t, n) == [T |-> t, N |-> n, s0 |-> n, s1 |-> 1]

(* torch.empty_like keeps the strides of a tensor without gaps. *)
EmptyLike(a) == IF Elems(a) = 0 .. a.T * a.N - 1 THEN a ELSE Packed(a.T, a.N)

NextPowerOf2(n) == Min({b \in BlockSizes : b >= n})
LaneBlock(n) == Min({MaxLanes, NextPowerOf2(n)})

(* Memory after the elements of f were stored in it. *)
Stored(m, f) == [a \in DOMAIN m \cup DOMAIN f |-> IF a \in DOMAIN f THEN f[a] ELSE m[a]]

(* The columns that the lanes of blocks b, 2b, .. reach under the mask. *)
LanesUnmasked(n, b) == 0 .. b * ((n + b - 1) \div b) - 1     \* fault
Lanes(n, b) == {c \in 0 .. b * ((n + b - 1) \div b) - 1 : c < n}

----------------------------------------------------------------------------
(* The shared expert's tail: sigmoid(x . w) * out.                         *)

SupportedAnyGate(gate, out) == gate.N = 1 /\ gate.T = out.T /\ out.s1 = 1   \* fault: any stride
Supported(gate, out) == gate.N = 1 /\ gate.T = out.T /\ gate.s0 = 1 /\ out.s1 = 1

SupportedGemv(x, w, out) ==
  /\ w.T = 1 /\ w.N = x.N /\ w.s1 = 1
  /\ x.T = out.T /\ x.s1 = 1 /\ out.s1 = 1
  /\ 0 < x.T /\ x.T <= MaxRows

TailPath(m, tail) ==
  LET fused == m.mode >= 1 /\ m.mounted IN
  IF fused /\ m.mode >= 2 /\ m.gemv /\ SupportedGemv(tail.x, tail.w, tail.out) THEN "gemv"
  ELSE IF fused /\ Supported(tail.gate, tail.out) THEN "gate" ELSE "stock"

(* The gate's scalar of a row, as the products its dot product sums. *)
Dot(r) == {<<Elem(launch.x, r, k), Elem(launch.w, 0, k)>> : k \in Cols(launch.x)}

(* What a program has for it: what lies at address r of the gate, or the   *)
(* sum it makes itself, block by block.                                    *)
XLanes == Lanes(launch.x.N, LaneBlock(launch.x.N))
Scalar(r) ==
  IF launch.path = "gate"
  THEN UNION {Dot(i) : i \in {j \in Rows(launch.gate) : Elem(launch.gate, j, 0) = r}}
  ELSE {<<r * launch.x.s0 + k, k>> : k \in XLanes}

(* The row of y follows that of out, with a stride of its own. *)
RowOfY(r) == r * launch.out.N
RowOfOut(r) == r * launch.out.s0

TailTouches(r) ==
  LET lanes == Lanes(launch.out.N, LaneBlock(launch.out.N)) IN
  {<<EmptyLike(launch.out), RowOfY(r) + c>> : c \in lanes}
    \cup {<<launch.out, RowOfOut(r) + c>> : c \in lanes}
    \cup IF launch.path = "gate" THEN {<<launch.gate, r>>}
         ELSE {<<launch.x, r * launch.x.s0 + k>> : k \in XLanes} \cup {<<launch.w, k>> : k \in XLanes}

Strays(touches) == \E p \in touches : p[2] \notin Elems(p[1])

TailProgram(r) ==
  /\ launch.path \in {"gate", "gemv"}
  /\ y' = Stored(y, [a \in {RowOfY(r) + c : c \in Lanes(launch.out.N, LaneBlock(launch.out.N))} |->
                       <<Scalar(r), a - RowOfY(r) + RowOfOut(r)>>])
  /\ strayed' = (strayed \/ Strays(TailTouches(r)))
  /\ UNCHANGED <<q, scale>>

----------------------------------------------------------------------------
(* silu_and_mul and the per-token quantisation: a row is [gate | up].      *)

d == launch.x.N \div 2
SupportedSilu(a) == a.N % 2 = 0 /\ a.s1 = 1 /\ NextPowerOf2(a.N \div 2) <= MaxBlock

Round(v) == 4 * ((v + 2) \div 4)
Abs(v) == IF v < 0 THEN -v ELSE v
Product(g, u) == (Round(Silu[g]) * u) \div 8

(* A value over its scale, within what fp8 can hold. *)
Quantised(a, s) == IF Abs(a) > s THEN <<IF a > 0 THEN s ELSE -s, s>> ELSE <<a, s>>

AmaxUnstored(ps) == Max({Abs(p) : p \in ps})          \* fault: of the product before it is rounded
Amax(ps) == Max({Abs(Round(p)) : p \in ps})

SiluProgram(r) ==
  /\ launch.path = "silu"
  /\ LET lanes == Lanes(d, NextPowerOf2(d))
         base == r * launch.x.s0
         stores == {r * d + c : c \in lanes}
         Prod(c) == Product(launch.holds[base + c], launch.holds[base + d + c])
         s == Max({Amax({Prod(c) : c \in lanes}), ScaleFloor})
     IN /\ q' = Stored(q, [a \in stores |-> Quantised(Round(Prod(a - r * d)), s)])
        /\ scale' = Stored(scale, [i \in {r} |-> s])
        /\ y' = IF launch.write_act THEN Stored(y, [a \in stores |-> Round(Prod(a - r * d))]) ELSE y
        /\ strayed' = (strayed \/ Strays({<<launch.x, base + c>> : c \in lanes}
                                           \cup {<<launch.x, base + d + c>> : c \in lanes}))

----------------------------------------------------------------------------
(* The wrappers do not launch on no rows, and the gemv's guard asks for    *)
(* one: a grid of no programs is refused by the runtime.                   *)
NoPrograms(path, rows) == path = "gemv" /\ rows = {}

RowInit ==
  /\ \/ \E tail \in Tails, m \in Modes : LET path == TailPath(m, tail) IN
          /\ launch = [path |-> path, x |-> tail.x, w |-> tail.w, gate |-> tail.gate, out |-> tail.out]
          /\ pending = IF path = "stock" THEN {} ELSE Rows(tail.out)
          /\ strayed = NoPrograms(path, Rows(tail.out))
     \/ \E a \in Inputs, h \in Contents, act \in BOOLEAN, plain \in BOOLEAN :
          LET fused == plain /\ SupportedSilu(a) IN   \* a silu without clamp, mounted
          /\ launch = [path |-> IF fused THEN "silu" ELSE "stock", x |-> a,
                       holds |-> h, write_act |-> act]
          /\ pending = IF fused THEN Rows(a) ELSE {}
          /\ strayed = FALSE
  /\ y = <<>> /\ q = <<>> /\ scale = <<>>

Program(r) == pending' = pending \ {r} /\ UNCHANGED launch /\ (TailProgram(r) \/ SiluProgram(r))

RowNext == \E r \in pending : Program(r)

RowSpec == RowInit /\ [][RowNext]_rowVars

----------------------------------------------------------------------------
(* Properties.                                                             *)

(* What aten and the two kernels of vLLM leave: the row's own gate times   *)
(* the element; silu in the storage dtype times up, stored, and quantised  *)
(* with the scale of what its row stored.                                  *)
StockTail(r, c) == <<Dot(r), Elem(launch.out, r, c)>>
StockAct(r, c) ==
  LET g == launch.holds[Elem(launch.x, r, c)]
      u == launch.holds[Elem(launch.x, r, d + c)]
  IN Round((Round(Silu[g]) * u) \div 8)
StockScale(r) == Max({Abs(StockAct(r, c)) : c \in 0 .. d - 1} \cup {ScaleFloor})

(* "bit-identical to the stock path": on every layout the guards let in    *)
(* each element gets what the separate kernels would give it, once all     *)
(* programs have run, in any order; none touches anything outside its      *)
(* tensors, and the clamp to fp8 never bites.                              *)
FusedIsStock ==
  /\ ~ strayed
  /\ pending = {} =>
       CASE launch.path \in {"gate", "gemv"} ->
              /\ DOMAIN y = Elems(EmptyLike(launch.out))
              /\ \A r \in Rows(launch.out), c \in Cols(launch.out) :
                   y[Elem(EmptyLike(launch.out), r, c)] = StockTail(r, c)
         [] launch.path = "silu" ->
              \A r \in Rows(launch.x) :
                /\ scale[r] = StockScale(r)
                /\ \A c \in 0 .. d - 1 : LET a == Elem(Packed(launch.x.T, d), r, c) IN
                     /\ q[a] = <<StockAct(r, c), StockScale(r)>>
                     /\ launch.write_act => y[a] = StockAct(r, c)
         [] launch.path = "stock" -> y = <<>> /\ q = <<>>
=============================================================================
