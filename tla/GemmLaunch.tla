----------------------------- MODULE GemmLaunch -----------------------------
(***************************************************************************)
(* Who serves a dense GEMM, and with which launch: the W4 draft head       *)
(* (draft_w4_lmhead.py), the bf16 skinny kernel (utils.py) and the fp8     *)
(* skinny kernel (fp8hip.py).  The first two launchers throw through       *)
(* ctypes, which ends the process: whatever the environment asks for, a    *)
(* call must be launched within their contract or left to another kernel.  *)
(* The third returns a code, and its caller raises.                        *)
(***************************************************************************)
EXTENDS Integers, Sequences, FiniteSetsExt

CONSTANTS
  Settings,     \* environments tried; an override that is unset is <<>>
  LibMaxM,      \* the most tokens the libraries say they take
  Tokens,       \* tokens of a call
  Shapes        \* <<weight rows, K>>

GROUP == 128
Lds   == 64 * 1024

ASSUME LaunchAssumption ==
  /\ LibMaxM \in 1 .. 64 /\ Tokens \subseteq Nat \ {0}
  /\ Shapes \subseteq (Nat \ {0}) \X (Nat \ {0})
  /\ \A s \in Settings :
       /\ s.fp8MaxM \in Int /\ s.minN \in Int /\ s.ftMinN \in Int
       /\ s.w4cfg \in Seq(Int) /\ s.bf16cfg \in Seq(Int)

VARIABLES
  env,
  fn,           \* [library] "unbound", "none" or "bound": the cached handle
  maxM,         \* [library] MAX_M as the module holds it
  last          \* the last call: who served it, with what launch

launchVars == <<env, fn, maxM, last>>

Served(by, launch) == last' = [by |-> by, launch |-> launch] /\ UNCHANGED <<env, fn, maxM>>

(* An override that does not parse is all zeros. *)
Parsed(v, n) == IF Len(v) = n THEN v ELSE [i \in 1 .. n |-> 0]

----------------------------------------------------------------------------
(* Configurations: <<WV, SK, NPW, NT>>, or <<WV, SK>> without columns.     *)

(* Faults: the LDS of the reduction is not counted; K is not. *)
FitsThreads(wv, sk, npw) == wv >= 1 /\ sk >= 1 /\ wv * sk * 32 <= 1024
AnySplit(k, sk, group) == sk >= 1

Fits(wv, sk, npw) ==
  wv >= 1 /\ sk >= 1 /\ wv * sk * 32 <= 1024 /\ wv * npw * sk * 1024 <= Lds
Splits(k, sk, group) == sk >= 1 /\ k % (sk * group) = 0

Legal(k, ntiles, c) ==
  /\ c[3] \in {1, 4} /\ Fits(c[1], c[2], c[3]) /\ Splits(k, c[2], GROUP)
  /\ c[1] * c[3] <= Max({1, ntiles})

CfgTable(m) ==
  IF m <= 16
  THEN <<<<1, 10, 1, 1>>, <<1, 4, 1, 1>>, <<1, 2, 1, 1>>, <<1, 1, 1, 1>>>>
  ELSE <<<<1, 4, 4, 1>>, <<1, 2, 4, 1>>, <<1, 1, 4, 1>>, <<1, 4, 1, 1>>, <<1, 1, 1, 1>>>>

Heuristic(k, ntiles) ==
  LET sk == Max({1} \cup {s \in {2, 4} : Splits(k, s, GROUP)})
  IN <<Max({1, Min({8, 1024 \div (sk * 32), Lds \div (sk * 1024), ntiles})}), sk, 1, 1>>

PickCfg(m, ntiles, k) ==
  LET o == Parsed(env.w4cfg, 4)
      table == CfgTable(m)
      fits == {i \in DOMAIN table : Legal(k, ntiles, table[i])}
  IN IF Legal(k, ntiles, o) /\ o[4] \in {0, 1} THEN o
     ELSE IF fits # {} THEN table[Min(fits)] ELSE Heuristic(k, ntiles)

(* <<>> when no split of K is legal. *)
Bf16Cfg(n_out, k) ==
  LET o == Parsed(env.bf16cfg, 2)
      legal == {s \in {1, 2, 4, 8, 16} : Splits(k, s, 16)}
      few == {s \in legal : ((n_out + 15) \div 16) * s <= env.waves}
      best == IF few # {} THEN Max(few) ELSE IF 2 \in legal THEN 2 ELSE Min(legal)
  IN IF Fits(o[1], o[2], 1) /\ Splits(k, o[2], 16) THEN o
     ELSE IF legal = {} THEN <<>> ELSE <<1, best>>

----------------------------------------------------------------------------
(* The libraries, bound at the first call and never looked up again.  A    *)
(* missing symbol may be found out after MAX_M has been read.              *)
KeepsMaxM(l) == UNCHANGED maxM                    \* fault: the bound is not re-read
ReadMaxM(l) == maxM' = [maxM EXCEPT ![l] = LibMaxM]

Bind(l) ==
  /\ fn[l] = "unbound"
  /\ \/ fn' = [fn EXCEPT ![l] = "bound"] /\ IF l = "fp8" THEN UNCHANGED maxM ELSE ReadMaxM(l)
     \/ fn' = [fn EXCEPT ![l] = "none"] /\ (UNCHANGED maxM \/ (l = "w4" /\ ReadMaxM(l)))
  /\ UNCHANGED <<env, last>>

Blocks(m) == Min({4, (m + 15) \div 16})
Launch(m, k, n, cfg) == [M |-> m, K |-> k, N |-> n, cfg |-> cfg, MB |-> Blocks(m)]
NoLaunch == <<>>

(* gemm_w4a16, on weights that available() let through: their rows are     *)
(* padded to whole tiles, their K is whole groups.                         *)
W4Call(m, shape) ==
  /\ fn["w4"] = "bound" /\ shape[2] % GROUP = 0
  /\ LET tiles == (shape[1] + 15) \div 16
         c == PickCfg(Min({m, maxM["w4"] + 1}), tiles, shape[2])
     IN IF m > maxM["w4"] THEN Served("dequantised", NoLaunch)
        ELSE IF c[3] \in {1, 4} /\ Fits(c[1], c[2], c[3]) /\ Splits(shape[2], c[2], GROUP)
        THEN Served("w4", Launch(m, shape[2], 16 * tiles, c))
        ELSE Served("raised", NoLaunch)

(* _r4d_bf16_skinny for tokens from floor on, the launch or <<>>. *)
Skinny(m, shape, floor, plain) ==
  LET c == Bf16Cfg(shape[1], shape[2])
  IN IF plain /\ fn["bf16"] = "bound" /\ m \in floor .. maxM["bf16"] /\ c # <<>>
     THEN Launch(m, shape[2], shape[1], c) ELSE NoLaunch

ServeBf16(launch) ==
  IF Fits(launch.cfg[1], launch.cfg[2], 1) /\ Splits(launch.K, launch.cfg[2], 16)
  THEN Served("bf16", launch) ELSE Served("raised", NoLaunch)

(* rocm_unquantized_gemm_impl: plain says bf16, contiguous and no bias;    *)
(* stock is what vLLM's own predicates choose where this code leaves off.  *)
DenseCall(m, shape, plain) ==
  LET skinny == Skinny(m, shape, env.minN, plain)
      ft == Skinny(m, shape, env.ftMinN, plain)
  IN /\ fn["bf16"] # "unbound"
     /\ \/ Served("stock", NoLaunch)
        \/ /\ shape[1] > 8 /\ m <= 5
           /\ IF skinny # NoLaunch THEN ServeBf16(skinny) ELSE Served("wvSplitK", NoLaunch)
        \/ IF env.ft /\ plain /\ shape[1] >= env.ftMinM /\ m <= env.ftMaxN /\ ft # NoLaunch
           THEN ServeBf16(ft) ELSE Served("linear", NoLaunch)

(* _HCQ_CFG_TABLE: <<WV, SK, NPW>> as measured, by <<N, K>>.               *)
Fp8Table ==
  [s \in {<<8192, 2560>>, <<6656, 2560>>, <<2560, 3072>>} |->
     CASE s[1] = 8192 -> <<8, 2, 1>> [] s[1] = 6656 -> <<2, 4, 1>> [] s[1] = 2560 -> <<2, 8, 1>>]

(* What the fp8 launcher returns a code for. *)
Fp8Tokens == 16
Refused(m, shape, c) ==
  \/ m > Fp8Tokens \/ shape[1] % 128 # 0 \/ shape[2] % 128 # 0
  \/ c[2] < 1 \/ (shape[2] \div 128) % c[2] # 0
  \/ c[1] < 1 \/ c[1] * c[2] * 32 > 1024 \/ c[3] \notin {1, 2, 4}
  \/ (c[1] * c[3] * c[2] * 256 + 16 * (shape[2] \div 128)) * 4 > Lds

HcqCfgAnyM(m, shape, plain) ==                    \* fault: the token bound is not looked at
  IF plain /\ shape \in DOMAIN Fp8Table THEN Fp8Table[shape] ELSE <<>>
HcqCfg(m, shape, plain) ==
  IF /\ m <= env.fp8MaxM /\ plain /\ shape[1] % 128 = 0 /\ shape[2] % 128 = 0
     /\ shape \in DOMAIN Fp8Table
  THEN Fp8Table[shape] ELSE <<>>

Fp8Call(m, shape, plain) ==
  LET c == HcqCfg(m, shape, plain)
  IN /\ fn["fp8"] # "unbound"
     /\ IF fn["fp8"] = "none" \/ c = <<>> THEN Served("fp8hip", NoLaunch)
        ELSE Served(IF Refused(m, shape, c) THEN "refused" ELSE "fp8", Launch(m, shape[2], shape[1], c))

----------------------------------------------------------------------------
Libs == {"w4", "bf16", "fp8"}

LaunchInit ==
  /\ env \in Settings
  /\ fn = [l \in Libs |-> "unbound"] /\ maxM = [l \in Libs |-> 64]
  /\ last = [by |-> "nobody", launch |-> NoLaunch]

(* Calls do not depend on each other: one is enough for a behaviour. *)
GemmCall ==
  /\ last.by = "nobody"
  /\ \E m \in Tokens, s \in Shapes, plain \in BOOLEAN :
       W4Call(m, s) \/ DenseCall(m, s, plain) \/ Fp8Call(m, s, plain)

LaunchNext == (\E l \in Libs : Bind(l)) \/ GemmCall

LaunchSpec == LaunchInit /\ [][LaunchNext]_launchVars

----------------------------------------------------------------------------
(* "anything illegal falls through to the heuristic rather than tripping   *)
(* the C launcher", "all of them are decided here": no environment, shape  *)
(* or token count makes a launcher of the draft head or the bf16 kernel    *)
(* throw, or launches more tokens than the library takes or the launch's   *)
(* row blocks cover.  The fp8 kernel is refused nothing but a call of more *)
(* than its tokens, and that only where VLLM_HC_FP8SK_MAX_M lets it        *)
(* through (ConditionsCheckedHere).                                        *)
NothingThrows ==
  /\ last.by # "raised"
  /\ last.by = "refused" => last.launch.M \in Fp8Tokens + 1 .. env.fp8MaxM
  /\ last.by \in {"w4", "bf16"} =>
       LET l == last.launch
       IN l.M <= LibMaxM /\ l.M <= 16 * l.MB
          /\ IF last.by = "w4"
             THEN /\ l.K % (l.cfg[2] * GROUP) = 0 /\ l.N % 16 = 0 /\ l.cfg[3] \in {1, 4}
                  /\ Max({l.cfg[1] * l.cfg[2] * 32, l.cfg[1] * l.cfg[2] * l.cfg[3] * 16}) <= 1024
             ELSE /\ l.K % (l.cfg[2] * 16) = 0
                  /\ Max({l.cfg[1] * l.cfg[2] * 32, l.cfg[1] * l.cfg[2] * 16}) <= 1024

(* "Every condition the kernel assumes is checked HERE rather than inside  *)
(* it": a call that _hcq_cfg has a configuration for is not refused.  Does *)
(* not hold: the tokens are held against VLLM_HC_FP8SK_MAX_M, which nobody *)
(* holds against the kernel's 16.                                          *)
ConditionsCheckedHere == last.by # "refused"
=============================================================================
