---------------------------- MODULE ManageKernel ----------------------------
(***************************************************************************)
(* lru_manage_k and pickVictims, thread by thread.  One workgroup of NT    *)
(* threads works through intervals separated by __syncthreads(); within an *)
(* interval the threads run in any order, each doing its share of the      *)
(* strided or chunked loops.  The block reductions (blkSum, blkMin,        *)
(* blkExScan) are taken as one collective step at their closing barrier.   *)
(*                                                                         *)
(* The log records which memory each thread touches in the current         *)
(* interval, so that two threads meeting there without a barrier between   *)
(* them is a visible error.                                                *)
(***************************************************************************)
EXTENDS Ranking, FiniteSetsExt, SequencesExt

CONSTANTS
  E, S, MaxDistinct, MaxInserts,   (* as in ExpertCache                    *)
  NT,                              (* threads of the workgroup             *)
  NSER,                            (* up to this many inserts: serial path *)
  RoutedIds,                       (* the topk_ids arrays a launch may get *)
  Parked,                          (* LLONG_MAX: the key of no slot        *)
  MaxStep                          (* bound: launches the clock can count  *)

Experts == 0 .. E-1
Slots   == 0 .. S-1
Entries == 0 .. MaxInserts-1
Threads == 0 .. NT-1
None    == -1
MAXS     == 1024
SlotBase == 1048576

(* The bounds of ExpertCache; the router picks at least one expert; and a  *)
(* key, the stamp shifted past the slot, still fits below LLONG_MAX (2^63: *)
(* room for 2^43 launches).                                                *)
ASSUME KernelAssumption ==
  /\ E \in Nat /\ S \in 1 .. E-1 /\ S <= MAXS /\ MaxDistinct \in Nat \ {0}
  /\ MaxInserts \in 0 .. S /\ NT \in Nat \ {0} /\ NSER \in Nat
  /\ \A a \in RoutedIds : a \in Seq(Int) /\ \E i \in DOMAIN a : a[i] \in Experts
  /\ MaxStep \in Nat /\ Parked \in Nat /\ (MaxStep + 1) * SlotBase <= Parked

VARIABLES
  \* device memory
  table, map_cold, slot_expert, slot_stamp, step, routed, miss, n_miss,
  \* shared memory of the workgroup
  s_se, s_st, s_key, s_vic,
  \* values every thread holds alike, or one per thread
  part,        \* [thread] operand of the running reduction
  nins, nact,  \* inserts asked for, inserts done
  r,           \* round of the serial path
  \* control
  ids,         \* topk_ids of this launch
  phase,       \* the interval the workgroup is in, or "idle"
  ran,         \* threads that have finished the interval
  log,         \* <<thread, kind, location>> accesses of the interval
  settled      \* device memory as the last retired launch left it

memory == <<table, map_cold, slot_expert, slot_stamp, step, routed, miss, n_miss>>
shared == <<s_se, s_st, s_key, s_vic>>
uniform == <<part, nins, nact, r>>
vars   == <<memory, shared, uniform, ids, phase, ran, log, settled>>

----------------------------------------------------------------------------
(* Work sharing.                                                           *)

Strided(t, n) == {i \in 0 .. n-1 : i % NT = t}
ChunkSize     == (E + NT - 1) \div NT
ChunkWide(t)  == {e \in Experts : t * ChunkSize <= e /\ e <= (t + 1) * ChunkSize}   \* fault
Chunk(t)      == {e \in Experts : t * ChunkSize <= e /\ e < (t + 1) * ChunkSize}

Valid(i) == ids[i + 1] \in Experts     \* positions 0 .. mk-1 of topk_ids

MissingIn(t) == {e \in Chunk(t) : routed[e] = 1 /\ table[e] < 0}
HitsIn(t)    == {e \in Chunk(t) : routed[e] = 1 /\ table[e] >= 0}

(* The position of e among the misses: the block scan gives the first one  *)
(* of the thread's chunk.                                                  *)
Base(t)     == SumFunctionOnSet(part, {u \in Threads : u < t})
Place(t, e) == Base(t) + Cardinality({f \in MissingIn(t) : f < e})

At(name, xs) == {<<name, x>> : x \in xs}

(* Thread t is done with the interval, having read and written these.      *)
Touch(t, rd, wr) ==
  /\ ran' = ran \cup {t}
  /\ log' = log \cup {<<t, "r", l>> : l \in rd} \cup {<<t, "w", l>> : l \in wr}

In(p, t) == phase = p /\ t \in Threads \ ran
Keep == UNCHANGED <<phase, ids, settled>>

----------------------------------------------------------------------------
(* The intervals of lru_manage_k.                                          *)

Clear(t) ==
  /\ In("clear", t)
  /\ routed' = [e \in Experts |-> IF e \in Strided(t, E) THEN 0 ELSE routed[e]]
  /\ IF t = 0 THEN step' = step + 1 /\ n_miss' = 0 ELSE UNCHANGED <<step, n_miss>>
  /\ Touch(t, {}, At("routed", Strided(t, E))
                    \cup (IF t = 0 THEN {<<"step", 0>>, <<"n_miss", 0>>} ELSE {}))
  /\ Keep /\ UNCHANGED <<table, map_cold, slot_expert, slot_stamp, miss, shared, uniform>>

(* Several threads may store the same 1 to one byte; that is logged as a   *)
(* mark, which only clashes with reads and other writes.                   *)
Mark(t) ==
  LET mine == {ids[i + 1] : i \in {j \in Strided(t, Len(ids)) : Valid(j)}}
  IN
  /\ In("mark", t)
  /\ routed' = [e \in Experts |-> IF e \in mine THEN 1 ELSE routed[e]]
  /\ ran' = ran \cup {t}
  /\ log' = log \cup {<<t, "m", l>> : l \in At("routed", mine)}
                \cup {<<t, "r", <<"step", 0>> >>}
  /\ Keep /\ UNCHANGED <<table, map_cold, slot_expert, slot_stamp, step, miss, n_miss,
                         shared, uniform>>

Count(t) ==
  /\ In("count", t)
  /\ part' = [part EXCEPT ![t] = Cardinality({e \in Strided(t, E) : routed[e] = 1})]
  /\ Touch(t, At("routed", Strided(t, E)), {})
  /\ Keep /\ UNCHANGED <<memory, shared, nins, nact, r>>

HitPhase(t) ==
  LET hit == {table[e] : e \in HitsIn(t)}
  IN
  /\ In("hits", t)
  /\ slot_stamp' = [s \in Slots |-> IF s \in hit THEN step ELSE slot_stamp[s]]
  /\ part' = [part EXCEPT ![t] = Cardinality(MissingIn(t))]
  /\ Touch(t, At("routed", Chunk(t)) \cup At("table", Chunk(t)), At("slot_stamp", hit))
  /\ Keep /\ UNCHANGED <<table, map_cold, slot_expert, step, routed, miss, n_miss,
                         shared, nins, nact, r>>

List(t) ==
  LET listed == {e \in MissingIn(t) : Place(t, e) < nins}
      own    == Strided(t, S)
  IN
  /\ In("list", t)
  /\ miss' = [j \in Entries |->
                IF \E e \in listed : Place(t, e) = j
                  THEN <<CHOOSE e \in listed : Place(t, e) = j, miss[j][2]>>
                  ELSE miss[j]]
  /\ s_se' = [s \in Slots |-> IF s \in own THEN slot_expert[s] ELSE s_se[s]]
  /\ s_st' = [s \in Slots |-> IF s \in own THEN slot_stamp[s] ELSE s_st[s]]
  /\ Touch(t, At("routed", Chunk(t)) \cup At("table", Chunk(t))
                \cup At("slot_expert", own) \cup At("slot_stamp", own),
              At("miss_expert", {Place(t, e) : e \in listed})
                \cup At("s_se", own) \cup At("s_st", own))
  /\ Keep /\ UNCHANGED <<table, map_cold, slot_expert, slot_stamp, step, routed, n_miss,
                         s_key, s_vic, uniform>>

(* pickVictims: one key per slot, parked when the slot must stay.          *)
Keys(t) ==
  LET own == Strided(t, S)
  IN
  /\ In("keys", t)
  /\ s_key' = [s \in Slots |->
                 IF s \notin own THEN s_key[s]
                 ELSE IF s_se[s] >= 0 /\ routed[s_se[s]] = 1 THEN Parked
                 ELSE s_st[s] * SlotBase + s]
  /\ s_vic' = [j \in Entries |-> IF j \in Strided(t, nins) THEN None ELSE s_vic[j]]
  /\ Touch(t, At("s_se", own) \cup At("s_st", own)
                \cup At("routed", {s_se[s] : s \in own} \ {None}),
              At("s_key", own) \cup At("s_vic", Strided(t, nins)))
  /\ Keep /\ UNCHANGED <<memory, s_se, s_st, uniform>>

(* installVictim for the rounds in rs, round j into slot at[j]; extra is   *)
(* what the caller writes besides.                                         *)
Install(t, rs, at, extra) ==
  LET slots == {at[j] : j \in rs}
      new   == {miss[j][1] : j \in rs}
      old   == {s_se[s] : s \in slots} \ {None}
      round(s) == CHOOSE j \in rs : at[j] = s
      home(e)  == at[CHOOSE j \in rs : miss[j][1] = e]
  IN
  /\ table' = [e \in Experts |-> IF e \in new THEN home(e)
                                 ELSE IF e \in old THEN None ELSE table[e]]
  /\ map_cold' = [e \in Experts |-> IF e \in new THEN None
                                    ELSE IF e \in old THEN e ELSE map_cold[e]]
  /\ s_se' = [s \in Slots |-> IF s \in slots THEN miss[round(s)][1] ELSE s_se[s]]
  /\ s_st' = [s \in Slots |-> IF s \in slots THEN step ELSE s_st[s]]
  /\ miss' = [j \in Entries |-> IF j \in rs THEN <<miss[j][1], at[j]>> ELSE miss[j]]
  /\ Touch(t, At("miss_expert", rs) \cup At("s_vic", Entries),
              At("table", new \cup old) \cup At("map_cold", new \cup old)
                \cup At("s_se", slots) \cup At("s_st", slots)
                \cup At("miss_slot", rs) \cup extra)

(* Serial path: the smallest key of the thread's slots, ...                *)
ArgMin(t) ==
  /\ In("argmin", t)
  /\ part' = [part EXCEPT ![t] = Min({s_key[s] : s \in Strided(t, S)} \cup {Parked})]
  /\ Touch(t, At("s_key", Strided(t, S)), {})
  /\ Keep /\ UNCHANGED <<memory, shared, nins, nact, r>>

(* ... then thread 0 fills the slot with the smallest of all and parks it. *)
Best == Min({part[t] : t \in Threads})

InstallOne(t) ==
  LET sl == Best % SlotBase
  IN
  /\ In("install_one", t)
  /\ IF t = 0
       THEN /\ Install(0, {r}, [j \in {r} |-> sl], At("s_key", {sl}))
            /\ s_key' = [s_key EXCEPT ![sl] = Parked]
       ELSE Touch(t, {}, {}) /\ UNCHANGED <<table, map_cold, s_se, s_st, miss, s_key>>
  /\ Keep /\ UNCHANGED <<slot_expert, slot_stamp, step, routed, n_miss, s_vic, uniform>>

(* Batched path: every evictable slot of the thread finds its own rank.    *)
(* Fault: the slot counts itself. *)
RankInclusive(s) == Cardinality({q \in Slots : s_key[q] <= s_key[s]})

RankOf(s) == Rank(Slots, s_key, s)

RankPhase(t) ==
  LET placed == {s \in Strided(t, S) : s_key[s] # Parked /\ RankOf(s) < nins}
  IN
  /\ In("rank", t)
  /\ s_vic' = [j \in Entries |->
                 IF \E s \in placed : RankOf(s) = j
                   THEN CHOOSE s \in placed : RankOf(s) = j
                   ELSE s_vic[j]]
  /\ Touch(t, At("s_key", Slots), At("s_vic", {RankOf(s) : s \in placed}))
  /\ Keep /\ UNCHANGED <<memory, s_se, s_st, s_key, uniform>>

InstallBatch(t) ==
  /\ In("install", t)
  /\ Install(t, Strided(t, nact), s_vic, {})
  /\ Keep /\ UNCHANGED <<slot_expert, slot_stamp, step, routed, n_miss, s_key, s_vic, uniform>>

Store(t) ==
  LET own == Strided(t, S)
  IN
  /\ In("store", t)
  /\ slot_expert' = [s \in Slots |-> IF s \in own THEN s_se[s] ELSE slot_expert[s]]
  /\ slot_stamp' = [s \in Slots |-> IF s \in own THEN s_st[s] ELSE slot_stamp[s]]
  /\ n_miss' = IF t = 0 THEN nact ELSE n_miss
  /\ Touch(t, At("s_se", own) \cup At("s_st", own),
              At("slot_expert", own) \cup At("slot_stamp", own)
                \cup (IF t = 0 THEN {<<"n_miss", 0>>} ELSE {}))
  /\ Keep /\ UNCHANGED <<table, map_cold, step, routed, miss, shared, uniform>>

----------------------------------------------------------------------------
(* Barriers: all threads have finished the interval; the workgroup takes   *)
(* the branch that the reduction of the interval decides.                  *)

Total == SumFunctionOnSet(part, Threads)

(* Nothing evictable left: break out of the serial loop.  Fault: continue. *)
RetryArgMin == IF Best = Parked THEN "argmin" ELSE "install_one"
AfterArgMin == IF Best = Parked THEN "store" ELSE "install_one"

AfterHits == Min({Total, MaxInserts})

(* The first hole of s_vic: the number of slots that were evictable.       *)
FirstHole == Min({j \in 0 .. nins-1 : s_vic[j] = None} \cup {nins})

Enter(p) == phase' = p /\ ran' = {} /\ log' = {}

Barrier ==
  /\ ran = Threads
  /\ UNCHANGED <<memory, shared, ids, settled, part>>
  /\ \/ phase = "clear" /\ Enter("mark") /\ UNCHANGED <<nins, nact, r>>
     \/ phase = "mark" /\ Enter("count") /\ UNCHANGED <<nins, nact, r>>
     \/ /\ phase = "count"
        /\ Enter(IF Total > MaxDistinct THEN "exit" ELSE "hits")
        /\ UNCHANGED <<nins, nact, r>>
     \/ /\ phase = "hits"
        /\ nins' = AfterHits
        /\ Enter(IF AfterHits = 0 THEN "exit" ELSE "list")
        /\ UNCHANGED <<nact, r>>
     \/ phase = "list" /\ Enter("keys") /\ UNCHANGED <<nins, nact, r>>
     \/ /\ phase = "keys"
        /\ Enter(IF nins <= NSER THEN "argmin" ELSE "rank")
        /\ r' = 0 /\ nact' = 0 /\ UNCHANGED nins
     \/ /\ phase = "argmin"
        /\ Enter(AfterArgMin)
        /\ UNCHANGED <<nins, nact, r>>
     \/ /\ phase = "install_one"
        /\ r' = r + 1 /\ nact' = r + 1
        /\ Enter(IF r + 1 < nins THEN "argmin" ELSE "store")
        /\ UNCHANGED nins
     \/ /\ phase = "rank"
        /\ nact' = FirstHole
        /\ Enter(IF FirstHole = 0 THEN "store" ELSE "install")
        /\ UNCHANGED <<nins, r>>
     \/ phase = "install" /\ Enter("store") /\ UNCHANGED <<nins, nact, r>>
     \/ phase = "store" /\ Enter("exit") /\ UNCHANGED <<nins, nact, r>>

----------------------------------------------------------------------------
(* The stream launches one kernel after the other.                         *)

Memory ==
  [table |-> table, map_cold |-> map_cold, slot_expert |-> slot_expert,
   slot_stamp |-> slot_stamp, step |-> step, miss |-> miss, n_miss |-> n_miss,
   routed |-> {e \in Experts : routed[e] = 1}]

(* The cache as the rest of the stream sees it, between two launches. *)
Cache == INSTANCE ExpertCache WITH
  table <- settled.table, map_cold <- settled.map_cold,
  slot_expert <- settled.slot_expert, slot_stamp <- settled.slot_stamp,
  step <- settled.step, miss <- settled.miss, n_miss <- settled.n_miss,
  routed <- settled.routed

WarmStart == INSTANCE ExpertCache WITH routed <- {e \in Experts : routed[e] = 1}

Init ==
  /\ routed = [e \in Experts |-> 0]
  /\ WarmStart!Init
  /\ s_se = [s \in Slots |-> None] /\ s_st = [s \in Slots |-> 0]
  /\ s_key = [s \in Slots |-> Parked] /\ s_vic = [j \in Entries |-> None]
  /\ part = [t \in Threads |-> 0] /\ nins = 0 /\ nact = 0 /\ r = 0
  /\ ids = <<>> /\ phase = "idle" /\ ran = {} /\ log = {}
  /\ settled = Memory

LaunchKernel ==
  /\ phase = "idle" /\ step < MaxStep
  /\ ids' \in RoutedIds
  /\ Enter("clear")
  /\ UNCHANGED <<memory, shared, uniform, settled>>

(* The grid has retired; its local values are gone, the memory stays.      *)
Retire ==
  /\ phase = "exit"
  /\ Enter("idle")
  /\ ids' = <<>>
  /\ s_se' = [s \in Slots |-> None] /\ s_st' = [s \in Slots |-> 0]
  /\ s_key' = [s \in Slots |-> Parked] /\ s_vic' = [j \in Entries |-> None]
  /\ part' = [t \in Threads |-> 0] /\ nins' = 0 /\ nact' = 0 /\ r' = 0
  /\ settled' = Memory
  /\ UNCHANGED memory

Run(t) ==
  \/ Clear(t) \/ Mark(t) \/ Count(t) \/ HitPhase(t) \/ List(t) \/ Keys(t)
  \/ ArgMin(t) \/ InstallOne(t) \/ RankPhase(t) \/ InstallBatch(t) \/ Store(t)

Next == LaunchKernel \/ (\E t \in Threads : Run(t)) \/ Barrier \/ Retire

Spec == Init /\ [][Next]_vars

(* The hardware schedules every wave of a resident workgroup and retires   *)
(* it when the waves have ended; when the next launch comes is up to the   *)
(* host.                                                                   *)
Fairness ==
  /\ \A t \in Threads : WF_vars(Run(t))
  /\ WF_vars(Barrier) /\ WF_vars(Retire)

FairSpec == Spec /\ Fairness

----------------------------------------------------------------------------
(* Properties.                                                             *)

(* Two threads never meet at one location between two barriers unless both *)
(* read it, or both set the same routed flag.  pickVictims' comment claims *)
(* it of the parallel installs ("no two updates can touch the same         *)
(* table/map_cold entry"); every other interval relies on it as well.      *)
RaceFree ==
  \A a, b \in log :
    a[1] # b[1] /\ a[3] = b[3] => a[2] = b[2] /\ a[2] \in {"r", "m"}

(* Whatever the order of the threads, serial path or batched, a launch is  *)
(* one atomic step of ExpertCache: the same victims for the same experts,  *)
(* also when the evictable slots run out.                                  *)
ImplementsCache == Cache!Spec

(* A launched workgroup retires: every early return is taken by the whole  *)
(* group, and the serial loop ends.                                        *)
Retires == phase # "idle" ~> phase = "idle"
============================================================================
