------------------------------ MODULE RouteCap ------------------------------
(***************************************************************************)
(* tools/routecap/routecap.py: a device ring that the replayed graph fills *)
(* with every layer's routed ids, one slot per step, and host threads that *)
(* copy it out now and then on a stream of their own.  Nothing orders the  *)
(* copies with the graph: a flush reads the counter, then the step labels, *)
(* then the ring, cell by cell, while steps go on.                         *)
(*                                                                         *)
(* The ids of a step are named by the step's number.                       *)
(***************************************************************************)
EXTENDS Integers, Sequences, FiniteSets, FiniteSetsExt

CONSTANTS
  RING,        (* slots of the ring                                         *)
  NLayers,     (* MoE layers captured                                       *)
  Flushers,    (* threads that call flush(): the dumper, an rpc             *)
  MaxSteps,    (* bound: decode steps                                       *)
  MaxDumps     (* bound: flushes                                            *)

Routers == 1 .. NLayers
Slots  == 0 .. RING-1
Unset  == -1

ASSUME RouteCapAssumption ==
  RING \in Nat \ {0} /\ NLayers \in Nat \ {0} /\ MaxSteps \in Nat /\ MaxDumps \in Nat

VARIABLES
  \* device
  ctr,          \* steps begun
  stage,        \* where the running step is: 0 none, 1 labelled next, then layers
  label,        \* [slot] the step it is labelled with (_State.step)
  ring,         \* [layer][slot] step whose ids lie there
  \* host, shared by the flushers
  saved_steps,  \* the trace: step numbers ...
  saved_ids,    \* ... and, in parallel, the layers' ids
  high,         \* highest step saved
  wrapped,      \* steps counted as lost to wrap
  tmp, file,    \* what routes_rank<N>.npz.tmp and routes_rank<N>.npz hold
  dumps,        \* flushes begun
  \* one per flusher
  pc, seen, labels, image, todo, slot

device == <<ctr, stage, label, ring>>
host   == <<saved_steps, saved_ids, high, wrapped, tmp, file>>
local  == <<pc, seen, labels, image, todo, slot>>
vars   == <<device, host, dumps, local>>

----------------------------------------------------------------------------
(* The graph: ctr += 1, label the slot, then one store per layer.          *)

SlotOf(v) == v % RING

BeginStep ==
  /\ stage = 0 /\ ctr < MaxSteps
  /\ ctr' = ctr + 1 /\ stage' = 1
  /\ UNCHANGED <<label, ring, host, dumps, local>>

LabelSlot ==
  /\ stage = 1
  /\ label' = [label EXCEPT ![SlotOf(ctr)] = ctr]
  /\ stage' = 2
  /\ UNCHANGED <<ctr, ring, host, dumps, local>>

StoreLayer ==
  /\ stage > 1
  /\ ring' = [ring EXCEPT ![stage - 1][SlotOf(ctr)] = ctr]
  /\ stage' = IF stage - 1 = NLayers THEN 0 ELSE stage + 1
  /\ UNCHANGED <<ctr, label, host, dumps, local>>

----------------------------------------------------------------------------
(* flush().                                                                *)

Goto(f, p) == pc' = [pc EXCEPT ![f] = p]

ReadCtr(f) ==
  /\ pc[f] = "idle" /\ dumps < MaxDumps
  /\ dumps' = dumps + 1
  /\ seen' = [seen EXCEPT ![f] = ctr]
  /\ todo' = [todo EXCEPT ![f] = Slots]
  /\ Goto(f, "labels")
  /\ UNCHANGED <<device, host, labels, image, slot>>

(* st.step.to("cpu"): slot by slot, in no particular order. *)
CopyLabel(f) ==
  /\ pc[f] = "labels"
  /\ \E s \in todo[f] :
       /\ labels' = [labels EXCEPT ![f][s] = label[s]]
       /\ IF todo[f] = {s}
            THEN /\ todo' = [todo EXCEPT ![f] = Routers \X Slots]
                 /\ Goto(f, "ring")
            ELSE /\ todo' = [todo EXCEPT ![f] = @ \ {s}]
                 /\ UNCHANGED pc
  /\ UNCHANGED <<device, host, dumps, seen, image, slot>>

(* st.ring.to("cpu"); the slots are then visited in the order of their     *)
(* labels.                                                                 *)
CopyRing(f) ==
  /\ pc[f] = "ring"
  /\ \E x \in todo[f] :
       /\ image' = [image EXCEPT ![f][x[1]][x[2]] = ring[x[1]][x[2]]]
       /\ IF todo[f] = {x}
            THEN /\ todo' = [todo EXCEPT ![f] = Slots]
                 /\ Goto(f, "visit")
            ELSE /\ todo' = [todo EXCEPT ![f] = @ \ {x}]
                 /\ UNCHANGED pc
  /\ UNCHANGED <<device, host, dumps, seen, labels, slot>>

(* A slot is taken unless it was saved before, never written, or its step  *)
(* may still be running.                                                   *)
SkippedNotLast(f, v)  == v < high \/ v < 0 \/ v >= seen[f]    \* faults: the last one saved
                                                             \* is taken again,
SkippedNotNewest(f, v) == v <= high \/ v < 0 \/ v > seen[f]   \* the running step too
Skipped(f, v) == v <= high \/ v < 0 \/ v >= seen[f]

InSlotOrder(f) == {s \in todo[f] : \A q \in todo[f] : s <= q}      \* fault
Earliest(f) == {s \in todo[f] : \A q \in todo[f] : labels[f][s] <= labels[f][q]}

Visit(f) ==
  /\ pc[f] = "visit" /\ todo[f] # {}
  /\ \E s \in Earliest(f) :
       /\ slot' = [slot EXCEPT ![f] = s]
       /\ todo' = [todo EXCEPT ![f] = @ \ {s}]
       /\ Goto(f, IF Skipped(f, labels[f][s]) THEN "visit" ELSE "append_step")
  /\ UNCHANGED <<device, host, dumps, seen, labels, image>>

AppendStep(f) ==
  /\ pc[f] = "append_step"
  /\ saved_steps' = Append(saved_steps, labels[f][slot[f]])
  /\ Goto(f, "append_ids")
  /\ UNCHANGED <<device, saved_ids, high, wrapped, tmp, file, dumps, seen, labels, image, todo, slot>>

AppendIds(f) ==
  /\ pc[f] = "append_ids"
  /\ saved_ids' = Append(saved_ids, [l \in Routers |-> image[f][l][slot[f]]])
  /\ Goto(f, "set_high")
  /\ UNCHANGED <<device, saved_steps, high, wrapped, tmp, file, dumps, seen, labels, image, todo, slot>>

SetHigh(f) ==
  /\ pc[f] = "set_high"
  /\ high' = labels[f][slot[f]]
  /\ Goto(f, "visit")
  /\ UNCHANGED <<device, saved_steps, saved_ids, wrapped, tmp, file, dumps, seen, labels, image, todo, slot>>

LostToWrap ==
  LET last == saved_steps[Len(saved_steps)] IN
  IF saved_steps # <<>> /\ last - Len(saved_steps) + 1 > 0
    THEN last + 1 - Len(saved_steps)
    ELSE wrapped

CountLost(f) ==
  /\ pc[f] = "visit" /\ todo[f] = {}
  /\ wrapped' = LostToWrap
  /\ Goto(f, "open")
  /\ UNCHANGED <<device, saved_steps, saved_ids, high, tmp, file, dumps, seen, labels, image, todo, slot>>

(* np.savez into a temporary, then os.replace: the file changes at once.   *)
Cut == [steps |-> <<>>, ids |-> <<>>, ctr |-> Unset, lost |-> Unset]     \* a file not closed
Snapshot(f) == [steps |-> saved_steps, ids |-> saved_ids, ctr |-> seen[f], lost |-> wrapped]

OpenInPlace(f) ==                    \* fault: the file itself is opened
  /\ pc[f] = "open"
  /\ tmp' = Cut /\ file' = Cut
  /\ Goto(f, "save")
  /\ UNCHANGED <<device, saved_steps, saved_ids, high, wrapped, dumps, seen, labels, image, todo, slot>>

OpenTmp(f) ==
  /\ pc[f] = "open"
  /\ tmp' = Cut
  /\ Goto(f, "save")
  /\ UNCHANGED <<device, saved_steps, saved_ids, high, wrapped, file, dumps, seen, labels, image, todo, slot>>

SaveTmp(f) ==
  /\ pc[f] = "save"
  /\ tmp' = Snapshot(f)
  /\ Goto(f, "replace")
  /\ UNCHANGED <<device, saved_steps, saved_ids, high, wrapped, file, dumps, seen, labels, image, todo, slot>>

(* The flush returns, or an exception ends it, and it forgets its copies.  *)
Return(f) ==
  /\ Goto(f, "idle")
  /\ labels' = [labels EXCEPT ![f] = [s \in Slots |-> Unset]]
  /\ image' = [image EXCEPT ![f] = [l \in Routers |-> [s \in Slots |-> Unset]]]
  /\ slot' = [slot EXCEPT ![f] = 0]
  /\ UNCHANGED <<device, saved_steps, saved_ids, high, wrapped, dumps, seen, todo>>

Replace(f) == pc[f] = "replace" /\ file' = tmp /\ UNCHANGED tmp /\ Return(f)

(* No directory, a full disk: _dumper prints it and sleeps on.             *)
FailWrite(f) == pc[f] \in {"open", "save", "replace"} /\ UNCHANGED <<tmp, file>> /\ Return(f)

(* The worker dies: the flushers, daemon threads, with it.                 *)
Crash ==
  /\ \E f \in Flushers : pc[f] # "dead"
  /\ pc' = [f \in Flushers |-> "dead"] /\ stage' = Unset
  /\ UNCHANGED <<ctr, label, ring, host, dumps, seen, labels, image, todo, slot>>

Flush(f) ==
  \/ ReadCtr(f) \/ CopyLabel(f) \/ CopyRing(f) \/ Visit(f) \/ AppendStep(f)
  \/ AppendIds(f) \/ SetHigh(f) \/ CountLost(f)
  \/ OpenTmp(f) \/ SaveTmp(f) \/ Replace(f) \/ FailWrite(f)

----------------------------------------------------------------------------
Init ==
  /\ ctr = 0 /\ stage = 0
  /\ label = [s \in Slots |-> Unset]
  /\ ring = [l \in Routers |-> [s \in Slots |-> Unset]]
  /\ saved_steps = <<>> /\ saved_ids = <<>> /\ high = -1 /\ wrapped = 0
  /\ file = [steps |-> <<>>, ids |-> <<>>, ctr |-> 0, lost |-> 0] /\ tmp = Cut
  /\ dumps = 0
  /\ pc = [f \in Flushers |-> "idle"] /\ seen = [f \in Flushers |-> 0]
  /\ labels = [f \in Flushers |-> label] /\ image = [f \in Flushers |-> ring]
  /\ todo = [f \in Flushers |-> {}] /\ slot = [f \in Flushers |-> 0]

(* Nothing more within the bounds.                                         *)
Stopped ==
  /\ stage = Unset \/ (stage = 0 /\ ctr = MaxSteps)
  /\ \A f \in Flushers : pc[f] = "dead" \/ (pc[f] = "idle" /\ dumps = MaxDumps)
  /\ UNCHANGED vars

Graph == BeginStep \/ LabelSlot \/ StoreLayer

Next == Graph \/ (\E f \in Flushers : Flush(f)) \/ Crash \/ Stopped

Spec == Init /\ [][Next]_vars

----------------------------------------------------------------------------
(* Properties.                                                             *)

(* "a slot is complete once the step AFTER it has started; the newest slot *)
(* may be mid-write": no saved row mixes in a layer the step had not       *)
(* stored yet when the ring was copied.                                    *)
NothingHalfWritten ==
  \A i \in 1 .. Len(saved_ids) : \A l \in Routers : saved_ids[i][l] >= saved_steps[i]

(* The trace names every step at most once, in order, through any number   *)
(* of overlapping flushes of one thread and laps of the ring.              *)
StepsIncrease ==
  \A i, j \in 1 .. Len(saved_steps) : i < j => saved_steps[i] < saved_steps[j]

(* "append every newly-completed slot to the host trace": when a flush has *)
(* gone through the ring, a step completed before it is in the trace,      *)
(* unless the ring had taken its slot for a later one.                     *)
FlushTakesAll ==
  \A f \in Flushers : pc[f] = "open" =>
    \A v \in 1 .. seen[f] - 1 :
      \/ \E i \in 1 .. Len(saved_steps) : saved_steps[i] = v
      \/ label[SlotOf(v)] > v

(* What a worker leaves behind, whenever it stops and whichever writes     *)
(* failed before: the beginning of its trace as some flush had it, steps   *)
(* and ids alike, with the steps that are missing counted, and whole       *)
(* (lost_to_wrap counts from 0, the steps from 1).                         *)
SnapshotOnDisk ==
  LET n == Len(file.steps) IN
  /\ file.ctr # Unset /\ Len(file.ids) = n /\ n <= Len(saved_ids)
  /\ \A i \in 1 .. n : file.steps[i] = saved_steps[i] /\ file.ids[i] = saved_ids[i]
  /\ \A i \in 1 .. n : file.steps[i] < file.ctr
  /\ n > 0 => file.lost = file.steps[n] + 1 - n

(* "steps lost to wrap": as many as the numbers of the saved steps leave   *)
(* out.                                                                    *)
LostIsExact ==
  file.steps # <<>> => file.lost = file.steps[Len(file.steps)] - Len(file.steps)

(* What a reader of the trace takes for granted: the ids saved under a     *)
(* step are that step's ids.                                               *)
SavedIdsAreTheSteps ==
  \A i \in 1 .. Len(saved_ids) : \A l \in Routers : saved_ids[i][l] = saved_steps[i]
=============================================================================
