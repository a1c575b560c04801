---------------------------- MODULE PartsProofs -----------------------------
(***************************************************************************)
(* Proofs about five parts that stand beside the cache: the routing        *)
(* capture, for any ring, any number of layers and steps, with the dumper  *)
(* alone; the memos of the decode graph, for any number of graphs,         *)
(* addresses, forwards and moves of a source; the hot sets the cache       *)
(* starts from, for any number of experts and layers, any routings, any    *)
(* budget and any order of the file; the cut of a capture into             *)
(* generations, for any number and widths of steps; and the prefetch       *)
(* study, for any capture, profile, cache and budgets.                     *)
(***************************************************************************)
EXTENDS RouteCap, DecodeMemos, HotSets, TraceLoad, Prefetch, RankingProofs,
        SequenceTheorems, TLAPS

-----------------------------------------------------------------------------
(***************************************************************************)
(* Routing capture.  The trace the dumper builds beside the running graph  *)
(* is in order, complete and free of half-written steps, and what is on    *)
(* disk is a beginning of it, wherever writes fail or the worker dies.     *)
(*                                                                         *)
(* The argument: nothing orders the copies with the graph, but what they   *)
(* compare only grows.  A label once below the counter that was read is of *)
(* a step whose ids are all stored, and what is stored there later is      *)
(* later still (Stored, Complete); so the ids that are copied after it are *)
(* at least as late.  A flush visits the labels upwards, so that all that  *)
(* is below the mark was taken, or had made room (Below, InFront).         *)
(***************************************************************************)
(* Only one thread flushes. *)
Alone == \A f, g \in Flushers : f = g

Taking == {"append_step", "append_ids", "set_high"}
Writing == {"open", "save", "replace"}
Places == {"idle", "labels", "ring", "visit", "dead"} \cup Taking \cup Writing

----------------------------------------------------------------------------
(* The device.                                                             *)

DeviceOK ==
  /\ ctr \in Nat /\ stage \in Int /\ (stage > 0 => ctr > 0)
  /\ label \in [Slots -> Int] /\ ring \in [Routers -> [Slots -> Int]]
  /\ \A s \in Slots : label[s] = Unset \/ (label[s] \in 1 .. ctr /\ SlotOf(label[s]) = s)
  /\ \A l \in Routers, s \in Slots : Unset <= ring[l][s] /\ ring[l][s] <= ctr

(* A labelled step has all its ids in place, unless it is the running one. *)
Stored ==
  \A l \in Routers, s \in Slots :
    \/ ring[l][s] >= label[s]
    \/ label[s] = ctr /\ stage # 0 /\ (stage > 1 => l >= stage - 1)

(* Every step begun has a slot that is labelled with it or a later one. *)
Labelled ==
  \A v \in 1 .. ctr :
    label[SlotOf(v)] >= v \/ (v = ctr /\ stage # 0 /\ stage <= 1)

DeviceInv == DeviceOK /\ Stored /\ Labelled

----------------------------------------------------------------------------
(* A flush.                                                                *)

FlushOK ==
  /\ saved_steps \in Seq(Int) /\ saved_ids \in Seq([Routers -> Int])
  /\ high \in Int /\ wrapped \in Int
  /\ pc \in [Flushers -> Places] /\ seen \in [Flushers -> Nat]
  /\ labels \in [Flushers -> [Slots -> Int]]
  /\ image \in [Flushers -> [Routers -> [Slots -> Int]]]
  /\ slot \in [Flushers -> Slots]
  /\ DOMAIN todo = Flushers
  /\ \A f \in Flushers :
       /\ pc[f] \in {"labels", "visit"} \cup Taking => todo[f] \subseteq Slots
       /\ pc[f] = "ring" => todo[f] \subseteq Routers \X Slots

(* What was read of the labels is not ahead of them, and covers all steps  *)
(* up to the counter that was read before.                                 *)
Read(f) ==
  /\ seen[f] <= ctr
  /\ \A s \in Slots :
       /\ labels[f][s] <= label[s]
       /\ labels[f][s] = Unset \/ (labels[f][s] > 0 /\ SlotOf(labels[f][s]) = s)
  /\ pc[f] = "idle" => \A s \in Slots : labels[f][s] = Unset
  /\ pc[f] \in {"labels", "ring", "visit"} \cup Taking =>
       \A v \in 1 .. seen[f] - 1 :
         \/ pc[f] = "labels" /\ SlotOf(v) \in todo[f]
         \/ labels[f][SlotOf(v)] >= v

(* A label below the counter names a step whose ids were all stored, and   *)
(* the copy of the ring is no older.                                       *)
Complete(f) ==
  \A l \in Routers, s \in Slots : labels[f][s] < seen[f] =>
    /\ ring[l][s] >= labels[f][s]
    /\ pc[f] = "ring" => <<l, s>> \in todo[f] \/ image[f][l][s] >= labels[f][s]
    /\ pc[f] \in {"visit"} \cup Taking => image[f][l][s] >= labels[f][s]

(* The slot that is being taken: it comes before those still to visit, and *)
(* after those that were saved.                                            *)
Taken(f) ==
  pc[f] \in Taking =>
    LET v == labels[f][slot[f]] IN
    /\ 0 < v /\ v < seen[f] /\ v > high /\ slot[f] \notin todo[f]
    /\ \A q \in todo[f] : v <= labels[f][q]
    /\ pc[f] \in {"append_ids", "set_high"} =>
         Len(saved_steps) > 0 /\ saved_steps[Len(saved_steps)] = v

(* The trace: as many ids as steps between two appends, numbers that rise, *)
(* none above the mark but the one being taken.                            *)
Ordered(f) ==
  /\ pc[f] \notin {"append_ids", "dead"} => Len(saved_ids) = Len(saved_steps)
  /\ pc[f] = "append_ids" => Len(saved_ids) + 1 = Len(saved_steps)
  /\ pc[f] # "dead" =>
       \A i \in 1 .. Len(saved_steps) :
         /\ saved_steps[i] <= high \/ (pc[f] \in {"append_ids", "set_high"} /\ i = Len(saved_steps))
         /\ saved_steps[i] < ctr
         /\ pc[f] # "idle" => saved_steps[i] < seen[f]

Rising ==
  \A i \in 1 .. Len(saved_steps) : saved_steps[i] >= i

(* Every step up to the mark was saved or had made room, and while slots   *)
(* are visited every other complete one is still ahead.                    *)
Saved(v) == \E i \in 1 .. Len(saved_steps) : saved_steps[i] = v
Gone(v) == Saved(v) \/ label[SlotOf(v)] > v

Below(f) == pc[f] # "dead" => high < ctr /\ \A v \in 1 .. high : Gone(v)

InFront(f) ==
  /\ pc[f] \in {"visit"} \cup Taking => \A v \in 1 .. seen[f] - 1 :
       \/ Gone(v)
       \/ labels[f][SlotOf(v)] = v /\ v > high /\ SlotOf(v) \in todo[f]
       \/ pc[f] \in Taking /\ v = labels[f][slot[f]]
  /\ pc[f] \in Writing => \A v \in 1 .. seen[f] - 1 : Gone(v)

FlushInv(f) == Read(f) /\ Complete(f) /\ Taken(f) /\ Ordered(f) /\ Below(f) /\ InFront(f)

HostInv ==
  /\ FlushOK /\ Rising /\ NothingHalfWritten /\ StepsIncrease
  /\ \A f \in Flushers : FlushInv(f)

(* The file is what some flush had, and the one being written what this    *)
(* flush has.                                                              *)
DiskInv ==
  /\ file.steps \in Seq(Int) /\ file.ids \in Seq([Routers -> Int]) /\ SnapshotOnDisk
  /\ \A f \in Flushers :
       /\ pc[f] = "replace" => tmp = Snapshot(f)
       /\ pc[f] \in Writing /\ saved_steps # <<>> =>
            wrapped = saved_steps[Len(saved_steps)] + 1 - Len(saved_steps)

IInv == DeviceInv /\ HostInv /\ DiskInv

----------------------------------------------------------------------------
(* The device's steps.                                                     *)

LEMMA SlotOfIsSlot == ASSUME NEW v \in Int PROVE SlotOf(v) \in Slots
BY RouteCapAssumption DEF SlotOf, Slots

(* What the graph writes never gets smaller. *)
Grows ==
  /\ ctr <= ctr'
  /\ \A s \in Slots : label[s] <= label'[s]
  /\ \A l \in Routers, s \in Slots : ring[l][s] <= ring'[l][s]

LEMMA GraphKeeps == ASSUME DeviceInv, Graph PROVE DeviceInv' /\ Grows
<1> USE DEF DeviceInv, DeviceOK
<1>1. CASE BeginStep
  <2>1. DeviceOK'  BY <1>1 DEF BeginStep, Unset
  <2>2. Stored'  BY <1>1 DEF BeginStep, Stored
  <2>3. Labelled'
    <3> SUFFICES ASSUME NEW v \in 1 .. ctr + 1
                 PROVE  label[SlotOf(v)] >= v \/ v = ctr + 1
      BY <1>1 DEF BeginStep, Labelled
    <3> QED  BY <1>1 DEF BeginStep, Labelled
  <2>4. Grows  BY <1>1 DEF BeginStep, Grows
  <2> QED  BY <2>1, <2>2, <2>3, <2>4
<1>2. CASE LabelSlot
  <2>0. ctr \in Int /\ SlotOf(ctr) \in Slots  BY SlotOfIsSlot
  <2>1. label' = [label EXCEPT ![SlotOf(ctr)] = ctr] /\ stage = 1 /\ stage' = 2 /\ UNCHANGED <<ctr, ring>>
    BY <1>2 DEF LabelSlot
  <2>2. \A s \in Slots : label'[s] = IF s = SlotOf(ctr) THEN ctr ELSE label[s]
    BY <2>1
  <2>3. \A s \in Slots : label[s] <= ctr  BY DEF Unset
  <2>4. Grows  BY <2>1, <2>2, <2>3 DEF Grows
  <2>5. DeviceOK'
    <3>1. label' \in [Slots -> Int]  BY <2>1, <2>0
    <3>2. \A s \in Slots : label'[s] = Unset \/ (label'[s] \in 1 .. ctr /\ SlotOf(label'[s]) = s)
      BY <2>0, <2>1, <2>2
    <3> QED  BY <3>1, <3>2, <2>1
  <2>6. Stored'  BY <2>1, <2>2 DEF Stored, Routers
  <2>7. Labelled'
    <3> SUFFICES ASSUME NEW v \in 1 .. ctr PROVE label'[SlotOf(v)] >= v
      BY <2>1 DEF Labelled
    <3>1. SlotOf(v) \in Slots  BY SlotOfIsSlot
    <3>2. CASE v = ctr  BY <3>1, <3>2, <2>2
    <3>3. CASE v # ctr
      <4>1. label[SlotOf(v)] >= v  BY <3>3 DEF Labelled
      <4> QED  BY <4>1, <3>1, <2>2
    <3> QED  BY <3>2, <3>3
  <2> QED  BY <2>4, <2>5, <2>6, <2>7
<1>3. CASE StoreLayer
  <2> DEFINE l0 == stage - 1
  <2>1. ring' = [ring EXCEPT ![l0][SlotOf(ctr)] = ctr] /\ stage > 1 /\ UNCHANGED <<ctr, label>>
        /\ stage' = IF l0 = NLayers THEN 0 ELSE stage + 1
    BY <1>3 DEF StoreLayer
  <2>2. \A l \in Routers, s \in Slots :
          ring'[l][s] = IF l = l0 /\ s = SlotOf(ctr) THEN ctr ELSE ring[l][s]
    BY <2>1
  <2>3. Grows  BY <2>1, <2>2 DEF Grows
  <2>4. DeviceOK'
    <3>1. ring' \in [Routers -> [Slots -> Int]]
      <4>1. ring' = [l \in Routers |-> IF l = l0 THEN [ring[l] EXCEPT ![SlotOf(ctr)] = ctr]
                                      ELSE ring[l]]
        BY <2>1
      <4>2. \A l \in Routers : [ring[l] EXCEPT ![SlotOf(ctr)] = ctr] \in [Slots -> Int]
        <5> SUFFICES ASSUME NEW l \in Routers
                     PROVE  [ring[l] EXCEPT ![SlotOf(ctr)] = ctr] \in [Slots -> Int]
          OBVIOUS
        <5>1. ring[l] \in [Slots -> Int] /\ ctr \in Int  OBVIOUS
        <5> HIDE DEF DeviceInv, DeviceOK
        <5> QED  BY <5>1
      <4> QED  BY <4>1, <4>2
    <3>2. stage' \in Int  BY <2>1
    <3>3. \A l \in Routers, s \in Slots : Unset <= ring'[l][s] /\ ring'[l][s] <= ctr
      BY <2>2 DEF Unset
    <3> QED  BY <3>1, <3>2, <3>3, <2>1
  <2>5. Stored'
    <3> SUFFICES ASSUME NEW l \in Routers, NEW s \in Slots
                 PROVE \/ ring'[l][s] >= label[s]
                       \/ label[s] = ctr /\ stage' # 0 /\ (stage' > 1 => l >= stage' - 1)
      BY <2>1 DEF Stored
    <3>1. CASE ring[l][s] >= label[s]  BY <3>1, <2>2 DEF Unset
    <3>2. CASE ~ (ring[l][s] >= label[s])
      <4>1. label[s] = ctr /\ l >= l0  BY <3>2, <2>1 DEF Stored
      <4>2. ctr # Unset /\ s = SlotOf(ctr)  BY <4>1 DEF Unset
      <4>3. CASE l = l0  BY <4>3, <4>1, <4>2, <2>2
      <4>4. CASE l # l0
        <5>1. l > l0 /\ l <= NLayers /\ l \in Int /\ l0 \in Int /\ NLayers \in Int
          BY <4>1, <4>4, RouteCapAssumption DEF Routers
        <5>2. stage' = stage + 1  BY <5>1, <2>1
        <5> QED  BY <5>1, <5>2, <4>1, <2>1
      <4> QED  BY <4>3, <4>4
    <3> QED  BY <3>1, <3>2
  <2>6. Labelled'  BY <2>1 DEF Labelled
  <2> QED  BY <2>3, <2>4, <2>5, <2>6
<1> QED  BY <1>1, <1>2, <1>3 DEF Graph

(* A flush, in the middle of whatever it does, bears the graph's steps. *)
LEMMA HostBearsGraph ==
  ASSUME DeviceInv, HostInv, Graph PROVE HostInv'
<1>1. DeviceInv' /\ Grows  BY GraphKeeps
<1>2. UNCHANGED <<host, dumps, local>>
  BY DEF Graph, BeginStep, LabelSlot, StoreLayer
<1> USE <1>2 DEF host, local
<1>3. FlushOK' /\ Rising' /\ NothingHalfWritten' /\ StepsIncrease'
  BY DEF HostInv, FlushOK, Rising, NothingHalfWritten, StepsIncrease
<1>4. \A s \in Slots : label[s] \in Int /\ label'[s] \in Int /\ label[s] <= label'[s]
  BY <1>1 DEF DeviceInv, DeviceOK, Grows
<1>5. \A l \in Routers, s \in Slots :
        ring[l][s] \in Int /\ ring'[l][s] \in Int /\ ring[l][s] <= ring'[l][s]
  BY <1>1 DEF DeviceInv, DeviceOK, Grows
<1>6. ctr \in Int /\ ctr' \in Int /\ ctr <= ctr'
  BY <1>1 DEF DeviceInv, DeviceOK, Grows
<1>7. ASSUME NEW v \in Int, Gone(v) PROVE Gone(v)'
  BY <1>7, <1>4, SlotOfIsSlot DEF Gone, Saved
<1>8. ASSUME NEW f \in Flushers
      PROVE  FlushInv(f)'
  <2>1. FlushOK /\ Read(f) /\ Complete(f) /\ Taken(f) /\ Ordered(f) /\ Below(f) /\ InFront(f)
    BY DEF HostInv, FlushInv
  <2>2. /\ seen[f] \in Int /\ high \in Int /\ slot[f] \in Slots
        /\ \A s \in Slots : labels[f][s] \in Int
        /\ \A i \in 1 .. Len(saved_steps) : saved_steps[i] \in Int
    BY <2>1 DEF FlushOK
  <2>3. Read(f)'  BY <2>1, <2>2, <1>4, <1>6 DEF Read
  <2>4. Complete(f)'  BY <2>1, <2>2, <1>5 DEF Complete
  <2>5. Taken(f)'  BY <2>1 DEF Taken
  <2>6. Ordered(f)'  BY <2>1, <2>2, <1>6 DEF Ordered
  <2>7. Below(f)'  BY <2>1, <2>2, <1>6, <1>7 DEF Below
  <2>8. InFront(f)'  BY <2>1, <2>2, <1>7 DEF InFront
  <2> QED  BY <2>3, <2>4, <2>5, <2>6, <2>7, <2>8 DEF FlushInv
<1> QED  BY <1>3, <1>8 DEF HostInv

----------------------------------------------------------------------------
(* The flush's steps.  Alone, f is the only one there is.                  *)

LEMMA ReadCtrKeeps ==
  ASSUME Alone, DeviceInv, HostInv, NEW f \in Flushers, ReadCtr(f) PROVE HostInv'
<1> USE DEF ReadCtr, Goto, device, host
<1>1. Flushers = {f} /\ FlushOK /\ FlushInv(f)  BY DEF Alone, HostInv
<1>2. FlushOK' /\ Rising' /\ NothingHalfWritten' /\ StepsIncrease'
  <2>1. FlushOK'  BY <1>1 DEF FlushOK, DeviceInv, DeviceOK, Places, Taking
  <2> QED  BY <2>1 DEF HostInv, Rising, NothingHalfWritten, StepsIncrease
<1>3. pc[f] = "idle" /\ pc'[f] = "labels" /\ seen'[f] = ctr /\ todo'[f] = Slots
  BY <1>1 DEF FlushOK
<1>4. Read(f)'
  BY <1>1, <1>3, SlotOfIsSlot DEF FlushInv, Read, Taking, DeviceInv, DeviceOK
<1>5. Complete(f)'
  BY <1>1, <1>3 DEF FlushInv, Read, Complete, Taking, DeviceInv, DeviceOK
<1>6. Taken(f)' /\ InFront(f)'  BY <1>3 DEF Taken, InFront, Taking, Writing
<1>7. Ordered(f)'  BY <1>1, <1>3 DEF FlushInv, Ordered
<1>8. Below(f)'  BY <1>1, <1>3 DEF FlushInv, Below, Gone, Saved
<1> QED  BY <1>1, <1>2, <1>4, <1>5, <1>6, <1>7, <1>8 DEF HostInv, FlushInv

LEMMA CopyLabelKeeps ==
  ASSUME Alone, DeviceInv, HostInv, NEW f \in Flushers, CopyLabel(f) PROVE HostInv'
<1> USE DEF CopyLabel, Goto, device, host
<1>1. Flushers = {f} /\ FlushOK /\ FlushInv(f)  BY DEF Alone, HostInv
<1>2. PICK s \in todo[f] :
        /\ labels' = [labels EXCEPT ![f][s] = label[s]]
        /\ IF todo[f] = {s}
             THEN todo' = [todo EXCEPT ![f] = Routers \X Slots] /\ Goto(f, "ring")
             ELSE todo' = [todo EXCEPT ![f] = @ \ {s}] /\ UNCHANGED pc
  OBVIOUS
<1>3. s \in Slots /\ pc[f] = "labels" /\ label[s] \in Int
      /\ UNCHANGED <<device, host, seen, image, slot>>
  BY <1>1 DEF FlushOK, DeviceInv, DeviceOK
<1>4. /\ pc'[f] \in {"labels", "ring"}
      /\ pc'[f] = "labels" => todo'[f] = todo[f] \ {s}
      /\ pc'[f] = "ring" => todo'[f] = Routers \X Slots /\ todo[f] = {s}
      /\ \A q \in Slots : labels'[f][q] = IF q = s THEN label[s] ELSE labels[f][q]
  BY <1>1, <1>2, <1>3 DEF FlushOK
<1>5. FlushOK' /\ Rising' /\ NothingHalfWritten' /\ StepsIncrease'
  <2>1. labels'[f] = [labels[f] EXCEPT ![s] = label[s]] /\ labels[f] \in [Slots -> Int]
    BY <1>1, <1>2 DEF FlushOK
  <2>2. labels'[f] \in [Slots -> Int]  BY <2>1, <1>3
  <2>3. labels' \in [Flushers -> [Slots -> Int]]  BY <1>1, <1>2, <2>2 DEF FlushOK
  <2>4. FlushOK'  BY <1>1, <1>2, <1>3, <1>4, <2>3 DEF FlushOK, Places, Taking
  <2> QED  BY <2>4, <1>3 DEF HostInv, Rising, NothingHalfWritten, StepsIncrease
<1>6. Read(f)'
  <2>1. \A q \in Slots :
          /\ labels'[f][q] <= label[q]
          /\ labels'[f][q] = Unset \/ (labels'[f][q] > 0 /\ SlotOf(labels'[f][q]) = q)
    BY <1>1, <1>3, <1>4 DEF FlushInv, Read, DeviceInv, DeviceOK
  <2>2. ASSUME NEW v \in 1 .. seen[f] - 1
        PROVE (pc'[f] = "labels" /\ SlotOf(v) \in todo'[f]) \/ labels'[f][SlotOf(v)] >= v
    <3>0. seen[f] \in Nat /\ seen[f] <= ctr /\ ctr \in Nat
      BY <1>1 DEF FlushInv, Read, FlushOK, DeviceInv, DeviceOK
    <3>1. SlotOf(v) \in Slots /\ v \in 1 .. ctr /\ v # ctr
      BY <3>0, SlotOfIsSlot
    <3>2. label[SlotOf(v)] >= v  BY <3>1 DEF DeviceInv, Labelled
    <3>3. SlotOf(v) \in todo[f] \/ labels[f][SlotOf(v)] >= v
      BY <1>1, <1>3 DEF FlushInv, Read
    <3> QED  BY <3>1, <3>2, <3>3, <1>4
  <2> QED  BY <1>1, <1>3, <1>4, <2>1, <2>2 DEF FlushInv, Read
<1>7. Complete(f)'
  <2> SUFFICES ASSUME NEW l \in Routers, NEW q \in Slots, labels'[f][q] < seen[f]
               PROVE  ring[l][q] >= labels'[f][q]
    BY <1>3, <1>4 DEF Complete, Taking
  <2>1. CASE q = s
    <3>1. label[s] < ctr  BY <2>1, <1>1, <1>3, <1>4 DEF FlushInv, Read, FlushOK, DeviceInv, DeviceOK
    <3> QED  BY <2>1, <3>1, <1>3, <1>4 DEF DeviceInv, DeviceOK, Stored
  <2>2. CASE q # s  BY <2>2, <1>1, <1>4 DEF FlushInv, Complete
  <2> QED  BY <2>1, <2>2
<1>8. Taken(f)' /\ InFront(f)'  BY <1>4 DEF Taken, InFront, Taking, Writing
<1>9. Ordered(f)'  BY <1>1, <1>3, <1>4 DEF FlushInv, Ordered
<1>10. Below(f)'  BY <1>1, <1>3, <1>4 DEF FlushInv, Below, Gone, Saved
<1> QED  BY <1>1, <1>5, <1>6, <1>7, <1>8, <1>9, <1>10 DEF HostInv, FlushInv

LEMMA CopyRingKeeps ==
  ASSUME Alone, DeviceInv, HostInv, NEW f \in Flushers, CopyRing(f) PROVE HostInv'
<1> USE DEF CopyRing, Goto, device, host
<1>1. Flushers = {f} /\ FlushOK /\ FlushInv(f)  BY DEF Alone, HostInv
<1>2. PICK x \in todo[f] :
        /\ image' = [image EXCEPT ![f][x[1]][x[2]] = ring[x[1]][x[2]]]
        /\ IF todo[f] = {x}
             THEN todo' = [todo EXCEPT ![f] = Slots] /\ Goto(f, "visit")
             ELSE todo' = [todo EXCEPT ![f] = @ \ {x}] /\ UNCHANGED pc
  OBVIOUS
<1>3. pc[f] = "ring" /\ UNCHANGED <<device, host, seen, labels, slot>>
      /\ x \in Routers \X Slots /\ todo[f] \subseteq Routers \X Slots
  BY <1>1 DEF FlushOK
<1>4. /\ pc'[f] \in {"ring", "visit"}
      /\ pc'[f] = "ring" => todo'[f] = todo[f] \ {x}
      /\ pc'[f] = "visit" => todo'[f] = Slots /\ todo[f] = {x}
  BY <1>1, <1>2, <1>3 DEF FlushOK
<1>5. PICK lx \in Routers, sx \in Slots : x = <<lx, sx>>  BY <1>3
<1>6. ring[lx][sx] \in Int  BY <1>5 DEF DeviceInv, DeviceOK
<1>7. image'[f] = [image[f] EXCEPT ![lx][sx] = ring[lx][sx]]
      /\ image[f] \in [Routers -> [Slots -> Int]]
  BY <1>1, <1>2, <1>5 DEF FlushOK
<1>8. \A l \in Routers, q \in Slots :
        image'[f][l][q] = IF l = lx /\ q = sx THEN ring[lx][sx] ELSE image[f][l][q]
  BY <1>7
<1>9. FlushOK' /\ Rising' /\ NothingHalfWritten' /\ StepsIncrease'
  <2>1. image'[f] = [l \in Routers |-> IF l = lx THEN [image[f][l] EXCEPT ![sx] = ring[lx][sx]]
                                      ELSE image[f][l]]
    BY <1>7
  <2>2. [image[f][lx] EXCEPT ![sx] = ring[lx][sx]] \in [Slots -> Int]
    <3>1. image[f][lx] \in [Slots -> Int]  BY <1>7
    <3> QED  BY <3>1, <1>6
  <2>3. image'[f] \in [Routers -> [Slots -> Int]]  BY <2>1, <2>2, <1>7
  <2>4. image' \in [Flushers -> [Routers -> [Slots -> Int]]]  BY <1>1, <1>2, <2>3 DEF FlushOK
  <2>5. FlushOK'  BY <1>1, <1>2, <1>3, <1>4, <2>4 DEF FlushOK, Places, Taking
  <2> QED  BY <2>5, <1>3 DEF HostInv, Rising, NothingHalfWritten, StepsIncrease
<1>10. Read(f)'  BY <1>1, <1>3, <1>4 DEF FlushInv, Read, Taking
<1>11. Complete(f)'
  <2> SUFFICES ASSUME NEW l \in Routers, NEW q \in Slots, labels[f][q] < seen[f]
               PROVE  /\ ring[l][q] >= labels[f][q]
                      /\ pc'[f] = "ring" => <<l, q>> \in todo'[f] \/ image'[f][l][q] >= labels[f][q]
                      /\ pc'[f] = "visit" => image'[f][l][q] >= labels[f][q]
    BY <1>3, <1>4 DEF Complete, Taking
  <2>1. ring[l][q] >= labels[f][q]
        /\ (<<l, q>> \in todo[f] \/ image[f][l][q] >= labels[f][q])
    BY <1>1, <1>3 DEF FlushInv, Complete
  <2>2. CASE <<l, q>> = x
    <3>1. l = lx /\ q = sx  BY <2>2, <1>5
    <3> QED  BY <3>1, <2>1, <1>8
  <2>3. CASE <<l, q>> # x
    <3>1. image'[f][l][q] = image[f][l][q]  BY <2>3, <1>5, <1>8
    <3> QED  BY <2>3, <3>1, <2>1, <1>4
  <2> QED  BY <2>2, <2>3
<1>12. Taken(f)'  BY <1>4 DEF Taken, Taking
<1>13. InFront(f)'
  <2> SUFFICES ASSUME pc'[f] = "visit", NEW v \in 1 .. seen[f] - 1
               PROVE  Gone(v) \/ (labels[f][SlotOf(v)] = v /\ v > high /\ SlotOf(v) \in todo'[f])
    BY <1>3, <1>4 DEF InFront, Gone, Saved, Taking, Writing
  <2>1. SlotOf(v) \in Slots /\ v \in Int /\ high \in Int
    BY <1>1, SlotOfIsSlot DEF FlushOK
  <2>2. labels[f][SlotOf(v)] >= v /\ labels[f][SlotOf(v)] <= label[SlotOf(v)]
        /\ labels[f][SlotOf(v)] \in Int /\ label[SlotOf(v)] \in Int
    BY <1>1, <1>3, <2>1 DEF FlushInv, Read, FlushOK, DeviceInv, DeviceOK
  <2>3. v <= high => Gone(v)  BY <1>1, <1>3, <2>1 DEF FlushInv, Below
  <2> QED  BY <1>4, <2>1, <2>2, <2>3 DEF Gone
<1>14. Ordered(f)'  BY <1>1, <1>3, <1>4 DEF FlushInv, Ordered
<1>15. Below(f)'  BY <1>1, <1>3, <1>4 DEF FlushInv, Below, Gone, Saved
<1> QED  BY <1>1, <1>9, <1>10, <1>11, <1>12, <1>13, <1>14, <1>15 DEF HostInv, FlushInv

LEMMA VisitKeeps ==
  ASSUME Alone, DeviceInv, HostInv, NEW f \in Flushers, Visit(f) PROVE HostInv'
<1> USE DEF Visit, Goto, device, host
<1>1. Flushers = {f} /\ FlushOK /\ FlushInv(f)  BY DEF Alone, HostInv
<1>2. PICK s \in Earliest(f) :
        /\ slot' = [slot EXCEPT ![f] = s]
        /\ todo' = [todo EXCEPT ![f] = @ \ {s}]
        /\ Goto(f, IF Skipped(f, labels[f][s]) THEN "visit" ELSE "append_step")
  OBVIOUS
<1>3. pc[f] = "visit" /\ UNCHANGED <<device, host, seen, labels, image>>
  OBVIOUS
<1>4. s \in todo[f] /\ s \in Slots /\ todo[f] \subseteq Slots
      /\ \A q \in todo[f] : labels[f][s] <= labels[f][q]
  BY <1>1, <1>2, <1>3 DEF Earliest, FlushOK
<1>5. slot'[f] = s /\ todo'[f] = todo[f] \ {s}
      /\ pc'[f] = IF Skipped(f, labels[f][s]) THEN "visit" ELSE "append_step"
  BY <1>1, <1>2 DEF FlushOK
<1>6. FlushOK' /\ Rising' /\ NothingHalfWritten' /\ StepsIncrease'
  <2>1. FlushOK'  BY <1>1, <1>2, <1>3, <1>4, <1>5 DEF FlushOK, Places, Taking
  <2> QED  BY <2>1, <1>3 DEF HostInv, Rising, NothingHalfWritten, StepsIncrease
<1>7. labels[f][s] \in Int /\ seen[f] \in Int /\ high \in Int /\ \A q \in Slots : labels[f][q] \in Int
  BY <1>1, <1>4 DEF FlushOK
<1>8. Read(f)'  BY <1>1, <1>3, <1>5 DEF FlushInv, Read, Taking
<1>9. Complete(f)'  BY <1>1, <1>3, <1>5 DEF FlushInv, Complete, Taking
<1>10. Taken(f)'
  <2>1. labels[f][s] = Unset \/ labels[f][s] > 0  BY <1>1, <1>4 DEF FlushInv, Read
  <2>2. ~ Skipped(f, labels[f][s]) => labels[f][s] > 0 /\ labels[f][s] < seen[f] /\ labels[f][s] > high
    BY <2>1, <1>7 DEF Skipped, Unset
  <2> QED  BY <2>2, <1>3, <1>4, <1>5 DEF Taken, Taking
<1>11. InFront(f)'
  <2> SUFFICES ASSUME NEW v \in 1 .. seen[f] - 1
               PROVE  \/ Gone(v)
                      \/ labels[f][SlotOf(v)] = v /\ v > high /\ SlotOf(v) \in todo'[f]
                      \/ pc'[f] = "append_step" /\ v = labels[f][s]
    BY <1>3, <1>5 DEF InFront, Gone, Saved, Taking, Writing
  <2>1. Gone(v) \/ (labels[f][SlotOf(v)] = v /\ v > high /\ SlotOf(v) \in todo[f])
    BY <1>1, <1>3 DEF FlushInv, InFront, Taking
  <2>2. labels[f][s] = v /\ v > high => ~ Skipped(f, labels[f][s])
    BY <1>7 DEF Skipped
  <2> QED  BY <2>1, <2>2, <1>5
<1>12. Ordered(f)'  BY <1>1, <1>3, <1>5 DEF FlushInv, Ordered
<1>13. Below(f)'  BY <1>1, <1>3, <1>5 DEF FlushInv, Below, Gone, Saved
<1> QED  BY <1>1, <1>6, <1>8, <1>9, <1>10, <1>11, <1>12, <1>13 DEF HostInv, FlushInv

LEMMA AppendStepKeeps ==
  ASSUME Alone, DeviceInv, HostInv, NEW f \in Flushers, AppendStep(f) PROVE HostInv'
<1> USE DEF AppendStep, Goto, device
<1> DEFINE v == labels[f][slot[f]]
           n == Len(saved_steps)
<1>1. Flushers = {f} /\ FlushOK /\ FlushInv(f)  BY DEF Alone, HostInv
<1>2. /\ pc[f] = "append_step" /\ pc'[f] = "append_ids"
      /\ saved_steps' = Append(saved_steps, v)
      /\ UNCHANGED <<device, saved_ids, high, wrapped, seen, labels, image, todo, slot>>
  BY <1>1 DEF FlushOK
<1>3. /\ v \in Int /\ n \in Nat /\ saved_steps \in Seq(Int)
      /\ Len(saved_steps') = n + 1 /\ saved_steps'[n + 1] = v
      /\ \A i \in 1 .. n : saved_steps'[i] = saved_steps[i] /\ saved_steps[i] \in Int
  BY <1>1, <1>2 DEF FlushOK
<1>4. /\ 0 < v /\ v < seen[f] /\ v > high /\ v < ctr
      /\ high \in Int /\ seen[f] \in Int /\ ctr \in Int
  BY <1>1, <1>2 DEF FlushInv, Taken, Taking, Read, FlushOK, DeviceInv, DeviceOK
<1>5. \A i \in 1 .. n : saved_steps[i] <= high /\ saved_steps[i] < ctr /\ saved_steps[i] < seen[f]
  BY <1>1, <1>2 DEF FlushInv, Ordered
<1>6. Len(saved_ids) = n  BY <1>1, <1>2 DEF FlushInv, Ordered
<1>7. ASSUME NEW w, Gone(w) PROVE Gone(w)'
  BY <1>7, <1>2, <1>3 DEF Gone, Saved
<1>8. FlushOK'
  <2>1. saved_steps' \in Seq(Int)  BY <1>2, <1>3
  <2> QED  BY <1>1, <1>2, <2>1 DEF FlushOK, Places, Taking
<1>9. Rising'
  <2>1. v >= n + 1
    <3>1. CASE n = 0  BY <3>1, <1>3, <1>4
    <3>2. CASE n > 0
      <4>1. n \in 1 .. n /\ saved_steps[n] >= n  BY <3>2, <1>3 DEF HostInv, Rising
      <4> QED  BY <4>1, <1>3, <1>4, <1>5
    <3> QED  BY <3>1, <3>2, <1>3
  <2>2. \A i \in 1 .. n : saved_steps[i] >= i  BY DEF HostInv, Rising
  <2> QED  BY <2>1, <2>2, <1>3 DEF Rising
<1>10. NothingHalfWritten'  BY <1>2, <1>3, <1>6 DEF HostInv, NothingHalfWritten
<1>11. StepsIncrease'
  <2> SUFFICES ASSUME NEW i \in 1 .. n + 1, NEW j \in 1 .. n + 1, i < j
               PROVE  saved_steps'[i] < saved_steps'[j]
    BY <1>3 DEF StepsIncrease
  <2>1. i \in 1 .. n  BY <1>3
  <2>2. CASE j = n + 1
    <3>1. saved_steps'[i] <= high /\ saved_steps'[i] \in Int  BY <2>1, <1>3, <1>5
    <3>2. saved_steps'[j] = v  BY <2>2, <1>3
    <3> HIDE DEF v
    <3> QED  BY <3>1, <3>2, <1>3, <1>4
  <2>3. CASE j # n + 1
    <3>0. n \in Int  BY <1>3
    <3>1. j \in 1 .. n
      <4> HIDE DEF n
      <4> QED  BY <2>3, <3>0
    <3>2. saved_steps[i] < saved_steps[j]  BY <2>1, <3>1 DEF HostInv, StepsIncrease
    <3> QED  BY <2>1, <3>1, <3>2, <1>3
  <2> QED  BY <2>2, <2>3
<1>12. Read(f)'  BY <1>1, <1>2 DEF FlushInv, Read, Taking
<1>13. Complete(f)'  BY <1>1, <1>2 DEF FlushInv, Complete, Taking
<1>14. Taken(f)'  BY <1>1, <1>2, <1>3 DEF FlushInv, Taken, Taking
<1>15. Ordered(f)'
  <2> SUFFICES ASSUME NEW i \in 1 .. n + 1
               PROVE  /\ saved_steps'[i] <= high \/ i = n + 1
                      /\ saved_steps'[i] < ctr /\ saved_steps'[i] < seen[f]
    BY <1>2, <1>3, <1>6 DEF Ordered
  <2>1. CASE i = n + 1  BY <2>1, <1>3, <1>4
  <2>2. CASE i # n + 1
    <3>1. i \in 1 .. n  BY <2>2, <1>3
    <3> QED  BY <3>1, <1>3, <1>5
  <2> QED  BY <2>1, <2>2
<1>16. Below(f)'  BY <1>1, <1>2, <1>7 DEF FlushInv, Below
<1>17. InFront(f)'  BY <1>1, <1>2, <1>7 DEF FlushInv, InFront, Taking, Writing
<1> QED  BY <1>1, <1>8, <1>9, <1>10, <1>11, <1>12, <1>13, <1>14, <1>15, <1>16, <1>17 DEF HostInv, FlushInv

LEMMA AppendIdsKeeps ==
  ASSUME Alone, DeviceInv, HostInv, NEW f \in Flushers, AppendIds(f) PROVE HostInv'
<1> USE DEF AppendIds, Goto, device
<1> DEFINE row == [l \in Routers |-> image[f][l][slot[f]]]
           n == Len(saved_ids)
<1>1. Flushers = {f} /\ FlushOK /\ FlushInv(f)  BY DEF Alone, HostInv
<1>2. /\ pc[f] = "append_ids" /\ pc'[f] = "set_high" /\ saved_ids' = Append(saved_ids, row)
      /\ UNCHANGED <<device, saved_steps, high, wrapped, seen, labels, image, todo, slot>>
  BY <1>1 DEF FlushOK
<1>3. row \in [Routers -> Int] /\ slot[f] \in Slots
  BY <1>1 DEF FlushOK
<1> HIDE DEF row
<1>4. /\ saved_ids' \in Seq([Routers -> Int]) /\ n \in Nat /\ Len(saved_ids') = n + 1
      /\ saved_ids'[n + 1] = row /\ \A i \in 1 .. n : saved_ids'[i] = saved_ids[i]
  BY <1>1, <1>2, <1>3 DEF FlushOK
<1>5. Len(saved_steps) = n + 1  BY <1>1, <1>2 DEF FlushInv, Ordered
<1>6. FlushOK' /\ Rising' /\ StepsIncrease'
  <2>1. FlushOK'  BY <1>1, <1>2, <1>4 DEF FlushOK, Places, Taking
  <2> QED  BY <2>1, <1>2 DEF HostInv, Rising, StepsIncrease
<1>7. NothingHalfWritten'
  <2> SUFFICES ASSUME NEW i \in 1 .. n + 1, NEW l \in Routers
               PROVE  saved_ids'[i][l] >= saved_steps[i]
    BY <1>2, <1>4 DEF NothingHalfWritten
  <2>1. CASE i = n + 1
    <3>1. saved_steps[n + 1] = labels[f][slot[f]] /\ labels[f][slot[f]] < seen[f]
      BY <1>1, <1>2, <1>5 DEF FlushInv, Taken, Taking
    <3>2. image[f][l][slot[f]] >= labels[f][slot[f]]
      BY <1>1, <1>2, <1>3, <3>1 DEF FlushInv, Complete, Taking
    <3> QED  BY <2>1, <1>4, <3>1, <3>2 DEF row
  <2>2. CASE i # n + 1
    <3>1. i \in 1 .. n  BY <2>2, <1>4
    <3> QED  BY <3>1, <1>4 DEF HostInv, NothingHalfWritten
  <2> QED  BY <2>1, <2>2
<1>8. Read(f)'  BY <1>1, <1>2 DEF FlushInv, Read, Taking
<1>9. Complete(f)'  BY <1>1, <1>2 DEF FlushInv, Complete, Taking
<1>10. Taken(f)'  BY <1>1, <1>2 DEF FlushInv, Taken, Taking
<1>11. Ordered(f)'  BY <1>1, <1>2, <1>4, <1>5 DEF FlushInv, Ordered
<1>12. Below(f)'  BY <1>1, <1>2 DEF FlushInv, Below, Gone, Saved
<1>13. InFront(f)'  BY <1>1, <1>2 DEF FlushInv, InFront, Gone, Saved, Taking, Writing
<1> QED  BY <1>1, <1>6, <1>7, <1>8, <1>9, <1>10, <1>11, <1>12, <1>13 DEF HostInv, FlushInv

LEMMA SetHighKeeps ==
  ASSUME Alone, DeviceInv, HostInv, NEW f \in Flushers, SetHigh(f) PROVE HostInv'
<1> USE DEF SetHigh, Goto, device
<1> DEFINE v == labels[f][slot[f]]
           n == Len(saved_steps)
<1>1. Flushers = {f} /\ FlushOK /\ FlushInv(f)  BY DEF Alone, HostInv
<1>2. /\ pc[f] = "set_high" /\ pc'[f] = "visit" /\ high' = v
      /\ UNCHANGED <<device, saved_steps, saved_ids, wrapped, seen, labels, image, todo, slot>>
  BY <1>1 DEF FlushOK
<1>3. /\ v \in Int /\ high \in Int /\ seen[f] \in Int /\ ctr \in Int /\ n \in Nat
      /\ seen[f] <= ctr /\ \A i \in 1 .. n : saved_steps[i] \in Int
  BY <1>1 DEF FlushOK, FlushInv, Read, DeviceInv, DeviceOK
<1>4. /\ 0 < v /\ v < seen[f] /\ v > high /\ slot[f] \notin todo[f]
      /\ (\A q \in todo[f] : v <= labels[f][q]) /\ n > 0 /\ saved_steps[n] = v
  BY <1>1, <1>2 DEF FlushInv, Taken, Taking
<1> HIDE DEF v
<1>5. Saved(v)  BY <1>3, <1>4 DEF Saved
<1>6. FlushOK' /\ Rising' /\ StepsIncrease' /\ NothingHalfWritten'
  <2>1. FlushOK'  BY <1>1, <1>2, <1>3 DEF FlushOK, Places, Taking
  <2> QED  BY <2>1, <1>2 DEF HostInv, Rising, StepsIncrease, NothingHalfWritten
<1>7. Read(f)'  BY <1>1, <1>2 DEF FlushInv, Read, Taking
<1>8. Complete(f)'  BY <1>1, <1>2 DEF FlushInv, Complete, Taking
<1>9. Taken(f)'  BY <1>2 DEF Taken, Taking
<1>10. Ordered(f)'
  <2>1. ASSUME NEW i \in 1 .. n PROVE saved_steps[i] <= v
    <3>1. n \in 1 .. n  BY <1>3, <1>4
    <3>2. CASE i = n  BY <3>2, <1>3, <1>4
    <3>3. CASE i # n
      <4>1. saved_steps[i] < saved_steps[n]  BY <3>1, <3>3, <1>3 DEF HostInv, StepsIncrease
      <4> QED  BY <4>1, <1>3, <1>4, <3>1
    <3> QED  BY <3>2, <3>3
  <2> QED  BY <2>1, <1>1, <1>2 DEF FlushInv, Ordered
<1>11. ASSUME NEW w \in 1 .. seen[f] - 1
       PROVE Gone(w) \/ (labels[f][SlotOf(w)] = w /\ w > v /\ SlotOf(w) \in todo[f])
  <2>1. \/ Gone(w)
        \/ labels[f][SlotOf(w)] = w /\ w > high /\ SlotOf(w) \in todo[f]
        \/ w = v
    BY <1>1, <1>2 DEF FlushInv, InFront, Taking, v
  <2>2. w = v => Gone(w)  BY <1>5 DEF Gone
  <2> QED  BY <2>1, <2>2, <1>3, <1>4
<1>12. Below(f)'
  <2> SUFFICES ASSUME NEW w \in 1 .. v PROVE Gone(w)
    BY <1>2, <1>3, <1>4 DEF Below, Gone, Saved
  <2>1. w \in 1 .. seen[f] - 1 /\ ~ (w > v)  BY <1>3, <1>4
  <2> QED  BY <2>1, <1>11
<1>13. InFront(f)'  BY <1>2, <1>11 DEF InFront, Gone, Saved, Taking, Writing
<1> QED  BY <1>1, <1>6, <1>7, <1>8, <1>9, <1>10, <1>12, <1>13 DEF HostInv, FlushInv

(* Counting and writing move nothing that a flush compares. *)
LEMMA WritingKeeps ==
  ASSUME Alone, DeviceInv, HostInv, NEW f \in Flushers,
         \/ pc[f] = "visit" /\ todo[f] = {}
         \/ pc[f] \in Writing,
         NEW p \in Writing, pc' = [pc EXCEPT ![f] = p], wrapped' \in Int,
         UNCHANGED <<device, saved_steps, saved_ids, high, seen, labels, image, todo, slot>>
  PROVE  HostInv'
<1> USE DEF device
<1>1. Flushers = {f} /\ FlushOK /\ FlushInv(f)  BY DEF Alone, HostInv
<1>2. pc'[f] = p  BY <1>1 DEF FlushOK
<1>3. FlushOK' /\ Rising' /\ StepsIncrease' /\ NothingHalfWritten'
  <2>1. FlushOK'  BY <1>1, <1>2 DEF FlushOK, Places, Taking, Writing
  <2> QED  BY <2>1 DEF HostInv, Rising, StepsIncrease, NothingHalfWritten
<1>4. Read(f)'  BY <1>1, <1>2 DEF FlushInv, Read, Taking, Writing
<1>5. Complete(f)'  BY <1>1, <1>2 DEF FlushInv, Complete, Taking, Writing
<1>6. Taken(f)'  BY <1>2 DEF Taken, Taking, Writing
<1>7. Ordered(f)'  BY <1>1, <1>2 DEF FlushInv, Ordered, Writing
<1>8. Below(f)'  BY <1>1, <1>2 DEF FlushInv, Below, Gone, Saved, Writing
<1>9. InFront(f)'  BY <1>1, <1>2 DEF FlushInv, InFront, Gone, Saved, Taking, Writing
<1> QED  BY <1>1, <1>3, <1>4, <1>5, <1>6, <1>7, <1>8, <1>9 DEF HostInv, FlushInv

(* The count of the lost is a number. *)
LEMMA LostIsInt == ASSUME FlushOK PROVE LostToWrap \in Int
BY DEF LostToWrap, FlushOK

LEMMA ReturnKeeps ==
  ASSUME Alone, DeviceInv, HostInv, NEW f \in Flushers, pc[f] \in Writing, Return(f)
  PROVE  HostInv'
<1> USE DEF Return, Goto, device
<1>1. Flushers = {f} /\ FlushOK /\ FlushInv(f)  BY DEF Alone, HostInv
<1>2. /\ pc'[f] = "idle" /\ slot'[f] = 0
      /\ \A s \in Slots : labels'[f][s] = Unset
      /\ labels' \in [Flushers -> [Slots -> Int]]
      /\ image' \in [Flushers -> [Routers -> [Slots -> Int]]]
      /\ slot' \in [Flushers -> Slots]
  BY <1>1, RouteCapAssumption DEF FlushOK, Unset, Slots
<1>3. FlushOK' /\ Rising' /\ StepsIncrease' /\ NothingHalfWritten'
  <2>1. FlushOK'  BY <1>1, <1>2 DEF FlushOK, Places, Taking
  <2> QED  BY <2>1 DEF HostInv, Rising, StepsIncrease, NothingHalfWritten
<1>4. Read(f)'
  <2>1. seen'[f] <= ctr'
    BY <1>1 DEF FlushInv, Read
  <2>2. \A s \in Slots : labels'[f][s] = Unset /\ labels'[f][s] <= label'[s]
    BY <1>2 DEF DeviceInv, DeviceOK, Unset
  <2>3. pc'[f] \notin {"labels", "ring", "visit"} \cup Taking
    BY <1>2 DEF Taking
  <2> QED BY <2>1, <2>2, <2>3 DEF Read
<1>5. Complete(f)'  BY <1>1, <1>2 DEF Complete, Taking, DeviceInv, DeviceOK
<1>6. Taken(f)' /\ InFront(f)'  BY <1>2 DEF Taken, InFront, Taking, Writing
<1>7. Ordered(f)'  BY <1>1, <1>2 DEF FlushInv, Ordered, Writing
<1>8. Below(f)'  BY <1>1, <1>2 DEF FlushInv, Below, Gone, Saved, Writing
<1> QED  BY <1>1, <1>3, <1>4, <1>5, <1>6, <1>7, <1>8 DEF HostInv, FlushInv

LEMMA FlushKeeps ==
  ASSUME Alone, DeviceInv, HostInv, NEW f \in Flushers, Flush(f) PROVE DeviceInv' /\ HostInv'
<1>1. DeviceInv'
  <2>1. UNCHANGED device
    BY DEF Flush, ReadCtr, CopyLabel, CopyRing, Visit, AppendStep, AppendIds, SetHigh, CountLost,
           OpenTmp, SaveTmp, Replace, FailWrite, Return
  <2> QED  BY <2>1 DEF device, DeviceInv, DeviceOK, Stored, Labelled
<1>2. CASE CountLost(f)
  <2>1. wrapped' \in Int  BY <1>2, LostIsInt DEF CountLost, HostInv
  <2>2. /\ pc[f] = "visit" /\ todo[f] = {} /\ pc' = [pc EXCEPT ![f] = "open"]
        /\ UNCHANGED <<device, saved_steps, saved_ids, high, seen, labels, image, todo, slot>>
    BY <1>2 DEF CountLost, Goto
  <2>3. "open" \in Writing  BY DEF Writing
  <2> QED  BY <1>1, <2>1, <2>2, <2>3, WritingKeeps
<1>3. CASE OpenTmp(f) \/ SaveTmp(f)
  <2>1. wrapped' \in Int  BY <1>3 DEF OpenTmp, SaveTmp, HostInv, FlushOK
  <2>2. UNCHANGED <<device, saved_steps, saved_ids, high, seen, labels, image, todo, slot>>
    BY <1>3 DEF OpenTmp, SaveTmp
  <2>3. PICK p \in Writing : pc' = [pc EXCEPT ![f] = p]
    BY <1>3 DEF OpenTmp, SaveTmp, Goto, Writing
  <2>4. pc[f] \in Writing  BY <1>3 DEF OpenTmp, SaveTmp, Writing
  <2> QED  BY <1>1, <2>1, <2>2, <2>3, <2>4, WritingKeeps
<1>4. CASE Replace(f) \/ FailWrite(f)
  <2>1. pc[f] \in Writing /\ Return(f)  BY <1>4 DEF Replace, FailWrite, Writing
  <2> QED  BY <1>1, <2>1, ReturnKeeps
<1> QED  BY <1>1, <1>2, <1>3, <1>4, ReadCtrKeeps, CopyLabelKeeps, CopyRingKeeps, VisitKeeps,
            AppendStepKeeps, AppendIdsKeeps, SetHighKeeps DEF Flush

(* Nothing goes on after a crash. *)
LEMMA CrashKeeps ==
  ASSUME Alone, DeviceInv, HostInv, Crash PROVE DeviceInv' /\ HostInv'
<1> USE DEF Crash, host
<1>1. DeviceInv'
  <2>1. DeviceOK'  BY DEF DeviceInv, DeviceOK, Unset
  <2>2. Stored'  BY DEF DeviceInv, Stored, Unset
  <2>3. Labelled'  BY DEF DeviceInv, Labelled, Unset
  <2> QED  BY <2>1, <2>2, <2>3 DEF DeviceInv
<1>2. FlushOK' /\ Rising' /\ StepsIncrease' /\ NothingHalfWritten'
  <2>1. FlushOK'  BY DEF HostInv, FlushOK, Places, Taking
  <2> QED  BY <2>1 DEF HostInv, Rising, StepsIncrease, NothingHalfWritten
<1>3. ASSUME NEW f \in Flushers PROVE FlushInv(f)'
  <2>1. FlushInv(f) /\ pc'[f] = "dead"  BY DEF HostInv
  <2>2. Read(f)'  BY <2>1 DEF FlushInv, Read, Taking
  <2>3. Complete(f)'  BY <2>1 DEF FlushInv, Complete, Taking
  <2>4. Taken(f)' /\ Ordered(f)' /\ Below(f)' /\ InFront(f)'
    BY <2>1 DEF Taken, Ordered, Below, InFront, Taking, Writing
  <2> QED  BY <2>2, <2>3, <2>4 DEF FlushInv
<1> QED  BY <1>1, <1>2, <1>3 DEF HostInv

----------------------------------------------------------------------------
(* The disk.                                                               *)

(* What a flush appends comes after what is in the file. *)
LEMMA FileStays ==
  ASSUME HostInv, DiskInv, UNCHANGED file,
         \A i \in 1 .. Len(file.steps) :
           saved_steps'[i] = saved_steps[i] /\ saved_ids'[i] = saved_ids[i],
         Len(saved_ids') \in Nat, Len(saved_ids) <= Len(saved_ids')
  PROVE  (file.steps \in Seq(Int) /\ file.ids \in Seq([Routers -> Int]) /\ SnapshotOnDisk)'
<1> DEFINE n == Len(file.steps)
<1>1. Len(saved_ids) \in Nat /\ n \in Nat /\ file' = file
  BY DEF HostInv, FlushOK, DiskInv
<1>2. n <= Len(saved_ids')
  BY <1>1 DEF DiskInv, SnapshotOnDisk
<1>3. \A i \in 1 .. n : file.steps[i] = saved_steps'[i] /\ file.ids[i] = saved_ids'[i]
  BY DEF DiskInv, SnapshotOnDisk
<1> QED BY <1>1, <1>2, <1>3 DEF DiskInv, SnapshotOnDisk

LEMMA DiskKeeps ==
  ASSUME Alone, IInv, NEW f \in Flushers, Flush(f) PROVE DiskInv'
<1>1. Flushers = {f} /\ FlushOK /\ FlushInv(f) /\ HostInv /\ DiskInv
  BY DEF Alone, IInv, HostInv
<1> DEFINE n == Len(file.steps)
<1>2. /\ n \in Nat /\ n <= Len(saved_ids) /\ Len(saved_ids) \in Nat
      /\ Len(saved_steps) \in Nat /\ pc \in [Flushers -> Places]
  BY <1>1 DEF DiskInv, SnapshotOnDisk, FlushOK
<1>3. CASE UNCHANGED <<saved_steps, saved_ids, tmp, file>> /\ pc'[f] \notin Writing
  <2>1. pc'[f] # "replace"  BY <1>3 DEF Writing
  <2> QED  BY <1>1, <1>2, <1>3, <2>1, FileStays DEF DiskInv
<1>4. ASSUME NEW p, pc' = [pc EXCEPT ![f] = p], p \notin Writing PROVE pc'[f] \notin Writing
  BY <1>2, <1>4
<1>5. CASE ReadCtr(f) \/ CopyLabel(f) \/ CopyRing(f) \/ Visit(f) \/ SetHigh(f) \/ FailWrite(f)
  <2>1. pc'[f] \notin Writing
    BY <1>2, <1>5 DEF ReadCtr, CopyLabel, CopyRing, Visit, SetHigh, FailWrite, Return, Goto, Writing
  <2>2. UNCHANGED <<saved_steps, saved_ids, tmp, file>>
    BY <1>5 DEF ReadCtr, CopyLabel, CopyRing, Visit, SetHigh, FailWrite, Return, host
  <2> QED  BY <1>3, <2>1, <2>2
<1>6. CASE AppendStep(f)
  <2>1. pc'[f] = "append_ids" /\ UNCHANGED <<saved_ids, file, tmp>> /\ pc[f] = "append_step"
        /\ saved_steps' = Append(saved_steps, labels[f][slot[f]])
    BY <1>2, <1>6 DEF AppendStep, Goto
  <2>2. Len(saved_ids) = Len(saved_steps)  BY <1>1, <2>1 DEF FlushInv, Ordered
  <2>3. labels[f][slot[f]] \in Int /\ saved_steps \in Seq(Int)  BY <1>1 DEF FlushOK
  <2>4. \A i \in 1 .. n : saved_steps'[i] = saved_steps[i]  BY <1>2, <2>1, <2>2, <2>3
  <2>5. pc'[f] # "replace" /\ pc'[f] \notin Writing  BY <2>1 DEF Writing
  <2>6. (file.steps \in Seq(Int) /\ file.ids \in Seq([Routers -> Int]) /\ SnapshotOnDisk)'
    <3>1. UNCHANGED <<saved_ids, file>>  BY <2>1
    <3>2. \A i \in 1 .. n : saved_steps'[i] = saved_steps[i] /\ saved_ids'[i] = saved_ids[i]
      BY <2>4, <3>1
    <3>3. Len(saved_ids') \in Nat /\ Len(saved_ids) <= Len(saved_ids')  BY <1>2, <3>1
    <3> QED  BY <1>1, <3>1, <3>2, <3>3, FileStays
  <2> QED  BY <1>1, <2>5, <2>6 DEF DiskInv
<1>7. CASE AppendIds(f)
  <2> DEFINE row == [l \in Routers |-> image[f][l][slot[f]]]
  <2>1. pc'[f] = "set_high" /\ UNCHANGED <<saved_steps, file, tmp>>
        /\ saved_ids' = Append(saved_ids, row)
    BY <1>2, <1>7 DEF AppendIds, Goto
  <2>2. row \in [Routers -> Int] /\ saved_ids \in Seq([Routers -> Int])  BY <1>1 DEF FlushOK
  <2> HIDE DEF row
  <2>3. Len(saved_ids') = Len(saved_ids) + 1 /\ \A i \in 1 .. n : saved_ids'[i] = saved_ids[i]
    BY <1>2, <2>1, <2>2
  <2>4. pc'[f] # "replace" /\ pc'[f] \notin Writing  BY <2>1 DEF Writing
  <2> QED  BY <1>1, <1>2, <2>1, <2>3, <2>4, FileStays DEF DiskInv
<1>8. CASE CountLost(f)
  <2>1. pc'[f] = "open" /\ UNCHANGED <<saved_steps, saved_ids, file, tmp>> /\ wrapped' = LostToWrap
    BY <1>2, <1>8 DEF CountLost, Goto
  <2>2. ASSUME saved_steps # <<>>
        PROVE  wrapped' = saved_steps[Len(saved_steps)] + 1 - Len(saved_steps)
    <3>1. Len(saved_steps) \in 1 .. Len(saved_steps) /\ saved_steps[Len(saved_steps)] \in Int
      BY <2>2, <1>1 DEF FlushOK
    <3>2. saved_steps[Len(saved_steps)] >= Len(saved_steps)  BY <1>1, <3>1 DEF HostInv, Rising
    <3> QED  BY <1>2, <2>1, <2>2, <3>1, <3>2 DEF LostToWrap
  <2> QED  BY <1>1, <1>2, <2>1, <2>2, FileStays DEF DiskInv
<1>9. CASE OpenTmp(f) \/ SaveTmp(f)
  <2>1. pc[f] \in {"open", "save"} /\ UNCHANGED <<saved_steps, saved_ids, seen, wrapped, file>>
    BY <1>9 DEF OpenTmp, SaveTmp
  <2>2. pc'[f] = "replace" => tmp' = Snapshot(f)'
    BY <1>2, <1>9 DEF OpenTmp, SaveTmp, Goto, Snapshot
  <2> QED  BY <1>1, <1>2, <2>1, <2>2, FileStays DEF DiskInv, Writing
<1>10. CASE Replace(f)
  <2>1. /\ pc[f] = "replace" /\ pc'[f] = "idle" /\ file' = Snapshot(f)
        /\ UNCHANGED <<saved_steps, saved_ids>>
    BY <1>1, <1>2, <1>10 DEF Replace, Return, Goto, DiskInv
  <2>2. Len(saved_ids) = Len(saved_steps) /\ \A i \in 1 .. Len(saved_steps) : saved_steps[i] < seen[f]
    BY <1>1, <2>1 DEF FlushInv, Ordered
  <2>3. /\ file'.steps = saved_steps /\ file'.ids = saved_ids
        /\ file'.ctr = seen[f] /\ file'.lost = wrapped
    BY <2>1 DEF Snapshot
  <2>4. saved_steps # <<>> => wrapped = saved_steps[Len(saved_steps)] + 1 - Len(saved_steps)
    BY <1>1, <2>1 DEF DiskInv, Writing
  <2>5. saved_steps \in Seq(Int) /\ saved_ids \in Seq([Routers -> Int]) /\ seen[f] # Unset
    BY <1>1 DEF FlushOK, Unset
  <2>6. SnapshotOnDisk'
    BY <1>2, <2>1, <2>2, <2>3, <2>4, <2>5 DEF SnapshotOnDisk
  <2> QED  BY <1>1, <2>1, <2>3, <2>5, <2>6 DEF DiskInv, Writing
<1> QED  BY <1>5, <1>6, <1>7, <1>8, <1>9, <1>10 DEF Flush

----------------------------------------------------------------------------
(* The invariant, and what follows from it.                                *)

LEMMA IInvInit == Init => IInv
<1> SUFFICES ASSUME Init PROVE IInv
  OBVIOUS
<1> USE DEF Init
<1>1. DeviceInv
  BY RouteCapAssumption DEF DeviceInv, DeviceOK, Stored, Labelled, Unset, Routers
<1>2. FlushOK
  BY RouteCapAssumption DEF FlushOK, Places, Taking, Slots, Routers, Unset
<1>3. Rising /\ NothingHalfWritten /\ StepsIncrease
  BY DEF Rising, NothingHalfWritten, StepsIncrease
<1>4. ASSUME NEW f \in Flushers PROVE FlushInv(f)
  BY <1>4 DEF FlushInv, Read, Complete, Taken, Ordered, Below, InFront, Unset, Taking, Writing
<1>5. DiskInv
  BY DEF DiskInv, SnapshotOnDisk, Unset, Writing
<1> QED  BY <1>1, <1>2, <1>3, <1>4, <1>5 DEF IInv, HostInv

LEMMA IInvStep == ASSUME Alone PROVE IInv /\ [Next]_vars => IInv'
<1> SUFFICES ASSUME IInv, [Next]_vars PROVE IInv'
  OBVIOUS
<1>1. DeviceInv /\ HostInv /\ DiskInv  BY DEF IInv
<1>2. CASE Graph
  <2>1. UNCHANGED <<host, local>>  BY <1>2 DEF Graph, BeginStep, LabelSlot, StoreLayer
  <2>2. Len(saved_ids) \in Nat  BY <1>1 DEF HostInv, FlushOK
  <2>3. DiskInv'
    BY <1>1, <2>1, <2>2, FileStays DEF DiskInv, host, local, Snapshot
  <2> QED  BY <1>1, <1>2, <2>3, GraphKeeps, HostBearsGraph DEF IInv
<1>3. ASSUME NEW f \in Flushers, Flush(f) PROVE IInv'
  BY <1>1, <1>3, FlushKeeps, DiskKeeps DEF IInv
<1>4. CASE Crash
  <2>1. UNCHANGED host /\ pc' = [f \in Flushers |-> "dead"]  BY <1>4 DEF Crash
  <2>2. Len(saved_ids) \in Nat  BY <1>1 DEF HostInv, FlushOK
  <2>3. DiskInv'  BY <1>1, <2>1, <2>2, FileStays DEF DiskInv, host, Writing
  <2> QED  BY <1>1, <1>4, <2>3, CrashKeeps DEF IInv
<1>5. CASE UNCHANGED vars
  <2> USE <1>5 DEF vars, device, host, local
  <2>1. DeviceInv'  BY <1>1 DEF DeviceInv, DeviceOK, Stored, Labelled
  <2>2. HostInv'
    BY <1>1 DEF HostInv, FlushOK, Rising, NothingHalfWritten, StepsIncrease, FlushInv,
                Read, Complete, Taken, Ordered, Below, InFront, Gone, Saved
  <2>3. DiskInv'  BY <1>1 DEF DiskInv, SnapshotOnDisk, Snapshot
  <2> QED  BY <2>1, <2>2, <2>3 DEF IInv
<1> QED  BY <1>2, <1>3, <1>4, <1>5 DEF Next, Stopped

LEMMA IInvHolds == ASSUME Alone PROVE Spec => []IInv
<1>1. Init => IInv  BY IInvInit
<1>2. IInv /\ [Next]_vars => IInv'  BY IInvStep
<1> QED  BY <1>1, <1>2, PTL DEF Spec

(* "a slot is complete once the step AFTER it has started; the newest slot *)
(* may be mid-write": with one caller of flush, no saved row has a layer   *)
(* that its step had not stored, for any ring and any number of layers.    *)
THEOREM NoRowIsHalfWritten == ASSUME Alone PROVE Spec => []NothingHalfWritten
<1>1. IInv => NothingHalfWritten  BY DEF IInv, HostInv
<1> QED  BY <1>1, IInvHolds, PTL

(* The trace names every step at most once and in order, however often the *)
(* ring comes round between the copies.                                    *)
THEOREM StepsComeInOrder == ASSUME Alone PROVE Spec => []StepsIncrease
<1>1. IInv => StepsIncrease  BY DEF IInv, HostInv
<1> QED  BY <1>1, IInvHolds, PTL

(* "append every newly-completed slot": when a flush has gone through the  *)
(* ring, every step that was complete before it is in the trace, or the    *)
(* ring has taken its slot for a later one.                                *)
THEOREM FlushIsComplete == ASSUME Alone PROVE Spec => []FlushTakesAll
<1>1. IInv => FlushTakesAll
  BY DEF IInv, HostInv, FlushInv, InFront, Gone, Saved, Writing, FlushTakesAll
<1> QED  BY <1>1, IInvHolds, PTL

(* Whichever writes fail and whenever the worker dies, what is on disk is  *)
(* a whole beginning of the trace with its own counts.                     *)
THEOREM DiskIsASnapshot == ASSUME Alone PROVE Spec => []SnapshotOnDisk
<1>1. IInv => SnapshotOnDisk  BY DEF IInv, DiskInv
<1> QED  BY <1>1, IInvHolds, PTL

-----------------------------------------------------------------------------
(***************************************************************************)
(* The memos of the decode graph keep private pools private and baked      *)
(* tensors current, and the shared quantisation is that of the tensor      *)
(* asked about.                                                            *)
(*                                                                         *)
(* The argument for the memos: what a graph baked from eager memory is     *)
(* still in the memo under the key of a source that no longer moves, so    *)
(* that every later lookup hits it and none replaces it.  For the slot:    *)
(* its strong reference keeps the address from being given out again, so   *)
(* that an object with the slot's address is the one it was filled for     *)
(* (SlotIsOf); and it is full only between a first call and the next, so   *)
(* that a write, which comes after a pair of calls, finds it empty         *)
(* (Between).                                                              *)
(***************************************************************************)
MemosOK ==
  /\ ctx \in Homes /\ captured \subseteq Graphs /\ made \in Nat
  /\ source \in [Sites -> Nat]
  /\ memo \in [Sites -> Tensors \cup {NoTensor}]
  /\ baked \in [Graphs -> SUBSET Tensors]

(* Only graphs that were captured, or are being captured, read anything.   *)
Reading == \A g \in Graphs : baked[g] # {} => g \in captured \/ g = ctx

MemoKept == \A s \in Sites : memo[s] # NoTensor => memo[s].home = Eager /\ memo[s].site = s

Private == \A g \in Graphs : \A x \in baked[g] : x.home \in {Eager, g}

MemosInv == MemosOK /\ Reading /\ MemoKept /\ Private /\ BakedStayLive

----------------------------------------------------------------------------
SlotOK ==
  /\ ctx \in Homes /\ made \in Nat
  /\ acts \subseteq Acts
  /\ a8_slot \in Slotted \cup {NoTensor} /\ given \in Handed \cup {NoTensor}

(* Live objects have addresses and numbers of their own.                   *)
Distinct ==
  /\ \A x, y \in acts : x.addr = y.addr \/ x.n = y.n => x = y
  /\ \A x \in acts : x.n < made
  /\ given # NoTensor => given.n < made

SlotIsOf ==
  a8_slot # NoTensor => \A x \in acts : x.addr = a8_slot.addr =>
    a8_slot.q = [n |-> x.n, ver |-> x.ver, home |-> ctx]

(* The slot is full for x just after a call with x, the first of a pair or *)
(* one that follows another tensor's.                                      *)
Between ==
  \A x \in acts :
    /\ Serves(x) => x.calls # 0 /\ given # NoTensor /\ given.n = x.n
    /\ x.calls = 1 /\ given # NoTensor /\ given.n = x.n => Serves(x)
    /\ x.calls = 1 => given # NoTensor

Handout == QuantIsOfX /\ (given # NoTensor => given.q.home = given.home)

SlotInv == SlotOK /\ Distinct /\ SlotIsOf /\ Between /\ Handout

----------------------------------------------------------------------------
(* The memos.                                                              *)

LEMMA LookupKeeps == ASSUME MemosInv, NEW s \in Sites, Lookup(s) PROVE MemosInv'
<1> DEFINE x == IF Hit(s) THEN memo[s] ELSE Fresh(s)
<1> USE DEF Lookup, MemosInv
<1>1. /\ memo' = [memo EXCEPT ![s] = IF Hit(s) THEN @ ELSE Keep(s, x)]
      /\ baked' = IF ctx = Eager THEN baked ELSE [baked EXCEPT ![ctx] = @ \cup {x}]
      /\ made' = (IF Hit(s) THEN made ELSE made + 1) /\ UNCHANGED <<ctx, captured, source>>
  OBVIOUS
<1>2. Fresh(s) \in Tensors /\ Fresh(s).home = ctx /\ Fresh(s).site = s /\ Fresh(s).key = source[s]
  BY DEF MemosOK, Fresh, Tensors
<1>3. x \in Tensors /\ x.site = s /\ x.key = source[s] /\ x # NoTensor
  BY <1>2, MemoAssumption DEF MemosOK, Hit, MemoKept
<1>4. memo' = [memo EXCEPT ![s] = IF ctx = Eager THEN x ELSE memo[s]]
  BY <1>1 DEF Keep, MemosOK
<1>5. x.home \in {Eager, ctx}  BY <1>2 DEF MemoKept, Hit
<1>6. ctx # Eager => ctx \in Graphs  BY DEF MemosOK, Homes
<1> HIDE DEF x
<1>7. MemosOK'
  BY <1>1, <1>3, <1>4, <1>6 DEF MemosOK
<1>8. Reading'  BY <1>1, <1>6 DEF Reading, MemosOK
<1>9. MemoKept'  BY <1>3, <1>4, <1>5, <1>1 DEF MemoKept, MemosOK
<1>10. ASSUME NEW g \in Graphs, NEW y \in baked'[g]
       PROVE  y \in baked[g] \/ (y = x /\ g = ctx)
  <2>1. baked'[g] = baked[g] \/ (g = ctx /\ baked'[g] = baked[g] \cup {x})
    BY <1>1, <1>6, MemoAssumption DEF MemosOK
  <2> QED  BY <1>10, <2>1
<1>11. Private'  BY <1>5, <1>10 DEF Private
<1>12. BakedStayLive'
  <2> SUFFICES ASSUME NEW g \in Graphs, NEW y \in baked'[g]
               PROVE  (y.home = Eager => memo'[y.site] = y) /\ y.key = source[y.site]
    BY <1>1 DEF BakedStayLive
  <2>1. CASE y \in baked[g]
    <3>1. y \in Tensors /\ y # NoTensor /\ y.site \in Sites
      BY <2>1, MemoAssumption DEF MemosOK, Tensors
    <3>2. (y.home = Eager => memo[y.site] = y) /\ y.key = source[y.site]
      BY <2>1 DEF BakedStayLive
    <3>3. ASSUME y.home = Eager, y.site = s PROVE x = y
      BY <3>1, <3>2, <3>3 DEF Hit, x
    <3> QED  BY <3>1, <3>2, <3>3, <1>4 DEF MemosOK
  <2>2. CASE y = x /\ g = ctx
    <3>1. ctx # Eager  BY <2>2, MemoAssumption
    <3>2. x.home = Eager => Hit(s) /\ x = memo[s]  BY <3>1, <1>2 DEF x
    <3> QED  BY <2>2, <3>1, <3>2, <1>3, <1>4 DEF MemosOK
  <2> QED  BY <2>1, <2>2, <1>10
<1> QED  BY <1>7, <1>8, <1>9, <1>11, <1>12

LEMMA MoveKeeps == ASSUME MemosInv, NEW s \in Sites, Move(s) PROVE MemosInv'
<1> USE DEF Move, MemosInv
<1>1. \A g \in Graphs : baked[g] = {}  BY MemoAssumption DEF Reading
<1>2. MemosOK'  BY DEF MemosOK
<1>3. Reading' /\ MemoKept' /\ Private' /\ BakedStayLive'
  BY <1>1 DEF Reading, MemoKept, Private, BakedStayLive
<1> QED  BY <1>2, <1>3

(* The rest moves contexts only. *)
LEMMA ContextKeeps ==
  ASSUME MemosInv, UNCHANGED siteVars, made' \in Nat,
         \/ UNCHANGED <<ctx, captured>>
         \/ \E g \in Graphs : Capture(g)
         \/ EndCapture
  PROVE  MemosInv'
<1> USE DEF MemosInv, siteVars
<1>1. ctx' \in Homes /\ captured' \subseteq Graphs
  BY DEF Capture, EndCapture, MemosOK, Homes
<1>2. \A g \in Graphs : g \in captured \/ g = ctx => g \in captured' \/ g = ctx'
  BY MemoAssumption DEF Capture, EndCapture
<1>3. MemosOK'  BY <1>1 DEF MemosOK
<1>4. Reading' /\ MemoKept' /\ Private' /\ BakedStayLive'
  BY <1>2 DEF Reading, MemoKept, Private, BakedStayLive
<1> QED  BY <1>3, <1>4

LEMMA MemosStep == MemosInv /\ [MemoNext]_memoVars => MemosInv'
<1> SUFFICES ASSUME MemosInv, [MemoNext]_memoVars PROVE MemosInv'
  OBVIOUS
<1>0. made \in Nat  BY DEF MemosInv, MemosOK
<1>1. ASSUME NEW s \in Sites, Lookup(s) \/ Move(s) PROVE MemosInv'
  BY <1>1, LookupKeeps, MoveKeeps
<1>2. CASE Activation
  BY <1>0, <1>2, ContextKeeps DEF Activation
<1>3. ASSUME NEW x \in acts, Release(x) \/ Quantise(x) \/ Write(x) PROVE MemosInv'
  BY <1>0, <1>3, ContextKeeps DEF Release, Quantise, Write
<1>4. ASSUME NEW g \in Graphs, Capture(g) PROVE MemosInv'
  BY <1>0, <1>4, ContextKeeps DEF Capture
<1>5. CASE EndCapture
  BY <1>0, <1>5, ContextKeeps DEF EndCapture
<1>6. ASSUME UNCHANGED memoVars PROVE MemosInv'
  BY <1>0, <1>6, ContextKeeps DEF memoVars
<1> QED  BY <1>1, <1>2, <1>3, <1>4, <1>5, <1>6 DEF MemoNext, Replay

----------------------------------------------------------------------------
(* The quantisation slot.                                                  *)

LEMMA ActivationKeeps == ASSUME SlotInv, Activation PROVE SlotInv'
<1> USE DEF SlotInv
<1>1. PICK a \in Addresses \ (Pinned \cup {x.addr : x \in acts}) :
        acts' = acts \cup {[addr |-> a, n |-> made, ver |-> 0, calls |-> 0]}
  BY DEF Activation
<1>2. made' = made + 1 /\ UNCHANGED <<ctx, a8_slot, given>>
  BY DEF Activation
<1> DEFINE new == [addr |-> a, n |-> made, ver |-> 0, calls |-> 0]
<1>3. new \in Acts /\ new.addr = a /\ new.n = made /\ new.calls = 0
  BY DEF Acts, SlotOK
<1>4. acts' = acts \cup {new}  BY <1>1
<1>5. (a8_slot # NoTensor => a8_slot.addr # a) /\ \A x \in acts : x.addr # a
  BY <1>1 DEF Pinned
<1>6. \A x \in acts : x.n \in Nat /\ x.n # made
  BY DEF SlotOK, Distinct, Acts
<1> HIDE DEF new
<1>7. SlotOK'  BY <1>2, <1>3, <1>4 DEF SlotOK
<1>8. Distinct'
  <2>1. \A x \in acts' : x.n < made'  BY <1>2, <1>3, <1>4, <1>6 DEF Distinct, SlotOK
  <2>2. \A x, y \in acts' : x.addr = y.addr \/ x.n = y.n => x = y
    BY <1>3, <1>4, <1>5, <1>6 DEF Distinct
  <2>3. given # NoTensor => given.n < made'
    BY <1>2 DEF Distinct, SlotOK, Handed
  <2> QED  BY <1>2, <2>1, <2>2, <2>3 DEF Distinct
<1>9. SlotIsOf'  BY <1>2, <1>3, <1>4, <1>5 DEF SlotIsOf
<1>10. Between'
  <2>1. ~ (a8_slot' # NoTensor /\ a8_slot'.addr = a)  BY <1>2, <1>5
  <2>2. SUFFICES ASSUME NEW x \in acts'
                 PROVE /\ a8_slot # NoTensor /\ a8_slot.addr = x.addr
                         => x.calls # 0 /\ given # NoTensor /\ given.n = x.n
                       /\ x.calls = 1 /\ given # NoTensor /\ given.n = x.n
                         => a8_slot # NoTensor /\ a8_slot.addr = x.addr
                       /\ x.calls = 1 => given # NoTensor
    BY <1>2 DEF Between, Serves
  <2>3. CASE x \in acts  BY <2>3 DEF Between, Serves
  <2>4. CASE x \notin acts
    <3>1. x.addr = a /\ x.calls = 0  BY <2>4, <1>1
    <3> QED  BY <3>1, <2>1, <1>2
  <2> QED  BY <2>3, <2>4
<1>11. Handout'  BY <1>2 DEF Handout, QuantIsOfX
<1> QED  BY <1>7, <1>8, <1>9, <1>10, <1>11

LEMMA ReleaseKeeps == ASSUME SlotInv, NEW x \in acts, Release(x) PROVE SlotInv'
<1>1. acts' \subseteq acts /\ UNCHANGED <<ctx, made, a8_slot, given>>
  BY DEF Release
<1> QED  BY <1>1 DEF SlotInv, SlotOK, Distinct, SlotIsOf, Between, Serves, Handout, QuantIsOfX

LEMMA QuantiseKeeps == ASSUME SlotInv, NEW x \in acts, Quantise(x) PROVE SlotInv'
<1> USE DEF SlotInv
<1> DEFINE mine == [n |-> x.n, ver |-> x.ver, home |-> ctx]
           new  == [x EXCEPT !.calls = CallsAfter(x)]
<1>1. x \in Acts /\ mine \in Quants  BY DEF SlotOK, Acts, Quants
<1>2. Serves(x) => a8_slot.q = mine  BY DEF Serves, SlotIsOf
<1>3. /\ a8_slot' = IF Serves(x) THEN NoTensor ELSE [addr |-> x.addr, q |-> mine]
      /\ given' = [q |-> mine, n |-> x.n, ver |-> x.ver, home |-> ctx]
      /\ acts' = (acts \ {x}) \cup {new} /\ UNCHANGED <<ctx, made>>
  BY <1>2 DEF Quantise, SlotAfterHit
<1> HIDE DEF mine
<1>4. /\ new \in Acts /\ new.addr = x.addr /\ new.n = x.n /\ new.ver = x.ver
      /\ new.calls = CallsAfter(x) /\ CallsAfter(x) \in {0, 1, 2}
  BY <1>1 DEF Acts, CallsAfter
<1>5. given' \in Handed /\ given' # NoTensor
  BY <1>1, <1>3, MemoAssumption DEF Handed, Acts, SlotOK
<1>6. ~ Serves(x) => a8_slot' \in Slotted /\ a8_slot' # NoTensor /\ a8_slot'.addr = x.addr
  BY <1>1, <1>3, MemoAssumption DEF Slotted, Acts
<1> HIDE DEF new
<1>7. SlotOK'  BY <1>3, <1>4, <1>5, <1>6 DEF SlotOK
<1>8. \A y \in acts' : y = new \/ (y \in acts /\ y # x /\ y.addr # x.addr /\ y.n # x.n)
  BY <1>3 DEF Distinct
<1>9. Distinct'
  <2>1. given'.n = x.n  BY <1>3
  <2>2. \A y \in acts' : y.n < made'  BY <1>3, <1>4, <1>8 DEF Distinct
  <2> QED  BY <1>3, <1>4, <1>8, <2>1, <2>2 DEF Distinct
<1>10. SlotIsOf'
  <2> SUFFICES ASSUME a8_slot' # NoTensor, NEW y \in acts', y.addr = a8_slot'.addr
               PROVE  a8_slot'.q = [n |-> y.n, ver |-> y.ver, home |-> ctx']
    BY DEF SlotIsOf
  <2>1. a8_slot' = [addr |-> x.addr, q |-> mine]  BY <1>3
  <2>2. y = new  BY <1>8, <2>1
  <2> QED  BY <1>3, <1>4, <2>1, <2>2 DEF mine
<1>11. Between'
  <2> SUFFICES ASSUME NEW y \in acts'
               PROVE  /\ Serves(y)' => y.calls # 0 /\ given' # NoTensor /\ given'.n = y.n
                      /\ y.calls = 1 /\ given' # NoTensor /\ given'.n = y.n => Serves(y)'
                      /\ y.calls = 1 => given' # NoTensor
    BY DEF Between
  <2>1. given'.n = x.n  BY <1>3
  <2>2. CASE y = new
    <3>1. CASE Serves(x)
      <4>1. ~ Serves(y)'  BY <3>1, <1>3 DEF Serves
      <4>2. x.calls # 0 /\ given.n = x.n  BY <3>1 DEF Between
      <4>3. CallsAfter(x) # 1  BY <4>2 DEF CallsAfter
      <4> QED  BY <4>1, <4>3, <2>2, <1>4
    <3>2. CASE ~ Serves(x)
      <4>1. Serves(y)'  BY <3>2, <2>2, <1>4, <1>6 DEF Serves
      <4>2. x.calls = 1 => given.n # x.n  BY <3>2 DEF Between
      <4>3. CallsAfter(x) # 0  BY <4>2 DEF CallsAfter
      <4> QED  BY <4>1, <4>3, <2>1, <2>2, <1>4, <1>5
    <3> QED  BY <3>1, <3>2
  <2>3. CASE y \in acts /\ y # x /\ y.addr # x.addr /\ y.n # x.n
    <3>1. ~ Serves(y)'  BY <2>3, <1>3, <1>6 DEF Serves
    <3> QED  BY <2>1, <2>3, <3>1, <1>5
  <2> QED  BY <1>8, <2>2, <2>3
<1>12. Handout'  BY <1>3 DEF Handout, QuantIsOfX, mine
<1> QED  BY <1>7, <1>9, <1>10, <1>11, <1>12

LEMMA WriteKeeps == ASSUME SlotInv, NEW x \in acts, Write(x) PROVE SlotInv'
<1> USE DEF SlotInv
<1> DEFINE new == [x EXCEPT !.ver = 1]
<1>1. /\ acts' = (acts \ {x}) \cup {new} /\ UNCHANGED <<ctx, made, a8_slot, given>>
      /\ x.calls = 0 /\ x \in Acts
  BY DEF Write, SlotOK
<1>2. new \in Acts /\ new.addr = x.addr /\ new.n = x.n /\ new.calls = 0
  BY <1>1 DEF Acts
<1> HIDE DEF new
<1>3. ~ Serves(x)  BY <1>1 DEF Between
<1>4. \A y \in acts' : y = new \/ (y \in acts /\ y # x /\ y.addr # x.addr /\ y.n # x.n)
  BY <1>1 DEF Distinct
<1>5. SlotOK'  BY <1>1, <1>2 DEF SlotOK
<1>6. Distinct'  BY <1>1, <1>2, <1>4 DEF Distinct
<1>7. SlotIsOf'  BY <1>1, <1>2, <1>3, <1>4 DEF SlotIsOf, Serves
<1>8. Between'
  <2>1. ~ Serves(new)'  BY <1>1, <1>2, <1>3 DEF Serves
  <2>2. \A y \in acts : Serves(y)' <=> Serves(y)  BY <1>1 DEF Serves
  <2> QED  BY <1>1, <1>2, <1>4, <2>1, <2>2 DEF Between
<1>9. Handout'  BY <1>1 DEF Handout, QuantIsOfX
<1> QED  BY <1>5, <1>6, <1>7, <1>8, <1>9

(* A context changes only between forwards, when no object is live. *)
LEMMA ContextChanges ==
  ASSUME SlotInv, UNCHANGED <<quantVars, made>>, ctx' \in Homes, ctx' = ctx \/ acts = {}
  PROVE  SlotInv'
BY DEF SlotInv, SlotOK, Distinct, SlotIsOf, Between, Serves, Handout, QuantIsOfX, quantVars

LEMMA SlotStep == SlotInv /\ [MemoNext]_memoVars => SlotInv'
<1> SUFFICES ASSUME SlotInv, [MemoNext]_memoVars PROVE SlotInv'
  OBVIOUS
<1>1. ASSUME NEW s \in Sites, Lookup(s) PROVE SlotInv'
  <2>1. UNCHANGED <<ctx, acts, a8_slot, given>> /\ made' \in Nat /\ made <= made' /\ made \in Nat
    BY <1>1 DEF Lookup, quantVars, SlotInv, SlotOK
  <2>2. SlotOK' /\ SlotIsOf' /\ Between' /\ Handout'
    BY <2>1 DEF SlotInv, SlotOK, SlotIsOf, Between, Serves, Handout, QuantIsOfX
  <2>3. Distinct'
    <3>1. \A x \in acts : x.n \in Nat  BY DEF SlotInv, SlotOK, Acts
    <3>2. given # NoTensor => given.n \in Nat  BY DEF SlotInv, SlotOK, Handed
    <3> QED  BY <2>1, <3>1, <3>2 DEF SlotInv, Distinct
  <2> QED  BY <2>2, <2>3 DEF SlotInv
<1>2. ctx \in Homes  BY DEF SlotInv, SlotOK
<1>3. ASSUME NEW s \in Sites, Move(s) PROVE SlotInv'
  BY <1>2, <1>3, ContextChanges DEF Move
<1>4. ASSUME NEW g \in Graphs, Capture(g) \/ Replay(g) PROVE SlotInv'
  <2>1. CASE Capture(g)  BY <2>1, ContextChanges DEF Capture, Homes
  <2>2. CASE Replay(g)  BY <1>2, <2>2, ContextChanges DEF Replay, memoVars
  <2> QED  BY <1>4, <2>1, <2>2
<1>5. CASE EndCapture
  BY <1>5, ContextChanges DEF EndCapture, Homes
<1>6. CASE UNCHANGED memoVars
  BY <1>2, <1>6, ContextChanges DEF memoVars
<1> QED
  BY <1>1, <1>3, <1>4, <1>5, <1>6, ActivationKeeps, ReleaseKeeps, QuantiseKeeps, WriteKeeps
  DEF MemoNext

----------------------------------------------------------------------------
(* The invariants, and what follows from them.                             *)

LEMMA MemosInit == MemoInit => MemosInv
BY MemoAssumption DEF MemoInit, MemosInv, MemosOK, Reading, MemoKept, Private, BakedStayLive, Homes

LEMMA SlotInit == MemoInit => SlotInv
BY DEF MemoInit, SlotInv, SlotOK, Distinct, SlotIsOf, Between, Handout, QuantIsOfX, Homes

LEMMA BothHold == MemoSpec => [](MemosInv /\ SlotInv)
<1>1. MemoInit => MemosInv /\ SlotInv  BY MemosInit, SlotInit
<1>2. MemosInv /\ SlotInv /\ [MemoNext]_memoVars => (MemosInv /\ SlotInv)'
  BY MemosStep, SlotStep
<1> QED  BY <1>1, <1>2, PTL DEF MemoSpec

(* "correct for this graph, but must not be handed to another graph or to  *)
(* eager": no private pool's tensor leaves its graph, for any number of    *)
(* graphs and lookups.                                                     *)
THEOREM PoolsStayPrivate == MemoSpec => []PoolStaysPrivate
<1>1. MemosInv /\ SlotInv => PoolStaysPrivate
  BY DEF MemosInv, MemoKept, Private, SlotInv, Handout, PoolStaysPrivate
<1> QED  BY <1>1, BothHold, PTL

(* What a captured graph reads outside its pool stays the memo's tensor,   *)
(* made from the source as it is.                                          *)
THEOREM BakedStay == MemoSpec => []BakedStayLive
<1>1. MemosInv /\ SlotInv => BakedStayLive  BY DEF MemosInv
<1> QED  BY <1>1, BothHold, PTL

(* "slot[0] is x": however addresses are given out again, the quantisation *)
(* handed out is that of the tensor asked about, as it is now.             *)
THEOREM QuantsAreRight == MemoSpec => []QuantIsOfX
<1>1. MemosInv /\ SlotInv => QuantIsOfX  BY DEF SlotInv, Handout
<1> QED  BY <1>1, BothHold, PTL

-----------------------------------------------------------------------------
(***************************************************************************)
(* Hot sets. What is built for a layer is a state the cache may start in,  *)
(* it holds the experts that this layer routed most and gives up the least *)
(* routed of them first; and the studies, which order the layers           *)
(* otherwise, size every layer as the server does, up to a tie at the last *)
(* share.                                                                  *)
(*                                                                         *)
(* The argument: argsort(-c) is the order of a key that tells the experts  *)
(* apart, e - E*c[e], so a row of the file is a ranking of its layer, with *)
(* each expert once (RankedFalls, ProfileRanks). Shares are compared as    *)
(* fractions whose denominators are positive, so that the pairs are in a   *)
(* strict total order (AheadOrders); what the budget pays for is closed    *)
(* upwards in it (KeptFromTheTop), and a layer's part of it is its hottest *)
(* experts (SplitIsHottest). The stamps reverse the places in the ranking, *)
(* one to a slot (StampsFollowRanks). The two splits have as many pairs    *)
(* ahead of the cut, which is the budget or everything (BudgetSpent,       *)
(* SplitAddsUp); and a pair that one keeps and the other does not is on    *)
(* one side of either last pair, so that its share is theirs (TieAtTheCut, *)
(* OtherOrder).                                                            *)
(***************************************************************************)
(* Sorting by a key that tells the members apart: everyone once, ascending. *)
LEMMA SortedOrders ==
  ASSUME NEW V, IsFiniteSet(V), NEW key, KeyOf(V, key)
  PROVE  /\ Cardinality(V) \in Nat
         /\ Sorted(V, key) \in Seq(V) /\ Len(Sorted(V, key)) = Cardinality(V)
         /\ DOMAIN Sorted(V, key) = 1 .. Cardinality(V)
         /\ \A i \in 1 .. Cardinality(V) : Sorted(V, key)[i] \in V
         /\ \A x \in V : \E i \in 1 .. Cardinality(V) : Sorted(V, key)[i] = x
         /\ \A i, j \in 1 .. Cardinality(V) :
              i < j => key[Sorted(V, key)[i]] < key[Sorted(V, key)[j]]
<1> DEFINE n == Cardinality(V)
           s == Sorted(V, key)
<1>1. n \in Nat
  BY FS_CardinalityType
<1>2. s = [i \in 1 .. n |-> Nth(V, key, i - 1)]
  BY DEF Sorted
<1>3. \A i \in 1 .. n : i - 1 \in 0 .. n - 1
  BY <1>1
<1>4. \A i \in 1 .. n : s[i] \in V /\ Rank(V, key, s[i]) = i - 1
  BY <1>1, <1>2, <1>3, RankBijective
<1>5. \A x \in V : \E i \in 1 .. n : s[i] = x
  <2> TAKE x \in V
  <2>1. Rank(V, key, x) \in 0 .. n - 1 /\ Nth(V, key, Rank(V, key, x)) = x
    BY RankBijective
  <2>2. Rank(V, key, x) + 1 \in 1 .. n /\ (Rank(V, key, x) + 1) - 1 = Rank(V, key, x)
    BY <1>1, <2>1
  <2> QED BY <1>2, <2>1, <2>2
<1>6. \A i, j \in 1 .. n : i < j => key[s[i]] < key[s[j]]
  <2> SUFFICES ASSUME NEW i \in 1 .. n, NEW j \in 1 .. n, i < j PROVE key[s[i]] < key[s[j]]
    OBVIOUS
  <2>1. s[i] \in V /\ s[j] \in V /\ Rank(V, key, s[i]) = i - 1 /\ Rank(V, key, s[j]) = j - 1
    BY <1>4
  <2>2. key[s[i]] \in Int /\ key[s[j]] \in Int
    BY <2>1 DEF KeyOf
  <2>3. ~ (i - 1 = j - 1) /\ ~ (j - 1 < i - 1)
    BY <1>1
  <2>4. s[i] # s[j]
    BY <2>1, <2>3
  <2>5. key[s[i]] # key[s[j]]
    BY <2>1, <2>4 DEF KeyOf
  <2>6. ~ (key[s[j]] < key[s[i]])
    BY <2>1, <2>3, RankMonotone
  <2> QED BY <2>2, <2>5, <2>6
<1>7. s \in Seq(V) /\ Len(s) = n /\ DOMAIN s = 1 .. n
  <2> HIDE DEF s, n
  <2>1. DOMAIN s = 1 .. n /\ s \in [1 .. n -> V]
    BY <1>2, <1>4
  <2>2. s \in Seq(V)
    BY <1>1, <2>1, SeqDef
  <2> QED BY <1>1, <2>1, <2>2
<1> QED BY <1>1, <1>4, <1>5, <1>6, <1>7

LEMMA FirstCounted ==
  ASSUME NEW n \in Nat
  PROVE  IsFiniteSet(1 .. n) /\ Cardinality(1 .. n) = n
<1>1. Cardinality(1 .. n) = (IF 1 > n THEN 0 ELSE n - 1 + 1) /\ IsFiniteSet(1 .. n)
  BY FS_Interval
<1> QED BY <1>1

(* The members of a set of numbers, in ascending order. *)
LEMMA IdsSorted ==
  ASSUME NEW V, IsFiniteSet(V), V \subseteq Int
  PROVE  /\ Cardinality(V) \in Nat
         /\ ById(V) \in Seq(V) /\ Len(ById(V)) = Cardinality(V)
         /\ DOMAIN ById(V) = 1 .. Cardinality(V)
         /\ \A i \in 1 .. Cardinality(V) : ById(V)[i] \in V
         /\ \A x \in V : \E i \in 1 .. Cardinality(V) : ById(V)[i] = x
         /\ \A i, j \in 1 .. Cardinality(V) : i < j => ById(V)[i] < ById(V)[j]
<1> DEFINE key == [x \in V |-> x]
<1>1. KeyOf(V, key)
  BY DEF KeyOf
<1>2. ById(V) = Sorted(V, key)
  BY DEF ById
<1> HIDE DEF key
<1>3. /\ Cardinality(V) \in Nat
      /\ ById(V) \in Seq(V) /\ Len(ById(V)) = Cardinality(V)
      /\ DOMAIN ById(V) = 1 .. Cardinality(V)
      /\ \A i \in 1 .. Cardinality(V) : ById(V)[i] \in V
      /\ \A x \in V : \E i \in 1 .. Cardinality(V) : ById(V)[i] = x
      /\ \A i, j \in 1 .. Cardinality(V) : i < j => key[ById(V)[i]] < key[ById(V)[j]]
  BY <1>1, <1>2, SortedOrders
<1>4. \A i, j \in 1 .. Cardinality(V) : i < j => ById(V)[i] < ById(V)[j]
  BY <1>3 DEF key
<1> QED BY <1>3, <1>4

LEMMA ExpertsCounted == E \in Nat \ {0}
BY HotAssumption

(* The ids of a set of experts, in ascending order. *)
LEMMA IdsAscend ==
  ASSUME NEW V \in SUBSET Experts
  PROVE  /\ IsFiniteSet(V) /\ Cardinality(V) \in Nat
         /\ ById(V) \in Seq(Experts) /\ Len(ById(V)) = Cardinality(V)
         /\ DOMAIN ById(V) = 1 .. Cardinality(V)
         /\ \A i \in 1 .. Cardinality(V) : ById(V)[i] \in V
         /\ \A x \in V : \E i \in 1 .. Cardinality(V) : ById(V)[i] = x
         /\ \A i, j \in 1 .. Cardinality(V) : i < j => ById(V)[i] < ById(V)[j]
         /\ Cardinality(V) <= E /\ (Cardinality(V) = E => V = Experts)
<1>1. E \in Nat /\ IsFiniteSet(Experts) /\ Cardinality(Experts) = E
  <2>1. E \in Nat
    BY HotAssumption
  <2>2. IsFiniteSet(0 .. E-1) /\ Cardinality(0 .. E-1) = IF 0 > E-1 THEN 0 ELSE E-1 - 0 + 1
    BY <2>1, FS_Interval
  <2>3. Cardinality(0 .. E-1) = E
    BY <2>1, <2>2
  <2> QED BY <2>1, <2>2, <2>3 DEF Experts
<1>2. IsFiniteSet(V) /\ Cardinality(V) <= E /\ (Cardinality(V) = E => V = Experts)
  BY <1>1, FS_Subset
<1>3. V \subseteq Int
  BY <1>1 DEF Experts
<1>4. ById(V) \in Seq(V) => ById(V) \in Seq(Experts)
  OBVIOUS
<1> QED BY <1>2, <1>3, <1>4, IdsSorted

----------------------------------------------------------------------------
(* A layer's ranking.                                                      *)

(* The key of an expert tells its count apart first, its id next. *)
LEMMA CountFirst ==
  ASSUME NEW n \in Nat \ {0}, NEW e \in 0 .. n-1, NEW f \in 0 .. n-1, NEW a \in Nat, NEW b \in Nat
  PROVE  /\ e - n * a < f - n * b => a >= b
         /\ e - n * a = f - n * b => e = f
<1>1. n * a \in Nat /\ n * b \in Nat
  OBVIOUS
<1>2. a < b => n * a + n <= n * b
  <2> SUFFICES ASSUME a < b PROVE n * a + n <= n * b
    OBVIOUS
  <2>1. PICK d \in Nat : b = a + 1 + d
    <3>1. b - a - 1 \in Nat /\ b = a + 1 + (b - a - 1)
      OBVIOUS
    <3> QED BY <3>1
  <2>2. n * (a + 1 + d) = n * a + n + n * d /\ n * d \in Nat
    OBVIOUS
  <2> QED BY <1>1, <2>1, <2>2
<1>3. b < a => n * b + n <= n * a
  <2> SUFFICES ASSUME b < a PROVE n * b + n <= n * a
    OBVIOUS
  <2>1. PICK d \in Nat : a = b + 1 + d
    <3>1. a - b - 1 \in Nat /\ a = b + 1 + (a - b - 1)
      OBVIOUS
    <3> QED BY <3>1
  <2>2. n * (b + 1 + d) = n * b + n + n * d /\ n * d \in Nat
    OBVIOUS
  <2> QED BY <1>1, <2>1, <2>2
<1> DEFINE na == n * a
           nb == n * b
<1>4. na \in Nat /\ nb \in Nat /\ (a < b => na + n <= nb) /\ (b < a => nb + n <= na) /\ (a = b => na = nb)
  BY <1>1, <1>2, <1>3
<1>5. /\ e - na < f - nb => a >= b
      /\ e - na = f - nb => e = f
  <2> HIDE DEF na, nb
  <2> QED BY <1>4
<1> QED BY <1>5

(* The ranked experts of a layer: each once, by falling counts. *)
LEMMA RankedFalls ==
  ASSUME NEW c \in [Experts -> Nat]
  PROVE  /\ HottestFirst(c) \in [1 .. E -> Experts]
         /\ \A e \in Experts : \E j \in 1 .. E : HottestFirst(c)[j] = e
         /\ \A j, k \in 1 .. E : HottestFirst(c)[j] = HottestFirst(c)[k] => j = k
         /\ \A j, k \in 1 .. E : j <= k => c[HottestFirst(c)[j]] >= c[HottestFirst(c)[k]]
<1> DEFINE key == [e \in Experts |-> e - E * c[e]]
           h == HottestFirst(c)
<1>1. E \in Nat \ {0}
  BY HotAssumption
<1>2. IsFiniteSet(Experts) /\ Cardinality(Experts) = E
  <2>1. IsFiniteSet(0 .. E-1) /\ Cardinality(0 .. E-1) = IF 0 > E-1 THEN 0 ELSE E-1 - 0 + 1
    BY <1>1, FS_Interval
  <2>2. Cardinality(0 .. E-1) = E
    BY <1>1, <2>1
  <2> QED BY <2>1, <2>2 DEF Experts
<1>3. \A e \in Experts : e \in 0 .. E-1 /\ c[e] \in Nat
  BY DEF Experts
<1>4. KeyOf(Experts, key)
  <2>1. \A e \in Experts : key[e] = e - E * c[e] /\ key[e] \in Int
    BY <1>1, <1>3
  <2>2. ASSUME NEW e \in Experts, NEW f \in Experts, key[e] = key[f] PROVE e = f
    <3>1. e - E * c[e] = f - E * c[f]
      BY <2>1, <2>2
    <3> HIDE DEF key
    <3> QED BY <1>1, <1>3, <3>1, CountFirst
  <2> QED BY <2>1, <2>2 DEF KeyOf
<1>5. h = Sorted(Experts, key)
  BY DEF HottestFirst
<1>6. \A e \in Experts : key[e] = e - E * c[e]
  OBVIOUS
<1> HIDE DEF key
<1>7. /\ DOMAIN h = 1 .. E /\ \A j \in 1 .. E : h[j] \in Experts
      /\ \A e \in Experts : \E j \in 1 .. E : h[j] = e
      /\ \A j, k \in 1 .. E : j < k => key[h[j]] < key[h[k]]
  BY <1>2, <1>4, <1>5, SortedOrders
<1>8. h \in [1 .. E -> Experts]
  <2>1. h = [j \in 1 .. E |-> h[j]]
    BY <1>5, <1>2 DEF Sorted
  <2> QED BY <1>7, <2>1
<1>9. \A j, k \in 1 .. E : h[j] = h[k] => j = k
  <2> SUFFICES ASSUME NEW j \in 1 .. E, NEW k \in 1 .. E, h[j] = h[k], j # k PROVE FALSE
    OBVIOUS
  <2>1. h[j] \in Experts /\ key[h[j]] \in Int
    BY <1>4, <1>7 DEF KeyOf
  <2>2. key[h[j]] < key[h[k]] \/ key[h[k]] < key[h[j]]
    <3>1. j < k \/ k < j
      BY <1>1
    <3> QED BY <3>1, <1>7
  <2>3. key[h[k]] = key[h[j]]
    OBVIOUS
  <2> HIDE DEF h
  <2> QED BY <2>1, <2>2, <2>3
<1>10. ASSUME NEW j \in 1 .. E, NEW k \in 1 .. E, j <= k PROVE c[h[j]] >= c[h[k]]
  <2>0. h[j] \in Experts /\ h[k] \in Experts
    BY <1>7
  <2>1. CASE j = k
    <3>1. c[h[j]] \in Nat
      BY <1>3, <2>0
    <3> QED BY <2>1, <3>1
  <2>2. CASE j # k
    <3>1. j < k
      BY <1>1, <1>10, <2>2
    <3>2. h[j] - E * c[h[j]] < h[k] - E * c[h[k]]
      BY <1>6, <1>7, <2>0, <3>1
    <3> HIDE DEF h
    <3> QED BY <1>1, <1>3, <2>0, <3>2, CountFirst
  <2> QED BY <2>1, <2>2
<1> QED BY <1>7, <1>8, <1>9, <1>10

----------------------------------------------------------------------------
(* The profile.                                                            *)

(* What the script makes of these routings. *)
ProfileOf(r) ==
  [i \in DOMAIN FileOrder |->
     [layer |-> RealLayer(i), ranked |-> HottestFirst(r[FileOrder[i]]),
      counts |-> [j \in 1 .. E |-> r[FileOrder[i]][HottestFirst(r[FileOrder[i]])[j]]]]]

(* A row per layer, in any order, each a ranking of the layer's routings. *)
RowRanks(x, c) ==
  /\ x.ranked \in [1 .. E -> Experts] /\ x.counts \in [1 .. E -> Nat]
  /\ \A e \in Experts : \E j \in 1 .. E : x.ranked[j] = e
  /\ \A j, k \in 1 .. E : x.ranked[j] = x.ranked[k] => j = k
  /\ \A j \in 1 .. E : x.counts[j] = c[x.ranked[j]]
  /\ \A j, k \in 1 .. E : j <= k => x.counts[j] >= x.counts[k]

Ranks(p, r) ==
  /\ DOMAIN p = 1 .. Len(FileOrder)
  /\ \A i \in DOMAIN p : p[i].layer \in Layers /\ RowRanks(p[i], r[p[i].layer])
  /\ \A i, k \in DOMAIN p : p[i].layer = p[k].layer => i = k
  /\ \A l \in Layers : \E i \in DOMAIN p : p[i].layer = l

LEMMA Files ==
  /\ Len(FileOrder) \in Nat /\ DOMAIN FileOrder = 1 .. Len(FileOrder)
  /\ Layers = 0 .. Len(FileOrder) - 1
  /\ \A i \in DOMAIN FileOrder : FileOrder[i] \in Layers
  /\ \A l \in Layers : \E i \in DOMAIN FileOrder : FileOrder[i] = l
BY HotAssumption, LenProperties DEF Layers

LEMMA ProfileRanks ==
  ASSUME NEW r \in Routings
  PROVE  Ranks(ProfileOf(r), r)
<1> DEFINE p == ProfileOf(r)
<1>1. DOMAIN p = DOMAIN FileOrder
      /\ \A i \in DOMAIN FileOrder :
           /\ p[i].layer = FileOrder[i]
           /\ p[i].ranked = HottestFirst(r[FileOrder[i]])
           /\ p[i].counts = [j \in 1 .. E |-> r[FileOrder[i]][HottestFirst(r[FileOrder[i]])[j]]]
  BY DEF ProfileOf, RealLayer
<1> HIDE DEF p
<1>2. ASSUME NEW i \in DOMAIN FileOrder PROVE RowRanks(p[i], r[FileOrder[i]])
  <2> DEFINE c == r[FileOrder[i]]
             h == HottestFirst(c)
  <2>1. c \in [Experts -> Nat]
    BY HotAssumption, Files
  <2> HIDE DEF c
  <2>2. /\ h \in [1 .. E -> Experts]
        /\ \A e \in Experts : \E j \in 1 .. E : h[j] = e
        /\ \A j, k \in 1 .. E : h[j] = h[k] => j = k
        /\ \A j, k \in 1 .. E : j <= k => c[h[j]] >= c[h[k]]
    BY <2>1, RankedFalls
  <2>3. p[i].ranked = h /\ p[i].counts = [j \in 1 .. E |-> c[h[j]]]
    BY <1>1 DEF c
  <2> HIDE DEF h
  <2>4. \A j \in 1 .. E : c[h[j]] \in Nat
    BY <2>1, <2>2
  <2>5. p[i].counts \in [1 .. E -> Nat] /\ \A j \in 1 .. E : p[i].counts[j] = c[h[j]]
    BY <2>3, <2>4
  <2> QED BY <2>2, <2>3, <2>5 DEF RowRanks, c
<1>3. \A i, k \in DOMAIN p : p[i].layer = p[k].layer => i = k
  BY <1>1, HotAssumption
<1>4. /\ DOMAIN p = 1 .. Len(FileOrder)
      /\ \A i \in DOMAIN p : p[i].layer \in Layers /\ RowRanks(p[i], r[p[i].layer])
  BY <1>1, <1>2, Files
<1>5. \A l \in Layers : \E i \in DOMAIN p : p[i].layer = l
  BY <1>1, Files
<1> QED BY <1>3, <1>4, <1>5 DEF Ranks, p

(* No layer is without routings. *)
Total(p, i) == SumFunctionOnSet(p[i].counts, 1 .. E)

LEMMA TotalsPositive ==
  ASSUME NEW r \in Routings, NEW p, Ranks(p, r), NEW i \in DOMAIN p
  PROVE  Total(p, i) \in Nat \ {0}
<1> DEFINE g == p[i].counts
<1>1. g \in [1 .. E -> Nat] /\ IsFiniteSet(1 .. E)
  <2>1. IsFiniteSet(1 .. E)
    <3>1. 1 \in Int /\ E \in Int
      BY ExpertsCounted
    <3> QED BY <3>1, FS_Interval
  <2> QED BY <2>1 DEF Ranks, RowRanks
<1>2. PICK j \in 1 .. E : g[j] > 0
  <2>1. p[i].layer \in Layers
    BY DEF Ranks
  <2>2. PICK e \in Experts : r[p[i].layer][e] > 0
    BY <2>1, HotAssumption
  <2>3. PICK j \in 1 .. E : p[i].ranked[j] = e
    BY DEF Ranks, RowRanks
  <2>4. g[j] = r[p[i].layer][e]
    BY <2>3 DEF Ranks, RowRanks
  <2> QED BY <2>2, <2>4
<1> HIDE DEF g
<1>3. \A x \in 1 .. E : g[x] \in Nat
  BY <1>1
<1> DEFINE V == (1 .. E) \ {j}
<1>4. IsFiniteSet(V) /\ IsFiniteSet({j}) /\ V \cap {j} = {} /\ V \cup {j} = 1 .. E
  BY <1>1, FS_Subset, FS_Singleton
<1> HIDE DEF V
<1>5. /\ SumFunctionOnSet(g, V \cup {j}) = SumFunctionOnSet(g, V) + SumFunctionOnSet(g, {j})
      /\ SumFunctionOnSet(g, V) \in Nat
      /\ SumFunctionOnSet(g, {j}) = g[j]
  <2>1. \A x \in V \cup {j} : g[x] \in Nat
    BY <1>3, <1>4
  <2> QED BY <1>4, <2>1, SumOfBoth, SumOfOne, SumIsSize
<1>6. SumFunctionOnSet(g, 1 .. E) = SumFunctionOnSet(g, V) + g[j]
  BY <1>4, <1>5
<1> QED BY <1>2, <1>3, <1>5, <1>6 DEF Total, g

----------------------------------------------------------------------------
(* Pairs by their shares.                                                  *)

CountOf(p, a) == p[a[1]].counts[a[2]]
Lex(a, b) == a[1] < b[1] \/ (a[1] = b[1] /\ a[2] < b[2])

LEMMA PairTypes ==
  ASSUME NEW r \in Routings, NEW p, Ranks(p, r), NEW a \in Pairs(p)
  PROVE  /\ a[1] \in DOMAIN p /\ a[1] \in Nat /\ a[2] \in 1 .. E /\ a[2] \in Nat /\ a = <<a[1], a[2]>>
         /\ CountOf(p, a) \in Nat /\ Total(p, a[1]) \in Nat \ {0}
<1>1. a[1] \in DOMAIN p /\ a[2] \in 1 .. E /\ a = <<a[1], a[2]>>
  BY DEF Pairs
<1>2. a[1] \in Nat /\ a[2] \in Nat
  <2>1. Len(FileOrder) \in Nat /\ DOMAIN p = 1 .. Len(FileOrder) /\ E \in Nat
    BY Files, HotAssumption DEF Ranks
  <2> QED BY <1>1, <2>1
<1>3. CountOf(p, a) \in Nat
  <2>1. p[a[1]].counts \in [1 .. E -> Nat]
    BY <1>1 DEF Ranks, RowRanks
  <2> QED BY <1>1, <2>1 DEF CountOf
<1> QED BY <1>1, <1>2, <1>3, TotalsPositive

LEMMA AheadMeans ==
  ASSUME NEW r \in Routings, NEW p, Ranks(p, r), NEW a \in Pairs(p), NEW b \in Pairs(p)
  PROVE  /\ Share(p, a, b) = CountOf(p, a) * Total(p, b[1])
         /\ Share(p, a, b) \in Nat
         /\ Ahead(p, a, b) <=> \/ Share(p, a, b) > Share(p, b, a)
                               \/ Share(p, a, b) = Share(p, b, a) /\ Lex(a, b)
<1>1. Share(p, a, b) = CountOf(p, a) * Total(p, b[1])
  BY DEF Share, CountOf, Total
<1>2. Share(p, a, b) \in Nat
  BY <1>1, PairTypes
<1> QED BY <1>1, <1>2 DEF Ahead, Lex

(* Of fractions that fall, the first is no less than the last. *)
LEMMA Fractions ==
  ASSUME NEW a \in Nat, NEW b \in Nat, NEW c \in Nat,
         NEW x \in Nat \ {0}, NEW y \in Nat \ {0}, NEW z \in Nat \ {0},
         a * y >= b * x, b * z >= c * y
  PROVE  /\ a * z >= c * x
         /\ a * z = c * x => a * y = b * x /\ b * z = c * y
<1>1. (a * y) * z >= (b * x) * z /\ (b * z) * x >= (c * y) * x
  BY ProductMonotone
<1>2. (b * x) * z = (b * z) * x /\ (a * y) * z = (a * z) * y /\ (c * y) * x = (c * x) * y
  OBVIOUS
<1> DEFINE p == a * z
           q == c * x
           s == a * y
           t == b * x
           u == b * z
           v == c * y
<1>3. p \in Nat /\ q \in Nat /\ s \in Nat /\ t \in Nat /\ u \in Nat /\ v \in Nat
  OBVIOUS
<1>4. p * y >= q * y /\ s * z = p * y /\ t * z = u * x /\ v * x = q * y /\ s * z >= t * z /\ u * x >= v * x
  <2>1. p * y \in Nat /\ q * y \in Nat /\ t * z \in Nat
    OBVIOUS
  <2> QED BY <1>1, <1>2, <2>1
<1>5. s >= t /\ u >= v
  OBVIOUS
<1> HIDE DEF p, q, s, t, u, v
<1>6. p >= q
  <2> SUFFICES ASSUME p < q PROVE FALSE
    BY <1>3
  <2>1. PICK d \in Nat \ {0} : q = p + d
    <3>1. q - p \in Nat \ {0} /\ q = p + (q - p)
      BY <1>3
    <3> QED BY <3>1
  <2>2. (p + d) * y = p * y + d * y /\ d * y > 0 /\ p * y \in Nat
    BY <1>3
  <2> QED BY <1>4, <2>1, <2>2
<1>7. p = q => s = t /\ u = v
  <2> SUFFICES ASSUME p = q PROVE s = t /\ u = v
    OBVIOUS
  <2>1. s * z = t * z /\ u * x = v * x
    <3>1. s * z \in Int /\ t * z \in Int /\ u * x \in Int /\ v * x \in Int
      BY <1>3
    <3> HIDE DEF p, q
    <3> QED BY <1>4, <3>1
  <2>2. ASSUME NEW k \in Nat, NEW m \in Nat, NEW w \in Nat \ {0}, k * w = m * w PROVE k = m
    <3>1. (k - m) * w = 0
      BY <2>2
    <3> QED BY <3>1
  <2> QED BY <1>3, <2>1, <2>2
<1> QED BY <1>6, <1>7 DEF p, q, s, t, u, v

LEMMA SharesFall ==
  ASSUME NEW r \in Routings, NEW p, Ranks(p, r),
         NEW a \in Pairs(p), NEW b \in Pairs(p), NEW c \in Pairs(p),
         Share(p, a, b) >= Share(p, b, a), Share(p, b, c) >= Share(p, c, b)
  PROVE  /\ Share(p, a, c) >= Share(p, c, a)
         /\ Share(p, a, c) = Share(p, c, a) =>
              Share(p, a, b) = Share(p, b, a) /\ Share(p, b, c) = Share(p, c, b)
<1>1. /\ CountOf(p, a) \in Nat /\ CountOf(p, b) \in Nat /\ CountOf(p, c) \in Nat
      /\ Total(p, a[1]) \in Nat \ {0} /\ Total(p, b[1]) \in Nat \ {0} /\ Total(p, c[1]) \in Nat \ {0}
  BY PairTypes
<1>2. /\ Share(p, a, b) = CountOf(p, a) * Total(p, b[1]) /\ Share(p, b, a) = CountOf(p, b) * Total(p, a[1])
      /\ Share(p, b, c) = CountOf(p, b) * Total(p, c[1]) /\ Share(p, c, b) = CountOf(p, c) * Total(p, b[1])
      /\ Share(p, a, c) = CountOf(p, a) * Total(p, c[1]) /\ Share(p, c, a) = CountOf(p, c) * Total(p, a[1])
  BY AheadMeans
<1> QED BY <1>1, <1>2, Fractions

(* The pairs are in a strict total order. *)
LEMMA AheadOrders ==
  ASSUME NEW r \in Routings, NEW p, Ranks(p, r)
  PROVE  /\ \A a \in Pairs(p) : ~ Ahead(p, a, a)
         /\ \A a, b \in Pairs(p) : Ahead(p, a, b) \/ Ahead(p, b, a) \/ a = b
         /\ \A a, b, c \in Pairs(p) : Ahead(p, a, b) /\ Ahead(p, b, c) => Ahead(p, a, c)
<1>1. ASSUME NEW a \in Pairs(p) PROVE ~ Ahead(p, a, a)
  <2>1. Share(p, a, a) \in Nat /\ ~ Lex(a, a)
    BY AheadMeans, PairTypes DEF Lex
  <2> QED BY <2>1, AheadMeans
<1>2. ASSUME NEW a \in Pairs(p), NEW b \in Pairs(p), a # b
      PROVE  Ahead(p, a, b) \/ Ahead(p, b, a)
  <2>1. Lex(a, b) \/ Lex(b, a)
    BY <1>2, PairTypes DEF Lex
  <2>2. Share(p, a, b) \in Nat /\ Share(p, b, a) \in Nat
    BY AheadMeans
  <2> QED BY <2>1, <2>2, AheadMeans
<1>3. ASSUME NEW a \in Pairs(p), NEW b \in Pairs(p), NEW c \in Pairs(p),
             Ahead(p, a, b), Ahead(p, b, c)
      PROVE  Ahead(p, a, c)
  <2>1. /\ Share(p, a, b) \in Nat /\ Share(p, b, a) \in Nat /\ Share(p, b, c) \in Nat
        /\ Share(p, c, b) \in Nat /\ Share(p, a, c) \in Nat /\ Share(p, c, a) \in Nat
    BY AheadMeans
  <2>2. Share(p, a, b) >= Share(p, b, a) /\ Share(p, b, c) >= Share(p, c, b)
    BY <1>3, <2>1, AheadMeans
  <2>3. /\ Share(p, a, c) >= Share(p, c, a)
        /\ Share(p, a, c) = Share(p, c, a) =>
             Share(p, a, b) = Share(p, b, a) /\ Share(p, b, c) = Share(p, c, b)
    BY <2>2, SharesFall
  <2>4. CASE Share(p, a, c) > Share(p, c, a)
    BY <2>4, AheadMeans
  <2>5. CASE Share(p, a, c) = Share(p, c, a)
    <3>1. Share(p, a, b) = Share(p, b, a) /\ Share(p, b, c) = Share(p, c, b)
      BY <2>3, <2>5
    <3>2. Lex(a, b) /\ Lex(b, c)
      BY <1>3, <2>1, <3>1, AheadMeans
    <3>3. Lex(a, c)
      BY <3>2, PairTypes DEF Lex
    <3> QED BY <2>5, <3>3, AheadMeans
  <2> QED BY <2>1, <2>3, <2>4, <2>5
<1> QED BY <1>1, <1>2, <1>3

----------------------------------------------------------------------------
(* What the budget pays for.                                               *)

LEMMA PairsFinite ==
  ASSUME NEW r \in Routings, NEW p, Ranks(p, r)
  PROVE  IsFiniteSet(Pairs(p)) /\ Cardinality(Pairs(p)) = Len(FileOrder) * E
<1> DEFINE n == Len(FileOrder)
<1>1. n \in Nat /\ E \in Nat /\ DOMAIN p = 1 .. n
  BY Files, ExpertsCounted DEF Ranks
<1> HIDE DEF n
<1>2. IsFiniteSet(1 .. n) /\ IsFiniteSet(1 .. E)
      /\ Cardinality(1 .. n) = n /\ Cardinality(1 .. E) = E
  BY <1>1, FS_Interval
<1>3. IsFiniteSet((1 .. n) \X (1 .. E)) /\ Cardinality((1 .. n) \X (1 .. E)) = n * E
  BY <1>2, FS_Product
<1> QED BY <1>1, <1>3 DEF Pairs, n

(* Pairs ahead of a kept one are kept. *)
LEMMA KeptFromTheTop ==
  ASSUME NEW r \in Routings, NEW p, Ranks(p, r), budget \in Nat,
         NEW a \in Pairs(p), NEW b \in Kept(p), Ahead(p, a, b)
  PROVE  a \in Kept(p)
<1> DEFINE A(x) == {y \in Pairs(p) : Ahead(p, y, x)}
<1>1. b \in Pairs(p) /\ Cardinality(A(b)) < budget
  BY DEF Kept
<1>2. A(a) \in SUBSET A(b) /\ A(b) \in SUBSET Pairs(p)
  BY <1>1, AheadOrders
<1>3. IsFiniteSet(A(b))
  BY <1>2, PairsFinite, FS_Subset
<1>4. Cardinality(A(a)) <= Cardinality(A(b)) /\ Cardinality(A(a)) \in Nat /\ Cardinality(A(b)) \in Nat
  BY <1>2, <1>3, FS_Subset, FS_CardinalityType
<1>5. Cardinality(A(a)) < budget
  BY <1>1, <1>4
<1> QED BY <1>5 DEF Kept

(* Within a row, the place tells who is ahead. *)
LEMMA RowInOrder ==
  ASSUME NEW r \in Routings, NEW p, Ranks(p, r), NEW i \in DOMAIN p,
         NEW j \in 1 .. E, NEW k \in 1 .. E, j < k
  PROVE  Ahead(p, <<i, j>>, <<i, k>>)
<1> DEFINE a == <<i, j>>
           b == <<i, k>>
<1>1. a \in Pairs(p) /\ b \in Pairs(p) /\ Lex(a, b)
  BY DEF Pairs, Lex
<1>2. CountOf(p, a) >= CountOf(p, b)
  BY DEF CountOf, Ranks, RowRanks
<1>3. /\ Share(p, a, b) = CountOf(p, a) * Total(p, i) /\ Share(p, a, b) \in Nat
      /\ Share(p, b, a) = CountOf(p, b) * Total(p, i) /\ Share(p, b, a) \in Nat
  BY <1>1, AheadMeans
<1>4. CountOf(p, a) \in Nat /\ CountOf(p, b) \in Nat /\ Total(p, i) \in Nat
  BY <1>1, PairTypes
<1>5. Share(p, a, b) >= Share(p, b, a)
  <2> HIDE DEF a, b
  <2> QED BY <1>2, <1>3, <1>4, ProductMonotone
<1>6. Share(p, a, b) > Share(p, b, a) \/ Share(p, a, b) = Share(p, b, a)
  BY <1>3, <1>5
<1> QED BY <1>1, <1>6, AheadMeans

(* The part of the budget a layer gets goes to its most routed experts. *)
LEMMA SplitIsHottest ==
  ASSUME NEW r \in Routings, NEW p, Ranks(p, r), budget \in Nat, NEW l \in Layers
  PROVE  /\ Split(p)[l] \in SUBSET Experts
         /\ \A h \in Split(p)[l], e \in Experts \ Split(p)[l] : r[l][e] <= r[l][h]
<1>1. PICK i \in DOMAIN p : p[i].layer = l
  BY DEF Ranks
<1>2. RowRanks(p[i], r[l])
  BY <1>1 DEF Ranks
<1>3. Split(p)[l] = {p[a[1]].ranked[a[2]] : a \in {x \in Kept(p) : p[x[1]].layer = l}}
  BY DEF Split
<1>4. \A a \in Kept(p) : p[a[1]].layer = l => a[1] = i /\ a[2] \in 1 .. E /\ a = <<i, a[2]>>
  BY <1>1 DEF Kept, Pairs, Ranks
<1>5. ASSUME NEW h PROVE h \in Split(p)[l] <=> \E k \in 1 .. E : <<i, k>> \in Kept(p) /\ h = p[i].ranked[k]
  <2>1. ASSUME h \in Split(p)[l] PROVE \E k \in 1 .. E : <<i, k>> \in Kept(p) /\ h = p[i].ranked[k]
    <3>1. PICK a \in Kept(p) : p[a[1]].layer = l /\ h = p[a[1]].ranked[a[2]]
      BY <1>3, <2>1
    <3> QED BY <1>4, <3>1
  <2>2. ASSUME NEW k \in 1 .. E, <<i, k>> \in Kept(p), h = p[i].ranked[k] PROVE h \in Split(p)[l]
    <3> DEFINE a == <<i, k>>
    <3>1. a[1] = i /\ a[2] = k /\ a \in Kept(p)
      BY <2>2
    <3> QED BY <1>1, <1>3, <2>2, <3>1
  <2> QED BY <2>1, <2>2
<1>6. Split(p)[l] \in SUBSET Experts
  <2>1. p[i].ranked \in [1 .. E -> Experts]
    BY <1>2 DEF RowRanks
  <2>2. ASSUME NEW h \in Split(p)[l] PROVE h \in Experts
    <3>1. PICK k \in 1 .. E : h = p[i].ranked[k]
      BY <1>5
    <3> QED BY <2>1, <3>1
  <2> QED BY <2>2
<1>7. ASSUME NEW h \in Split(p)[l], NEW e \in Experts \ Split(p)[l] PROVE r[l][e] <= r[l][h]
  <2>1. PICK k \in 1 .. E : <<i, k>> \in Kept(p) /\ h = p[i].ranked[k]
    BY <1>5
  <2>2. PICK j \in 1 .. E : e = p[i].ranked[j]
    BY <1>2 DEF RowRanks
  <2>3. <<i, j>> \notin Kept(p)
    BY <1>5, <2>2
  <2>4. ~ (j < k)
    <3> SUFFICES ASSUME j < k PROVE FALSE
      OBVIOUS
    <3>1. Ahead(p, <<i, j>>, <<i, k>>) /\ <<i, j>> \in Pairs(p)
      BY RowInOrder DEF Pairs
    <3> QED BY <2>1, <2>3, <3>1, KeptFromTheTop
  <2>5. k <= j
    BY <2>4, ExpertsCounted
  <2>6. p[i].counts[k] >= p[i].counts[j] /\ p[i].counts[k] = r[l][h] /\ p[i].counts[j] = r[l][e]
    BY <1>2, <2>1, <2>2, <2>5 DEF RowRanks
  <2>7. p[i].counts[k] \in Nat /\ p[i].counts[j] \in Nat
    BY <1>2 DEF RowRanks
  <2> QED BY <2>6, <2>7
<1> QED BY <1>6, <1>7

----------------------------------------------------------------------------
(* The invariant: the file is what the script makes of the routings, the   *)
(* hot sets are the split of it, a layer's tables are made of both.        *)

HotInv ==
  /\ routings \in Routings /\ budget \in Nat
  /\ profile # <<>> => profile = ProfileOf(routings)
  /\ hot # <<>> =>
       /\ profile = ProfileOf(routings)
       /\ hot = [l \in Layers |-> ById(Split(profile)[l])]
  /\ \A l \in DOMAIN built : built[l] # <<>> =>
       /\ hot # <<>> /\ l \in Layers /\ Len(hot[l]) \notin {0, E}
       /\ built[l] = <<BuildLru(l)>>

LEMMA HotInvHolds == HotSpec => []HotInv
<1>1. HotInit => HotInv
  <2> SUFFICES ASSUME HotInit PROVE HotInv
    OBVIOUS
  <2>1. budget \in Nat
    BY HotAssumption DEF HotInit
  <2>2. DOMAIN built = {}
    BY DEF HotInit
  <2> QED BY <2>1, <2>2 DEF HotInit, HotInv
<1>2. HotInv /\ [HotNext]_hotVars => HotInv'
  <2> SUFFICES ASSUME HotInv, [HotNext]_hotVars PROVE HotInv'
    OBVIOUS
  <2>0. ASSUME profile' = profile, hot' = hot, NEW l PROVE BuildLru(l)' = BuildLru(l)
    BY <2>0 DEF BuildLru, Stamp, RankOf, Entry
  <2>00. ASSUME profile' = profile, budget' = budget PROVE Split(profile)' = Split(profile)
    BY <2>00 DEF Split, Kept, Pairs
  <2>1. CASE BuildProfile
    <3>1. profile' = ProfileOf(routings)
      BY <2>1 DEF BuildProfile, ProfileOf
    <3>2. hot # <<>> => profile' = profile
      BY <3>1 DEF HotInv
    <3>3. hot # <<>> => Split(profile)' = Split(profile)
      BY <2>1, <2>00, <3>2 DEF BuildProfile
    <3>4. \A l \in DOMAIN built : built[l] # <<>> => BuildLru(l)' = BuildLru(l)
      BY <2>0, <2>1, <3>2 DEF BuildProfile, HotInv
    <3>5. ProfileOf(routings)' = ProfileOf(routings) /\ UNCHANGED <<routings, budget, hot, built>>
      BY <2>1 DEF BuildProfile, ProfileOf
    <3> QED BY <3>1, <3>2, <3>3, <3>4, <3>5 DEF HotInv
  <2>2. CASE WaterFill
    <3>1. UNCHANGED <<routings, budget, profile, built>> /\ profile # <<>> /\ hot = <<>>
          /\ hot' = [l \in Layers |-> ById(Split(profile)[l])]
      BY <2>2 DEF WaterFill
    <3>2. Split(profile)' = Split(profile) /\ ProfileOf(routings)' = ProfileOf(routings)
      BY <2>00, <3>1 DEF ProfileOf
    <3>3. \A l \in DOMAIN built : built[l] = <<>>
      BY <3>1 DEF HotInv
    <3> QED BY <3>1, <3>2, <3>3 DEF HotInv
  <2>3. ASSUME NEW k \in Layers \cup {Len(FileOrder)}, BuildHot(k) PROVE HotInv'
    <3>1. UNCHANGED <<routings, budget, profile, hot>> /\ hot # <<>>
      BY <2>3 DEF BuildHot
    <3>2. Split(profile)' = Split(profile) /\ ProfileOf(routings)' = ProfileOf(routings)
      BY <2>00, <3>1 DEF ProfileOf
    <3>3. ASSUME NEW l \in DOMAIN built', built'[l] # <<>>
          PROVE  l \in Layers /\ Len(hot[l]) \notin {0, E} /\ built'[l] = <<BuildLru(l)>>
      <4>1. CASE l # k
        <5>1. l \in DOMAIN built /\ built'[l] = built[l]
          BY <2>3, <3>3, <4>1 DEF BuildHot
        <5> QED BY <3>3, <5>1 DEF HotInv
      <4>2. CASE l = k
        BY <2>3, <3>3, <4>2 DEF BuildHot
      <4> QED BY <4>1, <4>2
    <3>4. \A l : BuildLru(l)' = BuildLru(l)
      BY <2>0, <3>1
    <3>5. \A l \in DOMAIN built' : built'[l] # <<>> =>
            /\ hot' # <<>> /\ l \in Layers /\ Len(hot'[l]) \notin {0, E}
            /\ built'[l] = <<BuildLru(l)'>>
      BY <3>1, <3>3, <3>4
    <3> QED BY <3>1, <3>2, <3>5 DEF HotInv
  <2>4. CASE UNCHANGED hotVars
    <3>1. UNCHANGED <<routings, budget, profile, hot, built>>
      BY <2>4 DEF hotVars
    <3>2. Split(profile)' = Split(profile) /\ ProfileOf(routings)' = ProfileOf(routings)
      BY <2>00, <3>1 DEF ProfileOf
    <3>3. \A l : BuildLru(l)' = BuildLru(l)
      BY <2>0, <3>1
    <3> QED BY <3>1, <3>2, <3>3 DEF HotInv
  <2> QED BY <2>1, <2>2, <2>3, <2>4 DEF HotNext
<1> QED BY <1>1, <1>2, PTL DEF HotSpec

----------------------------------------------------------------------------
(* A layer's tables.                                                       *)

(* Places in the order of the ranks: S first, and every stamp once. *)
LEMMA StampsFollowRanks ==
  ASSUME NEW S \in Nat, NEW key, KeyOf(1 .. S, key),
         NEW stamp, stamp = [s \in 0 .. S-1 |-> S - Rank(1 .. S, key, s + 1)]
  PROVE  /\ stamp \in [0 .. S-1 -> 1 .. S]
         /\ \A s, q \in 0 .. S-1 : stamp[s] = stamp[q] => s = q
         /\ \A s, q \in 0 .. S-1 : stamp[s] < stamp[q] => key[q + 1] < key[s + 1]
<1>1. IsFiniteSet(1 .. S) /\ Cardinality(1 .. S) = S
  BY FS_Interval
<1>2. /\ \A x \in 1 .. S : Rank(1 .. S, key, x) \in 0 .. S-1
      /\ \A x, y \in 1 .. S : Rank(1 .. S, key, x) = Rank(1 .. S, key, y) => x = y
  BY <1>1, RankBijective
<1>3. \A s \in 0 .. S-1 : s + 1 \in 1 .. S
  OBVIOUS
<1>4. \A s \in 0 .. S-1 : stamp[s] = S - Rank(1 .. S, key, s + 1)
  OBVIOUS
<1>5. stamp \in [0 .. S-1 -> 1 .. S]
  BY <1>2, <1>3
<1>6. ASSUME NEW s \in 0 .. S-1, NEW q \in 0 .. S-1
      PROVE  /\ stamp[s] = stamp[q] => s = q
             /\ stamp[s] < stamp[q] => key[q + 1] < key[s + 1]
  <2> DEFINE x == s + 1
             y == q + 1
  <2>1. x \in 1 .. S /\ y \in 1 .. S
    BY <1>3
  <2>2. stamp[s] = S - Rank(1 .. S, key, x) /\ stamp[q] = S - Rank(1 .. S, key, y)
    BY <1>4
  <2>3. x = y => s = q
    OBVIOUS
  <2> HIDE DEF x, y
  <2>4. Rank(1 .. S, key, x) \in Nat /\ Rank(1 .. S, key, y) \in Nat
        /\ key[x] \in Int /\ key[y] \in Int
    BY <1>2, <2>1 DEF KeyOf
  <2>5. stamp[s] = stamp[q] => s = q
    <3>1. stamp[s] = stamp[q] => Rank(1 .. S, key, x) = Rank(1 .. S, key, y)
      BY <2>2, <2>4
    <3> QED BY <1>2, <2>1, <2>3, <3>1
  <2>6. stamp[s] < stamp[q] => key[y] < key[x]
    <3> SUFFICES ASSUME stamp[s] < stamp[q], ~ (key[y] < key[x]) PROVE FALSE
      OBVIOUS
    <3>1. Rank(1 .. S, key, y) < Rank(1 .. S, key, x)
      BY <2>2, <2>4
    <3>2. x # y
      BY <2>4, <3>1
    <3>3. key[x] < key[y]
      BY <2>1, <2>4, <3>2 DEF KeyOf
    <3>4. Rank(1 .. S, key, x) < Rank(1 .. S, key, y)
      BY <1>1, <2>1, <3>3, RankMonotone
    <3> QED BY <2>4, <3>1, <3>4
  <2> QED BY <2>5, <2>6 DEF x, y
<1> QED BY <1>5, <1>6

LEMMA MinOfTwo ==
  ASSUME NEW a \in Nat, NEW b \in Nat
  PROVE  Min({a, b}) \in {a, b} /\ Min({a, b}) <= a /\ Min({a, b}) <= b
<1>1. {a, b} \in SUBSET Nat /\ {a, b} # {}
  OBVIOUS
<1> QED BY <1>1, MinIsLeast

LEMMA MaxOfTwo ==
  ASSUME NEW a \in Nat, NEW b \in Nat
  PROVE  Max({a, b}) \in {a, b} /\ Max({a, b}) >= a /\ Max({a, b}) >= b
<1>1. \E x \in {a, b} : \A y \in {a, b} : x >= y
  <2>1. CASE a >= b
    BY <2>1
  <2>2. CASE b >= a
    BY <2>2
  <2> QED BY <2>1, <2>2
<1> QED BY <1>1 DEF Max

(* The tables of a layer of S slots, some experts but not all. *)
Fits(l, c, S) ==
  /\ S \in 1 .. E-1 /\ c.S = S
  /\ c.slot_expert \in [0 .. S-1 -> Experts]
  /\ \A s, q \in 0 .. S-1 : s < q => c.slot_expert[s] < c.slot_expert[q]
  /\ \A s \in 0 .. S-1 : c.slot_expert[s] \in Split(profile)[l]
  /\ \A e \in Split(profile)[l] : \E s \in 0 .. S-1 : c.slot_expert[s] = e
  /\ c.table = [e \in Experts |->
                  IF \E s \in 0 .. S-1 : c.slot_expert[s] = e
                    THEN CHOOSE s \in 0 .. S-1 : c.slot_expert[s] = e
                    ELSE -1]
  /\ c.map_cold = [e \in Experts |-> IF c.table[e] = -1 THEN e ELSE -1]
  /\ c.slot_stamp = [s \in 0 .. S-1 |-> Stamp(l, s + 1)]
  /\ c.step = S /\ c.n_miss = 0
  /\ c.max_inserts \in 1 .. S /\ c.max_distinct \in 1 .. E
  /\ c.miss = [j \in 0 .. c.max_inserts-1 |-> <<-1, -1>>]

LEMMA TablesFit ==
  ASSUME HotInv, NEW l \in Layers, hot # <<>>, Len(hot[l]) \notin {0, E},
         NEW c, c = BuildLru(l), NEW S, S = Len(hot[l])
  PROVE  Fits(l, c, S)
<1> DEFINE V == Split(profile)[l]
           h == hot[l]
           cap == Min({MaxInsertsEnv, S})
           Place(e) == {s \in 0 .. S-1 : h[s + 1] = e}
           map_hot == [e \in Experts |-> IF Place(e) # {} THEN CHOOSE s \in Place(e) : TRUE ELSE -1]
<1>1. h = ById(V) /\ Ranks(profile, routings) /\ routings \in Routings /\ budget \in Nat
  BY ProfileRanks DEF HotInv
<1>2. V \in SUBSET Experts
  BY <1>1, SplitIsHottest
<1> HIDE DEF V, h
<1>3. /\ Cardinality(V) \in Nat /\ Len(h) = Cardinality(V) /\ Cardinality(V) <= E
      /\ \A i \in 1 .. Cardinality(V) : h[i] \in V
      /\ \A x \in V : \E i \in 1 .. Cardinality(V) : h[i] = x
      /\ \A i, j \in 1 .. Cardinality(V) : i < j => h[i] < h[j]
  BY <1>1, <1>2, IdsAscend
<1>4. S = Cardinality(V) /\ S \in 1 .. E-1 /\ S \in Nat \ {0}
  BY <1>3, ExpertsCounted DEF h
<1>5. /\ \A i \in 1 .. S : h[i] \in V
      /\ \A x \in V : \E i \in 1 .. S : h[i] = x
      /\ \A i, j \in 1 .. S : i < j => h[i] < h[j]
  BY <1>3, <1>4
<1>6. /\ c.S = S /\ c.table = map_hot
      /\ c.map_cold = [e \in Experts |-> IF map_hot[e] >= 0 THEN -1 ELSE e]
      /\ c.slot_expert = [s \in 0 .. S-1 |-> h[s + 1]]
      /\ c.slot_stamp = [s \in 0 .. S-1 |-> Stamp(l, s + 1)]
      /\ c.step = S /\ c.miss = [j \in 0 .. cap-1 |-> <<-1, -1>>] /\ c.n_miss = 0
      /\ c.max_distinct = Max({1, S \div Thresh}) /\ c.max_inserts = cap
  BY DEF BuildLru, h
<1>7. \A s \in 0 .. S-1 : s + 1 \in 1 .. S /\ c.slot_expert[s] = h[s + 1]
  BY <1>4, <1>6
<1>8. \A s \in 0 .. S-1 : c.slot_expert[s] \in V
  BY <1>5, <1>7
<1>9. c.slot_expert \in [0 .. S-1 -> Experts]
  BY <1>2, <1>6, <1>7, <1>8
<1>10. \A s, q \in 0 .. S-1 : s < q => c.slot_expert[s] < c.slot_expert[q]
  <2> TAKE s, q \in 0 .. S-1
  <2>1. s + 1 \in 1 .. S /\ q + 1 \in 1 .. S /\ (s < q => s + 1 < q + 1)
    BY <1>4
  <2> QED BY <1>5, <1>7, <2>1
<1>11. \A e \in V : \E s \in 0 .. S-1 : c.slot_expert[s] = e
  <2> TAKE e \in V
  <2>1. PICK i \in 1 .. S : h[i] = e
    BY <1>5
  <2>2. i - 1 \in 0 .. S-1 /\ (i - 1) + 1 = i
    BY <1>4
  <2> QED BY <1>7, <2>1, <2>2
<1>12. \A s, q \in 0 .. S-1 : c.slot_expert[s] = c.slot_expert[q] => s = q
  <2> SUFFICES ASSUME NEW s \in 0 .. S-1, NEW q \in 0 .. S-1, c.slot_expert[s] = c.slot_expert[q], s # q
               PROVE  FALSE
    OBVIOUS
  <2>1. c.slot_expert[s] \in Int /\ c.slot_expert[q] \in Int
    BY <1>9, ExpertsCounted DEF Experts
  <2>2. s < q \/ q < s
    BY <1>4
  <2> QED BY <1>10, <2>1, <2>2
<1>13. ASSUME NEW e \in Experts
       PROVE  /\ map_hot[e] = IF \E s \in 0 .. S-1 : c.slot_expert[s] = e
                                THEN CHOOSE s \in 0 .. S-1 : c.slot_expert[s] = e ELSE -1
              /\ map_hot[e] \in -1 .. S-1
  <2>0. Place(e) = {s \in 0 .. S-1 : c.slot_expert[s] = e}
    BY <1>7
  <2>1. map_hot[e] = IF Place(e) # {} THEN CHOOSE s \in Place(e) : TRUE ELSE -1
    OBVIOUS
  <2> HIDE DEF map_hot, Place
  <2>2. CASE \E s \in 0 .. S-1 : c.slot_expert[s] = e
    <3>1. PICK s \in 0 .. S-1 : c.slot_expert[s] = e
      BY <2>2
    <3>2. Place(e) = {s}
      BY <1>12, <2>0, <3>1
    <3>3. (CHOOSE q \in Place(e) : TRUE) = s
      BY <3>2
    <3>4. (CHOOSE q \in 0 .. S-1 : c.slot_expert[q] = e) = s
      BY <1>12, <3>1
    <3>5. map_hot[e] = s
      BY <2>1, <3>2, <3>3
    <3> QED BY <1>4, <2>2, <3>4, <3>5
  <2>3. CASE ~ \E s \in 0 .. S-1 : c.slot_expert[s] = e
    <3>1. Place(e) = {}
      BY <2>0, <2>3
    <3>2. map_hot[e] = -1
      BY <2>1, <3>1
    <3> QED BY <1>4, <2>3, <3>2
  <2> QED BY <2>2, <2>3
<1>14. map_hot = [e \in Experts |-> map_hot[e]]
  OBVIOUS
<1> HIDE DEF map_hot
<1>15. c.table = [e \in Experts |->
                    IF \E s \in 0 .. S-1 : c.slot_expert[s] = e
                      THEN CHOOSE s \in 0 .. S-1 : c.slot_expert[s] = e ELSE -1]
  BY <1>6, <1>13, <1>14
<1>16. c.map_cold = [e \in Experts |-> IF c.table[e] = -1 THEN e ELSE -1]
  <2>1. \A e \in Experts : map_hot[e] >= 0 <=> map_hot[e] # -1
    BY <1>4, <1>13
  <2> QED BY <1>6, <2>1
<1>17. cap \in 1 .. S
  <2>1. MaxInsertsEnv \in Nat \ {0}
    BY HotAssumption
  <2>2. cap \in {MaxInsertsEnv, S} /\ cap <= S
    BY <1>4, <2>1, MinOfTwo
  <2> QED BY <1>4, <2>1, <2>2
<1>18. c.max_distinct \in 1 .. E
  <2>1. Thresh \in Nat \ {0}
    BY HotAssumption
  <2> DEFINE d == S \div Thresh
  <2>2. d \in Nat /\ d <= S
    <3>1. d \in Nat /\ d * Thresh <= S
      BY <1>4, <2>1, QuotientBounds
    <3> HIDE DEF d
    <3>2. d * 1 <= d * Thresh /\ d * Thresh \in Nat
      <4>1. PICK t \in Nat : Thresh = 1 + t
        <5>1. Thresh - 1 \in Nat /\ Thresh = 1 + (Thresh - 1)
          BY <2>1
        <5> QED BY <5>1
      <4>2. d * (1 + t) = d + d * t /\ d * t \in Nat
        BY <3>1
      <4> QED BY <3>1, <4>1, <4>2
    <3> QED BY <1>4, <3>1, <3>2
  <2> HIDE DEF d
  <2>3. Max({1, d}) \in {1, d} /\ Max({1, d}) >= 1
    BY <2>2, MaxOfTwo
  <2>4. c.max_distinct = Max({1, d})
    BY <1>6 DEF d
  <2>5. Max({1, d}) \in Nat /\ Max({1, d}) <= E
    BY <1>4, <2>2, <2>3, ExpertsCounted
  <2> QED BY <2>3, <2>4, <2>5, ExpertsCounted
<1> QED BY <1>4, <1>6, <1>8, <1>9, <1>10, <1>11, <1>15, <1>16, <1>17, <1>18 DEF V, Fits

(* The places of the experts in the profile tell them apart. *)
LEMMA RanksOfLayer ==
  ASSUME HotInv, hot # <<>>, NEW l \in Layers
  PROVE  /\ \A e \in Experts : RankOf(l, e) \in 1 .. E
         /\ \A e, f \in Experts : RankOf(l, e) = RankOf(l, f) => e = f
         /\ \A e, f \in Experts : RankOf(l, e) <= RankOf(l, f) => routings[l][e] >= routings[l][f]
<1>1. Ranks(profile, routings) /\ routings \in Routings
  BY ProfileRanks DEF HotInv
<1>2. Entry(l) \in DOMAIN profile /\ profile[Entry(l)].layer = l
  BY <1>1 DEF Ranks, Entry
<1> DEFINE x == profile[Entry(l)]
<1>3. RowRanks(x, routings[l])
  BY <1>1, <1>2 DEF Ranks
<1>4. \A e \in Experts : RankOf(l, e) \in 1 .. E /\ x.ranked[RankOf(l, e)] = e
  <2> TAKE e \in Experts
  <2>1. \E j \in 1 .. E : x.ranked[j] = e
    BY <1>3 DEF RowRanks
  <2>2. RankOf(l, e) = CHOOSE j \in 1 .. E : x.ranked[j] = e
    BY DEF RankOf
  <2> HIDE DEF x
  <2> QED BY <2>1, <2>2
<1>5. ASSUME NEW e \in Experts, NEW f \in Experts, RankOf(l, e) <= RankOf(l, f)
      PROVE  routings[l][e] >= routings[l][f]
  <2> DEFINE j == RankOf(l, e)
             k == RankOf(l, f)
  <2>1. j \in 1 .. E /\ k \in 1 .. E /\ j <= k /\ x.ranked[j] = e /\ x.ranked[k] = f
    BY <1>4, <1>5
  <2> HIDE DEF x, j, k
  <2>2. x.counts[j] >= x.counts[k] /\ x.counts[j] = routings[l][e] /\ x.counts[k] = routings[l][f]
    BY <1>3, <2>1 DEF RowRanks
  <2> QED BY <2>2
<1> HIDE DEF x
<1> QED BY <1>4, <1>5

(* What is built is a warm start. *)
LEMMA BuiltIsWarm == HotInv => WarmStart
<1> SUFFICES ASSUME HotInv, NEW l \in Layers \cap DOMAIN built, built[l] # <<>>
             PROVE  LET c == built[l][1]
                        At(s) == routings[l][c.slot_expert[s]]
                    IN /\ MayStart(l)
                       /\ \A s \in DOMAIN c.slot_expert :
                            /\ \A e \in Experts : c.table[e] = -1 => routings[l][e] <= At(s)
                            /\ \A q \in DOMAIN c.slot_expert : c.slot_stamp[s] < c.slot_stamp[q] => At(s) <= At(q)
  BY DEF WarmStart
<1> DEFINE c == built[l][1]
           At(s) == routings[l][c.slot_expert[s]]
           S == Len(hot[l])
           V == Split(profile)[l]
           key == [i \in 1 .. S |-> RankOf(l, hot[l][i])]
<1>1. hot # <<>> /\ l \in Layers /\ S \notin {0, E} /\ c = BuildLru(l)
  BY DEF HotInv
<1> HIDE DEF c, S
<1>0. Fits(l, c, S)
  BY <1>1, TablesFit DEF S
<1>2. /\ S \in 1 .. E-1 /\ c.S = S
      /\ c.slot_expert \in [0 .. S-1 -> Experts]
      /\ \A s, q \in 0 .. S-1 : s < q => c.slot_expert[s] < c.slot_expert[q]
      /\ \A s \in 0 .. S-1 : c.slot_expert[s] \in V
      /\ \A e \in V : \E s \in 0 .. S-1 : c.slot_expert[s] = e
      /\ c.table = [e \in Experts |->
                      IF \E s \in 0 .. S-1 : c.slot_expert[s] = e
                        THEN CHOOSE s \in 0 .. S-1 : c.slot_expert[s] = e
                        ELSE -1]
      /\ c.map_cold = [e \in Experts |-> IF c.table[e] = -1 THEN e ELSE -1]
      /\ c.slot_stamp = [s \in 0 .. S-1 |-> Stamp(l, s + 1)]
      /\ c.step = S /\ c.n_miss = 0
      /\ c.max_inserts \in 1 .. S /\ c.max_distinct \in 1 .. E
      /\ c.miss = [j \in 0 .. c.max_inserts-1 |-> <<-1, -1>>]
  BY <1>0 DEF Fits
<1>3. S \in Nat
  BY <1>2
<1>4. /\ S = Cardinality(V) /\ DOMAIN hot[l] = 1 .. S /\ V \in SUBSET Experts
      /\ \A i \in 1 .. S : hot[l][i] \in V
      /\ \A i, j \in 1 .. S : hot[l][i] = hot[l][j] => i = j
  <2>1. hot[l] = ById(V) /\ Ranks(profile, routings) /\ routings \in Routings /\ budget \in Nat
    BY <1>1, ProfileRanks DEF HotInv
  <2>2. V \in SUBSET Experts
    BY <2>1, SplitIsHottest
  <2> HIDE DEF V
  <2>3. /\ Len(hot[l]) = Cardinality(V) /\ DOMAIN hot[l] = 1 .. Cardinality(V)
        /\ \A i \in 1 .. Cardinality(V) : hot[l][i] \in V
        /\ \A i, j \in 1 .. Cardinality(V) : i < j => hot[l][i] < hot[l][j]
    BY <2>1, <2>2, IdsAscend
  <2>4. S = Cardinality(V)
    BY <2>3 DEF S
  <2>5. ASSUME NEW i \in 1 .. S, NEW j \in 1 .. S, hot[l][i] = hot[l][j] PROVE i = j
    <3>0. Experts \subseteq Int
      BY ExpertsCounted DEF Experts
    <3>1. hot[l][i] \in Int /\ hot[l][j] \in Int
      BY <2>2, <2>3, <2>4, <3>0
    <3>2. ~ (i < j) /\ ~ (j < i)
      BY <2>3, <2>4, <2>5, <3>1
    <3> QED BY <1>3, <3>2
  <2> QED BY <2>2, <2>3, <2>4, <2>5
<1> HIDE DEF V
<1>5. KeyOf(1 .. S, key)
  <2>1. \A i \in 1 .. S : key[i] = RankOf(l, hot[l][i]) /\ hot[l][i] \in Experts
    BY <1>4
  <2>2. \A i \in 1 .. S : key[i] \in Int
    BY <1>1, <2>1, RanksOfLayer, ExpertsCounted
  <2>3. \A i, j \in 1 .. S : key[i] = key[j] => i = j
    BY <1>1, <1>4, <2>1, RanksOfLayer
  <2>4. key = [i \in 1 .. S |-> key[i]]
    OBVIOUS
  <2> HIDE DEF key
  <2> QED BY <2>2, <2>3, <2>4 DEF KeyOf
<1>6. ASSUME NEW s \in 0 .. S-1 PROVE Stamp(l, s + 1) = S - Rank(1 .. S, key, s + 1)
  <2>1. s + 1 \in 1 .. S
    BY <1>3
  <2>2. {q \in DOMAIN hot[l] : RankOf(l, hot[l][q]) < RankOf(l, hot[l][s + 1])}
          = {q \in 1 .. S : key[q] < key[s + 1]}
    BY <1>4, <2>1
  <2> QED BY <2>2 DEF Stamp, Rank, S
<1>7. c.slot_stamp = [s \in 0 .. S-1 |-> S - Rank(1 .. S, key, s + 1)]
  BY <1>2, <1>6
<1>8. \A i \in 1 .. S : key[i] = RankOf(l, hot[l][i])
  OBVIOUS
<1> HIDE DEF key
<1>9. /\ c.slot_stamp \in [0 .. S-1 -> 1 .. S]
      /\ \A s, q \in 0 .. S-1 : c.slot_stamp[s] = c.slot_stamp[q] => s = q
      /\ \A s, q \in 0 .. S-1 : c.slot_stamp[s] < c.slot_stamp[q] => key[q + 1] < key[s + 1]
  BY <1>3, <1>5, <1>7, StampsFollowRanks
<1>10. \A s \in 0 .. S-1 : c.slot_expert[s] = hot[l][s + 1]
  BY <1>1 DEF BuildLru, S
<1>11. DOMAIN c.slot_expert = 0 .. S-1
  BY <1>2
<1>12. ASSUME NEW s \in 0 .. S-1, NEW e \in Experts, c.table[e] = -1
       PROVE  routings[l][e] <= At(s)
  <2>1. ~ \E q \in 0 .. S-1 : c.slot_expert[q] = e
    <3> SUFFICES ASSUME \E q \in 0 .. S-1 : c.slot_expert[q] = e PROVE FALSE
      OBVIOUS
    <3> DEFINE w == CHOOSE q \in 0 .. S-1 : c.slot_expert[q] = e
    <3>1. c.table[e] = w
      BY <1>2
    <3>2. w \in 0 .. S-1
      OBVIOUS
    <3> HIDE DEF w
    <3> QED BY <1>3, <1>12, <3>1, <3>2
  <2>2. e \in Experts \ V
    BY <1>2, <2>1
  <2>3. Ranks(profile, routings) /\ routings \in Routings /\ budget \in Nat
    BY <1>1, ProfileRanks DEF HotInv
  <2> QED BY <1>1, <1>2, <2>2, <2>3, SplitIsHottest DEF V
<1>13. ASSUME NEW s \in 0 .. S-1, NEW q \in 0 .. S-1, c.slot_stamp[s] < c.slot_stamp[q]
       PROVE  At(s) <= At(q)
  <2>1. s + 1 \in 1 .. S /\ q + 1 \in 1 .. S
    BY <1>3
  <2>2. key[q + 1] = RankOf(l, c.slot_expert[q]) /\ key[s + 1] = RankOf(l, c.slot_expert[s])
    BY <1>8, <1>10, <2>1
  <2>3. c.slot_expert[s] \in Experts /\ c.slot_expert[q] \in Experts
    BY <1>2
  <2>4. RankOf(l, c.slot_expert[q]) \in Int /\ RankOf(l, c.slot_expert[s]) \in Int
    BY <1>1, <2>3, RanksOfLayer, ExpertsCounted
  <2>5. RankOf(l, c.slot_expert[q]) <= RankOf(l, c.slot_expert[s])
    BY <1>9, <1>13, <2>2, <2>4
  <2>6. routings[l][c.slot_expert[q]] >= routings[l][c.slot_expert[s]]
    BY <1>1, <2>3, <2>5, RanksOfLayer
  <2>7. routings[l][c.slot_expert[q]] \in Nat /\ routings[l][c.slot_expert[s]] \in Nat
    BY <1>1, <2>3, HotAssumption DEF HotInv
  <2> QED BY <2>6, <2>7
<1>14. MayStart(l)
  <2>1. E \in Nat /\ E <= 1024
    <3>1. E \in 1 .. 1024
      BY HotAssumption
    <3> QED BY <3>1
  <2>2. PICK k \in 1 .. E-1, d \in 1 .. E, n \in 1 .. E :
          k = S /\ d = c.max_distinct /\ n = c.max_inserts
    <3>1. \A x \in 1 .. S : x \in 1 .. E
      BY <1>2, <2>1
    <3> QED BY <1>2, <3>1
  <2>3. /\ k \in Nat /\ 0 < k /\ k < E /\ k <= 1024 /\ d \in Nat \ {0} /\ n \in 0 .. k
        /\ n \in 1 .. E /\ d \in 1 .. E /\ k \in 1 .. E-1
    BY <1>2, <2>1, <2>2
  <2>4. Cache(l, k, d, n)!CacheAssumption
    BY <2>1, <2>3 DEF Cache!CacheAssumption, Cache!MAXS
  <2>5. Cache(l, k, d, n)!Init
    <3>1. c.slot_expert \in [0 .. k-1 -> 0 .. E-1]
          /\ \A s, q \in 0 .. k-1 : s < q => c.slot_expert[s] < c.slot_expert[q]
      BY <1>2, <2>2 DEF Experts
    <3>2. c.slot_stamp \in [0 .. k-1 -> 0 .. k]
          /\ \A s, q \in 0 .. k-1 : c.slot_stamp[s] > 0 /\ (c.slot_stamp[s] = c.slot_stamp[q] => s = q)
      BY <1>3, <1>9, <2>2
    <3>3. /\ c.table = [e \in 0 .. E-1 |->
                          IF \E s \in 0 .. k-1 : c.slot_expert[s] = e
                            THEN CHOOSE s \in 0 .. k-1 : c.slot_expert[s] = e ELSE -1]
          /\ c.map_cold = [e \in 0 .. E-1 |-> IF c.table[e] = -1 THEN e ELSE -1]
      BY <1>2, <2>2 DEF Experts
    <3>4. c.step = k /\ c.n_miss = 0 /\ c.miss = [j \in 0 .. n-1 |-> <<-1, -1>>]
      BY <1>2, <2>2
    <3> QED BY <3>1, <3>2, <3>3, <3>4
            DEF Cache!Init, Cache!Slots, Cache!Experts, Cache!Entries, Cache!None, Cache!Increasing, c
  <2>6. c.S = k /\ d = c.max_distinct /\ n = c.max_inserts
    BY <1>2, <2>2
  <2> QED BY <2>3, <2>4, <2>5, <2>6 DEF MayStart, c
<1> QED BY <1>11, <1>12, <1>13, <1>14 DEF c

(* What _build_lru makes of a layer is a state the cache may start in, it  *)
(* holds the experts this layer routed most, and the stamps give up the    *)
(* least routed of them first (_hot_sets, _build_lru, build_hot_profile).  *)
THEOREM StartsAreWarm == HotSpec => []WarmStart
BY HotInvHolds, BuiltIsWarm, PTL

----------------------------------------------------------------------------
(* The split over the layers.                                              *)

(* Sets that a function maps one to one onto each other are of one size. *)
LEMMA SameSize ==
  ASSUME NEW A, NEW B, IsFiniteSet(A), NEW f \in [A -> B],
         \A x, y \in A : f[x] = f[y] => x = y,
         \A y \in B : \E x \in A : f[x] = y
  PROVE  IsFiniteSet(B) /\ Cardinality(B) = Cardinality(A)
<1>1. f \in Injection(A, B) /\ f \in Surjection(A, B)
  BY Fun_IsInj, Fun_IsSurj
<1> QED BY <1>1, FS_Surjection

(* How many are ahead of a pair; the budget keeps those with few. *)
Place(p) == [a \in Pairs(p) |-> Cardinality({b \in Pairs(p) : Ahead(p, b, a)})]

LEMMA PlacesAreRanks ==
  ASSUME NEW r \in Routings, NEW p, Ranks(p, r)
  PROVE  /\ KeyOf(Pairs(p), Place(p))
         /\ \A a, b \in Pairs(p) : Ahead(p, a, b) <=> Place(p)[a] < Place(p)[b]
         /\ \A a \in Pairs(p) : Rank(Pairs(p), Place(p), a) = Place(p)[a]
<1> DEFINE A(x) == {y \in Pairs(p) : Ahead(p, y, x)}
<1>1. ASSUME NEW a \in Pairs(p) PROVE IsFiniteSet(A(a)) /\ Place(p)[a] = Cardinality(A(a)) /\ Place(p)[a] \in Nat
  <2>1. IsFiniteSet(A(a))
    BY PairsFinite, FS_Subset
  <2>2. Place(p)[a] = Cardinality(A(a))
    BY DEF Place
  <2> QED BY <2>1, <2>2, FS_CardinalityType
<1>2. ASSUME NEW a \in Pairs(p), NEW b \in Pairs(p), Ahead(p, a, b)
      PROVE  Place(p)[a] < Place(p)[b]
  <2>1. A(a) \in SUBSET A(b) /\ a \in A(b) /\ a \notin A(a)
    BY <1>2, AheadOrders
  <2>2. Cardinality(A(a)) <= Cardinality(A(b)) /\ (Cardinality(A(a)) = Cardinality(A(b)) => A(a) = A(b))
    BY <1>1, <2>1, FS_Subset
  <2>3. Cardinality(A(a)) # Cardinality(A(b))
    BY <2>1, <2>2
  <2> QED BY <1>1, <2>2, <2>3
<1>3. \A a, b \in Pairs(p) : Ahead(p, a, b) <=> Place(p)[a] < Place(p)[b]
  <2> SUFFICES ASSUME NEW a \in Pairs(p), NEW b \in Pairs(p), Place(p)[a] < Place(p)[b]
               PROVE  Ahead(p, a, b)
    BY <1>2
  <2>1. Place(p)[a] \in Nat /\ Place(p)[b] \in Nat
    BY <1>1
  <2>2. a # b /\ ~ Ahead(p, b, a)
    BY <1>2, <2>1
  <2> QED BY <2>2, AheadOrders
<1>4. KeyOf(Pairs(p), Place(p))
  <2>1. ASSUME NEW a \in Pairs(p) PROVE Place(p)[a] \in Int
    <3>1. Place(p)[a] \in Nat
      BY <1>1
    <3> QED BY <3>1
  <2>2. ASSUME NEW a \in Pairs(p), NEW b \in Pairs(p), Place(p)[a] = Place(p)[b] PROVE a = b
    <3>1. Place(p)[a] \in Nat
      BY <1>1
    <3>2. ~ Ahead(p, a, b) /\ ~ Ahead(p, b, a)
      BY <1>3, <2>2, <3>1
    <3> QED BY <3>2, AheadOrders
  <2>3. Place(p) = [a \in Pairs(p) |-> Place(p)[a]]
    BY DEF Place
  <2> QED BY <2>1, <2>2, <2>3 DEF KeyOf
<1>5. ASSUME NEW a \in Pairs(p) PROVE Rank(Pairs(p), Place(p), a) = Place(p)[a]
  <2>1. A(a) = {y \in Pairs(p) : Place(p)[y] < Place(p)[a]}
    BY <1>3
  <2> QED BY <1>1, <2>1 DEF Rank
<1> QED BY <1>3, <1>4, <1>5

(* The budget is spent to the last slot, unless everything is hot; and the *)
(* last pair it pays for is behind all the others.                         *)
Final(p) == CHOOSE a \in Kept(p) : \A b \in Kept(p) : a = b \/ Ahead(p, b, a)

LEMMA BudgetSpent ==
  ASSUME NEW r \in Routings, NEW p, Ranks(p, r), budget \in Nat
  PROVE  /\ IsFiniteSet(Kept(p)) /\ Kept(p) \in SUBSET Pairs(p)
         /\ Cardinality(Kept(p)) = IF budget < Cardinality(Pairs(p)) THEN budget ELSE Cardinality(Pairs(p))
         /\ budget >= Cardinality(Pairs(p)) => Kept(p) = Pairs(p)
         /\ Kept(p) # {} => Final(p) \in Kept(p) /\ \A b \in Kept(p) : b = Final(p) \/ Ahead(p, b, Final(p))
<1> DEFINE V == Pairs(p)
           N == Cardinality(V)
           key == Place(p)
<1>1. IsFiniteSet(V) /\ KeyOf(V, key) /\ \A a \in V : Rank(V, key, a) = key[a]
  BY PairsFinite, PlacesAreRanks
<1>2. \A a, b \in V : Ahead(p, a, b) <=> key[a] < key[b]
  BY PlacesAreRanks
<1>3. Kept(p) = {a \in V : key[a] < budget}
  BY DEF Kept, Place
<1> HIDE DEF V, key
<1>4. N \in Nat /\ \A a \in V : key[a] \in 0 .. N-1
  BY <1>1, RankBijective
<1>5. \A i \in 0 .. N-1 : \E a \in V : key[a] = i
  BY <1>1, RankBijective
<1>6. IsFiniteSet(Kept(p)) /\ Kept(p) \in SUBSET V
  BY <1>1, <1>3, FS_Subset
<1>7. budget >= N => Kept(p) = V
  BY <1>3, <1>4
<1>8. budget < N => Cardinality(Kept(p)) = budget
  <2> SUFFICES ASSUME budget < N PROVE Cardinality(Kept(p)) = budget
    OBVIOUS
  <2>1. PICK x \in V : key[x] = budget
    BY <1>4, <1>5
  <2>2. Kept(p) = {a \in V : key[a] < key[x]}
    BY <1>3, <2>1
  <2>3. Rank(V, key, x) = budget
    BY <1>1, <2>1
  <2> QED BY <2>2, <2>3 DEF Rank
<1>9. Cardinality(Kept(p)) = IF budget < N THEN budget ELSE N
  BY <1>4, <1>7, <1>8
<1>10. ASSUME Kept(p) # {}
       PROVE  Final(p) \in Kept(p) /\ \A b \in Kept(p) : b = Final(p) \/ Ahead(p, b, Final(p))
  <2> DEFINE m == IF budget < N THEN budget - 1 ELSE N - 1
  <2>1. PICK y \in V : key[y] < budget
    BY <1>3, <1>10
  <2>2. m \in 0 .. N-1 /\ m < budget
    BY <1>4, <2>1
  <2> HIDE DEF N
  <2>3. PICK x \in V : key[x] = m
    BY <1>5, <2>2
  <2> HIDE DEF m
  <2>4. x \in Kept(p)
    BY <1>3, <2>2, <2>3
  <2>5. ASSUME NEW b \in Kept(p) PROVE x = b \/ Ahead(p, b, x)
    <3>1. b \in V /\ key[b] < budget /\ key[b] \in 0 .. N-1
      BY <1>3, <1>4
    <3>2. key[b] <= m
      BY <1>4, <3>1 DEF m, N
    <3>3. key[b] = key[x] \/ key[b] < key[x]
      BY <2>2, <2>3, <3>1, <3>2
    <3>4. key[b] = key[x] => b = x
      BY <1>1, <3>1 DEF KeyOf
    <3> QED BY <1>2, <3>1, <3>3, <3>4
  <2>6. \E a \in Kept(p) : \A b \in Kept(p) : a = b \/ Ahead(p, b, a)
    BY <2>4, <2>5
  <2>7. /\ Final(p) \in Kept(p)
        /\ \A b \in Kept(p) : Final(p) = b \/ Ahead(p, b, Final(p))
    BY <2>6 DEF Final
  <2> QED BY <2>7
<1> QED BY <1>6, <1>7, <1>9, <1>10 DEF V

LEMMA LayersAddUp ==
  ASSUME NEW B, NEW k, NEW W,
         \A x \in Layers : IsFiniteSet(B[x]) /\ k[x] = Cardinality(B[x]),
         \A x, y \in Layers : x # y => B[x] \cap B[y] = {},
         UNION {B[x] : x \in Layers} = W
  PROVE  SumFunctionOnSet(k, Layers) = Cardinality(W)
<1>1. IsFiniteSet(Layers)
  BY Files, FS_Interval
<1>2. SumFunctionOnSet(k, Layers) = Cardinality(UNION {B[x] : x \in Layers})
  BY <1>1, SumOfSizes
<1> QED BY <1>2

(* Added up over the layers, the split is what is kept. *)
LEMMA SplitAddsUp ==
  ASSUME NEW r \in Routings, NEW p, Ranks(p, r), budget \in Nat,
         NEW f, \A l \in Layers : f[l] = Split(p)[l]
  PROVE  SumFunctionOnSet([l \in Layers |-> Cardinality(f[l])], Layers) = Cardinality(Kept(p))
<1> DEFINE A == [l \in Layers |-> {a \in Kept(p) : p[a[1]].layer = l}]
           g == [l \in Layers |-> Cardinality(f[l])]
<1>1. IsFiniteSet(Kept(p)) /\ Kept(p) \in SUBSET Pairs(p)
  BY BudgetSpent
<1>2. IsFiniteSet(Layers)
  BY Files, FS_Interval
<1>3. ASSUME NEW l \in Layers PROVE IsFiniteSet(A[l]) /\ g[l] = Cardinality(A[l])
  <2> DEFINE W == A[l]
             h == [a \in W |-> p[a[1]].ranked[a[2]]]
             B == {p[a[1]].ranked[a[2]] : a \in W}
  <2>1. W = {a \in Kept(p) : p[a[1]].layer = l} /\ Split(p)[l] = B
    BY DEF Split
  <2>2. IsFiniteSet(W)
    BY <1>1, <2>1, FS_Subset
  <2>3. \A x, y \in W : h[x] = h[y] => x = y
    <3> SUFFICES ASSUME NEW x \in W, NEW y \in W, h[x] = h[y] PROVE x = y
      OBVIOUS
    <3>1. x \in Pairs(p) /\ y \in Pairs(p) /\ p[x[1]].layer = l /\ p[y[1]].layer = l
      BY <1>1, <2>1
    <3>2. x[1] \in DOMAIN p /\ x[2] \in 1 .. E /\ x = <<x[1], x[2]>>
          /\ y[1] \in DOMAIN p /\ y[2] \in 1 .. E /\ y = <<y[1], y[2]>>
      BY <3>1 DEF Pairs
    <3>3. x[1] = y[1]
      BY <3>1, <3>2 DEF Ranks
    <3>4. p[x[1]].ranked[x[2]] = p[x[1]].ranked[y[2]]
      BY <3>3
    <3>5. RowRanks(p[x[1]], r[p[x[1]].layer])
      BY <3>2 DEF Ranks
    <3>6. x[2] = y[2]
      BY <3>2, <3>4, <3>5 DEF RowRanks
    <3> QED BY <3>2, <3>3, <3>6
  <2>4. h \in [W -> B] /\ \A y \in B : \E x \in W : h[x] = y
    OBVIOUS
  <2> HIDE DEF W, h, B
  <2>5. Cardinality(B) = Cardinality(W)
    BY <2>2, <2>3, <2>4, SameSize
  <2>6. g[l] = Cardinality(B)
    BY <2>1
  <2> QED BY <2>2, <2>5, <2>6 DEF W
<1>4. \A x, y \in Layers : x # y => A[x] \cap A[y] = {}
  OBVIOUS
<1>5. UNION {A[l] : l \in Layers} = Kept(p)
  <2>1. \A a \in Kept(p) : p[a[1]].layer \in Layers
    <3> TAKE a \in Kept(p)
    <3>1. a[1] \in DOMAIN p
      BY <1>1 DEF Pairs
    <3> QED BY <3>1 DEF Ranks
  <2>2. \A a \in Kept(p) : a \in A[p[a[1]].layer]
    BY <2>1
  <2>3. \A l \in Layers : A[l] \in SUBSET Kept(p)
    OBVIOUS
  <2> HIDE DEF A
  <2> QED BY <2>1, <2>2, <2>3
<1> HIDE DEF A, g
<1>6. SumFunctionOnSet(g, Layers) = Cardinality(Kept(p))
  BY <1>3, <1>4, <1>5, LayersAddUp
<1> QED BY <1>6 DEF g

(* A pair that one order of the layers keeps and the other does not has    *)
(* the share of the last pair that is paid for.                            *)
LEMMA TieAtTheCut ==
  ASSUME NEW r \in Routings, NEW p, NEW q, Ranks(p, r), Ranks(q, r), budget \in Nat,
         NEW F \in [Pairs(p) -> Pairs(q)],
         \A x, y \in Pairs(p) : F[x] = F[y] => x = y,
         \A y \in Pairs(q) : \E x \in Pairs(p) : F[x] = y,
         \A x, y \in Pairs(p) : Share(q, F[x], F[y]) = Share(p, x, y),
         NEW a \in Pairs(p), (a \in Kept(p)) # (F[a] \in Kept(q))
  PROVE  Share(p, a, Final(p)) = Share(p, Final(p), a)
<1> DEFINE f == Final(p)
           D == {x \in Pairs(p) : Ahead(q, F[x], F[a])}
           AheadOfA == {y \in Pairs(q) : Ahead(q, y, F[a])}
<1>1. F[a] \in Pairs(q) /\ IsFiniteSet(Pairs(p)) /\ Cardinality(Pairs(p)) \in Nat
  BY PairsFinite, FS_CardinalityType
<1>2. /\ IsFiniteSet(D) /\ Cardinality(D) \in Nat /\ Cardinality(AheadOfA) = Cardinality(D)
      /\ F[a] \in Kept(q) <=> Cardinality(D) < budget
  <2> DEFINE h == [x \in D |-> F[x]]
  <2>1. IsFiniteSet(D) /\ Cardinality(D) \in Nat
    BY <1>1, FS_Subset, FS_CardinalityType
  <2>2. h \in [D -> AheadOfA] /\ (\A x, y \in D : h[x] = h[y] => x = y)
        /\ \A y \in AheadOfA : \E x \in D : h[x] = y
    OBVIOUS
  <2>3. F[a] \in Kept(q) <=> Cardinality(AheadOfA) < budget
    BY <1>1 DEF Kept
  <2> HIDE DEF D, AheadOfA, h
  <2>4. Cardinality(AheadOfA) = Cardinality(D)
    BY <2>1, <2>2, SameSize
  <2> QED BY <2>1, <2>3, <2>4
<1>3. /\ IsFiniteSet(Kept(p)) /\ Kept(p) \in SUBSET Pairs(p)
      /\ Cardinality(Kept(p)) = IF budget < Cardinality(Pairs(p)) THEN budget ELSE Cardinality(Pairs(p))
      /\ budget >= Cardinality(Pairs(p)) => Kept(p) = Pairs(p)
      /\ Kept(p) # {} => f \in Kept(p) /\ \A b \in Kept(p) : b = f \/ Ahead(p, b, f)
  BY BudgetSpent
<1>4. \A x, y \in Pairs(p) : Share(p, x, y) \in Nat
  BY AheadMeans
<1>5. \A x, y \in Pairs(p) : Ahead(p, x, y) => Share(p, x, y) >= Share(p, y, x)
  BY <1>4, AheadMeans
<1>6. ASSUME NEW x \in Pairs(p), NEW y \in Pairs(p)
      PROVE  /\ Share(p, x, y) > Share(p, y, x) => Ahead(q, F[x], F[y])
             /\ Ahead(q, F[x], F[y]) => Share(p, x, y) >= Share(p, y, x)
  <2>1. F[x] \in Pairs(q) /\ F[y] \in Pairs(q)
        /\ Share(q, F[x], F[y]) = Share(p, x, y) /\ Share(q, F[y], F[x]) = Share(p, y, x)
    OBVIOUS
  <2> QED BY <1>4, <2>1, AheadMeans
<1>7. CASE a \in Kept(p) /\ F[a] \notin Kept(q)
  <2> SUFFICES ASSUME Share(p, a, f) # Share(p, f, a) PROVE FALSE
    OBVIOUS
  <2>1. f \in Kept(p) /\ f \in Pairs(p) /\ a # f /\ Ahead(p, a, f)
    BY <1>3, <1>7
  <2>2. Share(p, a, f) > Share(p, f, a)
    BY <1>4, <1>5, <2>1
  <2> DEFINE B == {x \in Pairs(p) : Ahead(p, x, f)}
  <2>3. Cardinality(B) < budget
    BY <2>1 DEF Kept
  <2>4. D \in SUBSET B
    <3> SUFFICES ASSUME NEW x \in Pairs(p), Ahead(q, F[x], F[a]) PROVE Ahead(p, x, f)
      OBVIOUS
    <3>1. Share(p, x, a) >= Share(p, a, x) /\ Share(p, a, f) >= Share(p, f, a)
      BY <1>4, <1>6, <2>1, <2>2
    <3>2. Share(p, x, f) >= Share(p, f, x) /\ Share(p, x, f) # Share(p, f, x)
      <4>1. Share(p, a, f) # Share(p, f, a)
        BY <1>4, <2>1, <2>2
      <4> HIDE DEF f
      <4> QED BY <2>1, <3>1, <4>1, SharesFall
    <3>3. Share(p, x, f) > Share(p, f, x)
      BY <1>4, <2>1, <3>2
    <3> QED BY <2>1, <3>3, AheadMeans
  <2>5. IsFiniteSet(B)
    BY <1>1, FS_Subset
  <2>6. Cardinality(D) <= Cardinality(B) /\ Cardinality(B) \in Nat
    <3> HIDE DEF D, B
    <3> QED BY <2>4, <2>5, FS_Subset, FS_CardinalityType
  <2>7. Cardinality(D) < budget
    <3> HIDE DEF D, B
    <3> QED BY <1>2, <2>3, <2>6
  <2> QED BY <1>2, <1>7, <2>7
<1>8. CASE a \notin Kept(p) /\ F[a] \in Kept(q)
  <2> SUFFICES ASSUME Share(p, a, f) # Share(p, f, a) PROVE FALSE
    OBVIOUS
  <2>0. Cardinality(D) < budget
    BY <1>2, <1>8
  <2>1. Kept(p) # {}
    <3> SUFFICES ASSUME Kept(p) = {} PROVE FALSE
      OBVIOUS
    <3>1. Cardinality(Kept(p)) = 0
      BY FS_EmptySet
    <3>2. budget < Cardinality(Pairs(p))
      BY <1>1, <1>3, <1>8
    <3>3. budget = 0
      BY <1>3, <3>1, <3>2
    <3> HIDE DEF D
    <3> QED BY <1>2, <2>0, <3>3
  <2>2. f \in Kept(p) /\ f \in Pairs(p) /\ a # f
    BY <1>3, <1>8, <2>1
  <2>3. Ahead(p, f, a)
    <3>1. ~ Ahead(p, a, f)
      BY <1>8, <2>2, KeptFromTheTop
    <3> QED BY <2>2, <3>1, AheadOrders
  <2>4. Share(p, f, a) >= Share(p, a, f)
    BY <1>5, <2>2, <2>3
  <2>5. Kept(p) \in SUBSET D
    <3> SUFFICES ASSUME NEW x \in Kept(p) PROVE x \in Pairs(p) /\ Ahead(q, F[x], F[a])
      OBVIOUS
    <3>1. x \in Pairs(p) /\ Share(p, x, f) >= Share(p, f, x)
      <4>1. x \in Pairs(p) /\ (x = f \/ Ahead(p, x, f))
        BY <1>3, <2>1
      <4>2. CASE x = f
        <5>1. Share(p, f, f) \in Nat
          BY <1>4, <2>2
        <5> HIDE DEF f
        <5> QED BY <4>1, <4>2, <5>1
      <4>3. CASE Ahead(p, x, f)
        BY <1>5, <2>2, <4>1, <4>3
      <4> QED BY <4>1, <4>2, <4>3
    <3>2. Share(p, x, a) >= Share(p, a, x) /\ Share(p, x, a) # Share(p, a, x)
      <4>1. Share(p, a, f) # Share(p, f, a)
        OBVIOUS
      <4> HIDE DEF f
      <4> QED BY <2>2, <2>4, <3>1, <4>1, SharesFall
    <3>3. Share(p, x, a) > Share(p, a, x)
      BY <1>4, <3>1, <3>2
    <3> QED BY <1>6, <3>1, <3>3
  <2>6. Cardinality(Kept(p)) <= Cardinality(D) /\ Cardinality(Kept(p)) \in Nat
    <3> HIDE DEF D
    <3> QED BY <1>2, <1>3, <2>5, FS_Subset, FS_CardinalityType
  <2>7. Cardinality(Kept(p)) < budget
    <3> HIDE DEF D
    <3> QED BY <1>2, <2>0, <2>6
  <2>8. budget >= Cardinality(Pairs(p))
    BY <1>1, <1>3, <2>7
  <2> QED BY <1>3, <1>8, <2>8
<1> QED BY <1>7, <1>8

----------------------------------------------------------------------------
(* The studies' order of the layers.                                       *)

ByLayer == [i \in DOMAIN profile |-> profile[Entry(i - 1)]]
Moved == [a \in Pairs(profile) |-> <<profile[a[1]].layer + 1, a[2]>>]

LEMMA OtherOrder ==
  ASSUME HotInv, hot # <<>>
  PROVE  /\ routings \in Routings /\ budget \in Nat
         /\ Ranks(profile, routings) /\ Ranks(ByLayer, routings)
         /\ Moved \in [Pairs(profile) -> Pairs(ByLayer)]
         /\ \A x, y \in Pairs(profile) : Moved[x] = Moved[y] => x = y
         /\ \A y \in Pairs(ByLayer) : \E x \in Pairs(profile) : Moved[x] = y
         /\ \A x, y \in Pairs(profile) : Share(ByLayer, Moved[x], Moved[y]) = Share(profile, x, y)
         /\ \A x \in Pairs(profile) : ByLayer[Moved[x][1]] = profile[x[1]] /\ Moved[x][2] = x[2]
<1> DEFINE n == Len(FileOrder)
<1>1. routings \in Routings /\ budget \in Nat /\ Ranks(profile, routings)
  BY ProfileRanks DEF HotInv
<1>2. /\ DOMAIN profile = 1 .. n /\ n \in Nat /\ Layers = 0 .. n - 1
      /\ \A i \in 1 .. n : profile[i].layer \in 0 .. n - 1
      /\ \A i, k \in 1 .. n : profile[i].layer = profile[k].layer => i = k
      /\ \A l \in 0 .. n - 1 : \E i \in 1 .. n : profile[i].layer = l
      /\ \A i \in 1 .. n : RowRanks(profile[i], routings[profile[i].layer])
  BY <1>1, Files DEF Ranks
<1> HIDE DEF n
<1>3. \A l \in 0 .. n - 1 : Entry(l) \in 1 .. n /\ profile[Entry(l)].layer = l
  BY <1>2 DEF Entry
<1>4. \A i \in 1 .. n : i - 1 \in 0 .. n - 1
  BY <1>2
<1>5. \A l \in 0 .. n - 1 : l + 1 \in 1 .. n /\ (l + 1) - 1 = l
  BY <1>2
<1>6. DOMAIN ByLayer = 1 .. n /\ \A i \in 1 .. n : ByLayer[i] = profile[Entry(i - 1)]
  BY <1>2 DEF ByLayer
<1>7. \A i \in 1 .. n : ByLayer[i].layer = i - 1 /\ RowRanks(ByLayer[i], routings[i - 1])
  BY <1>2, <1>3, <1>4, <1>6
<1>8. Ranks(ByLayer, routings)
  <2>1. \A i, k \in 1 .. n : i - 1 = k - 1 => i = k
    OBVIOUS
  <2>2. \A l \in Layers : \E i \in 1 .. n : ByLayer[i].layer = l
    <3> TAKE l \in Layers
    <3>1. l + 1 \in 1 .. n /\ (l + 1) - 1 = l
      BY <1>2, <1>5
    <3>2. ByLayer[l + 1].layer = l
      BY <1>7, <3>1
    <3> QED BY <3>1, <3>2
  <2>3. \A i \in 1 .. n : ByLayer[i].layer \in Layers /\ RowRanks(ByLayer[i], routings[ByLayer[i].layer])
    <3> TAKE i \in 1 .. n
    <3>1. i - 1 \in Layers
      BY <1>2, <1>4
    <3>2. ByLayer[i].layer = i - 1 /\ RowRanks(ByLayer[i], routings[i - 1])
      BY <1>7
    <3> QED BY <3>1, <3>2
  <2>4. \A i, k \in 1 .. n : ByLayer[i].layer = ByLayer[k].layer => i = k
    BY <1>7, <2>1
  <2> QED BY <1>6, <2>2, <2>3, <2>4 DEF Ranks, n
<1>9. Pairs(profile) = (1 .. n) \X (1 .. E) /\ Pairs(ByLayer) = (1 .. n) \X (1 .. E)
  BY <1>2, <1>6 DEF Pairs
<1>10. ASSUME NEW x \in Pairs(profile)
       PROVE  /\ Moved[x] \in Pairs(ByLayer) /\ Moved[x][2] = x[2] /\ x[1] \in 1 .. n /\ x = <<x[1], x[2]>>
              /\ Moved[x][1] = profile[x[1]].layer + 1 /\ Moved[x][1] \in 1 .. n
              /\ ByLayer[Moved[x][1]] = profile[x[1]]
  <2>1. x[1] \in 1 .. n /\ x[2] \in 1 .. E /\ x = <<x[1], x[2]>>
    BY <1>9
  <2>2. Moved[x] = <<profile[x[1]].layer + 1, x[2]>>
    BY DEF Moved
  <2> DEFINE l == profile[x[1]].layer
  <2>3. l \in 0 .. n - 1 /\ l + 1 \in 1 .. n /\ (l + 1) - 1 = l
    BY <1>2, <1>5, <2>1
  <2>4. Entry(l) = x[1]
    BY <1>2, <1>3, <2>1, <2>3
  <2>5. Moved[x][1] = l + 1 /\ Moved[x][2] = x[2]
    BY <2>2
  <2>6. ByLayer[l + 1] = profile[x[1]]
    BY <1>6, <2>3, <2>4
  <2>7. Moved[x] \in Pairs(ByLayer)
    BY <1>9, <2>1, <2>2, <2>3
  <2> QED BY <2>1, <2>3, <2>5, <2>6, <2>7
<1>11. Moved \in [Pairs(profile) -> Pairs(ByLayer)]
  <2>1. Moved = [x \in Pairs(profile) |-> Moved[x]]
    BY DEF Moved
  <2> QED BY <1>10, <2>1
<1>12. ASSUME NEW x \in Pairs(profile), NEW y \in Pairs(profile), Moved[x] = Moved[y] PROVE x = y
  <2>1. x[2] = y[2] /\ profile[x[1]].layer + 1 = profile[y[1]].layer + 1
    BY <1>10, <1>12
  <2>2. profile[x[1]].layer \in 0 .. n - 1 /\ profile[y[1]].layer \in 0 .. n - 1
    BY <1>2, <1>10
  <2>3. profile[x[1]].layer = profile[y[1]].layer
    <3>1. \A u, v \in Int : u + 1 = v + 1 => u = v
      OBVIOUS
    <3>2. profile[x[1]].layer \in Int /\ profile[y[1]].layer \in Int
      BY <2>2
    <3> QED BY <2>1, <3>1, <3>2
  <2>4. x[1] = y[1]
    BY <1>2, <1>10, <2>3
  <2> QED BY <1>10, <2>1, <2>4
<1>13. ASSUME NEW y \in Pairs(ByLayer) PROVE \E x \in Pairs(profile) : Moved[x] = y
  <2>1. y[1] \in 1 .. n /\ y[2] \in 1 .. E /\ y = <<y[1], y[2]>>
    BY <1>9
  <2> DEFINE x == <<Entry(y[1] - 1), y[2]>>
  <2>2. Entry(y[1] - 1) \in 1 .. n /\ profile[Entry(y[1] - 1)].layer = y[1] - 1
    BY <1>3, <1>4, <2>1
  <2>3. x \in Pairs(profile) /\ x[1] = Entry(y[1] - 1) /\ x[2] = y[2]
    BY <1>9, <2>1, <2>2
  <2>4. (y[1] - 1) + 1 = y[1]
    BY <2>1
  <2>5. Moved[x] = <<y[1], y[2]>>
    <3> HIDE DEF x
    <3>1. Moved[x] = <<profile[x[1]].layer + 1, x[2]>>
      BY <2>3 DEF Moved
    <3> QED BY <2>2, <2>3, <2>4, <3>1
  <2> HIDE DEF x
  <2> QED BY <2>1, <2>3, <2>5
<1>14. ASSUME NEW x \in Pairs(profile), NEW y \in Pairs(profile)
       PROVE  Share(ByLayer, Moved[x], Moved[y]) = Share(profile, x, y)
  <2>1. ByLayer[Moved[x][1]] = profile[x[1]] /\ ByLayer[Moved[y][1]] = profile[y[1]] /\ Moved[x][2] = x[2]
    BY <1>10
  <2> QED BY <2>1 DEF Share
<1> QED BY <1>1, <1>8, <1>10, <1>11, <1>12, <1>13, <1>14

(* An expert is hot just when its pair is kept. *)
LEMMA HotMeansKept ==
  ASSUME NEW r \in Routings, NEW p, Ranks(p, r), budget \in Nat, NEW a \in Pairs(p)
  PROVE  p[a[1]].ranked[a[2]] \in Split(p)[p[a[1]].layer] <=> a \in Kept(p)
<1> DEFINE l == p[a[1]].layer
           e == p[a[1]].ranked[a[2]]
<1>1. a[1] \in DOMAIN p /\ a[2] \in 1 .. E /\ a = <<a[1], a[2]>> /\ l \in Layers /\ RowRanks(p[a[1]], r[l])
  BY DEF Pairs, Ranks
<1>2. Split(p)[l] = {p[b[1]].ranked[b[2]] : b \in {x \in Kept(p) : p[x[1]].layer = l}}
  BY <1>1 DEF Split
<1>3. a \in Kept(p) => e \in Split(p)[l]
  BY <1>2
<1>4. ASSUME e \in Split(p)[l] PROVE a \in Kept(p)
  <2>1. PICK b \in Kept(p) : p[b[1]].layer = l /\ p[b[1]].ranked[b[2]] = e
    BY <1>2, <1>4
  <2>2. b[1] \in DOMAIN p /\ b[2] \in 1 .. E /\ b = <<b[1], b[2]>>
    BY DEF Kept, Pairs
  <2>3. b[1] = a[1]
    BY <1>1, <2>1, <2>2 DEF Ranks
  <2>4. p[a[1]].ranked[b[2]] = p[a[1]].ranked[a[2]]
    BY <2>1, <2>3
  <2>5. b[2] = a[2]
    BY <1>1, <2>2, <2>4 DEF RowRanks
  <2> QED BY <1>1, <2>1, <2>2, <2>3, <2>5
<1> QED BY <1>3, <1>4

LEMMA SizedAlike == HotInv => StudiesSizeTheServer
<1> SUFFICES ASSUME HotInv, hot # <<>> PROVE StudiesSizeTheServer
  BY DEF StudiesSizeTheServer
<1> DEFINE InAll(f) == SumFunctionOnSet([l \in Layers |-> Cardinality(f[l])], Layers)
           mine == [l \in Layers |-> {hot[l][s] : s \in DOMAIN hot[l]}]
           At(l, e) == CHOOSE a \in Pairs(profile) :
                         profile[a[1]].layer = l /\ profile[a[1]].ranked[a[2]] = e
<1>1. /\ routings \in Routings /\ budget \in Nat
      /\ Ranks(profile, routings) /\ Ranks(ByLayer, routings)
  BY OtherOrder
<1>2. Capacities = Split(ByLayer)
  BY DEF Capacities, ByLayer
<1>3. ASSUME NEW l \in Layers
      PROVE  /\ mine[l] = Split(profile)[l] /\ mine[l] \in SUBSET Experts
             /\ Capacities[l] = Split(ByLayer)[l] /\ Capacities[l] \in SUBSET Experts
  <2> DEFINE V == Split(profile)[l]
  <2>1. hot[l] = ById(V)
    BY DEF HotInv
  <2>2. V \in SUBSET Experts /\ Split(ByLayer)[l] \in SUBSET Experts
    BY <1>1, SplitIsHottest
  <2> HIDE DEF V
  <2>3. /\ DOMAIN ById(V) = 1 .. Cardinality(V)
        /\ \A i \in 1 .. Cardinality(V) : ById(V)[i] \in V
        /\ \A x \in V : \E i \in 1 .. Cardinality(V) : ById(V)[i] = x
    BY <2>2, IdsAscend
  <2>4. mine[l] = V
    BY <2>1, <2>3
  <2> QED BY <1>2, <2>2, <2>4 DEF V
<1>4. InAll(mine) = Cardinality(Kept(profile)) /\ InAll(Capacities) = Cardinality(Kept(ByLayer))
  <2>1. \A l \in Layers : mine[l] = Split(profile)[l] /\ Capacities[l] = Split(ByLayer)[l]
    BY <1>3
  <2> HIDE DEF mine
  <2> QED BY <1>1, <2>1, SplitAddsUp
<1>5. Cardinality(Kept(profile)) = Min({budget, E * Len(FileOrder)})
      /\ Cardinality(Kept(ByLayer)) = Min({budget, E * Len(FileOrder)})
  <2> DEFINE N == E * Len(FileOrder)
             n == Len(FileOrder)
  <2>1. N \in Nat /\ n * E = N
    <3>1. n \in Nat /\ E \in Nat
      BY Files, ExpertsCounted
    <3> HIDE DEF n
    <3>2. E * n \in Nat /\ n * E = E * n
      BY <3>1
    <3> QED BY <3>2 DEF n
  <2>2. Cardinality(Pairs(profile)) = N /\ Cardinality(Pairs(ByLayer)) = N
    BY <1>1, <2>1, PairsFinite
  <2> HIDE DEF N
  <2>3. Cardinality(Kept(profile)) = (IF budget < N THEN budget ELSE N)
        /\ Cardinality(Kept(ByLayer)) = (IF budget < N THEN budget ELSE N)
    BY <1>1, <2>2, BudgetSpent
  <2>4. Min({budget, N}) \in {budget, N} /\ Min({budget, N}) <= budget /\ Min({budget, N}) <= N
    BY <1>1, <2>1, MinOfTwo
  <2>5. Min({budget, N}) = IF budget < N THEN budget ELSE N
    BY <1>1, <2>1, <2>4
  <2> QED BY <2>3, <2>5 DEF N
<1>6. ASSUME NEW l \in Layers, NEW e \in (mine[l] \cup Capacities[l]) \ (mine[l] \cap Capacities[l])
      PROVE  Share(profile, At(l, e), Final(profile)) = Share(profile, Final(profile), At(l, e))
  <2> DEFINE a == At(l, e)
  <2>1. e \in Experts /\ ((e \in Split(profile)[l]) # (e \in Split(ByLayer)[l]))
    BY <1>3, <1>6
  <2>2. a \in Pairs(profile) /\ profile[a[1]].layer = l /\ profile[a[1]].ranked[a[2]] = e
    <3>1. PICK i \in DOMAIN profile : profile[i].layer = l
      BY <1>1 DEF Ranks
    <3>2. PICK j \in 1 .. E : profile[i].ranked[j] = e
      <4>1. RowRanks(profile[i], routings[profile[i].layer])
        BY <1>1, <3>1 DEF Ranks
      <4> QED BY <2>1, <4>1 DEF RowRanks
    <3> DEFINE b == <<i, j>>
    <3>3. b \in Pairs(profile) /\ profile[b[1]].layer = l /\ profile[b[1]].ranked[b[2]] = e
      BY <3>1, <3>2 DEF Pairs
    <3> HIDE DEF b
    <3> QED BY <3>3
  <2> HIDE DEF At, a
  <2>3. Moved[a] \in Pairs(ByLayer) /\ ByLayer[Moved[a][1]] = profile[a[1]] /\ Moved[a][2] = a[2]
    BY <2>2, OtherOrder
  <2>4. e \in Split(profile)[l] <=> a \in Kept(profile)
    BY <1>1, <2>2, HotMeansKept
  <2>5. e \in Split(ByLayer)[l] <=> Moved[a] \in Kept(ByLayer)
    BY <1>1, <2>2, <2>3, HotMeansKept
  <2>6. (a \in Kept(profile)) # (Moved[a] \in Kept(ByLayer))
    BY <2>1, <2>4, <2>5
  <2>7. /\ Moved \in [Pairs(profile) -> Pairs(ByLayer)]
        /\ \A x, y \in Pairs(profile) : Moved[x] = Moved[y] => x = y
        /\ \A y \in Pairs(ByLayer) : \E x \in Pairs(profile) : Moved[x] = y
        /\ \A x, y \in Pairs(profile) : Share(ByLayer, Moved[x], Moved[y]) = Share(profile, x, y)
    BY OtherOrder
  <2> QED BY <1>1, <2>2, <2>6, <2>7, TieAtTheCut DEF a
<1> HIDE DEF mine, At, InAll
<1>7. /\ InAll(mine) = InAll(Capacities) /\ InAll(mine) = Min({budget, E * Len(FileOrder)})
      /\ \A l \in Layers : \A e \in (mine[l] \cup Capacities[l]) \ (mine[l] \cap Capacities[l]) :
           Share(profile, At(l, e), Final(profile)) = Share(profile, Final(profile), At(l, e))
  BY <1>4, <1>5, <1>6
<1> QED BY <1>7 DEF StudiesSizeTheServer, InAll, mine, At, Final

(* capacities(.., "global") spends as many slots as _hot_sets, the whole   *)
(* budget or every expert, and differs only among pairs of the last share  *)
(* that is paid for.                                                       *)
THEOREM StudiesSizeAlike == HotSpec => []StudiesSizeTheServer
BY HotInvHolds, SizedAlike, PTL

-----------------------------------------------------------------------------
(***************************************************************************)
(* Cutting a capture into generations. Whatever slot of the ring it was    *)
(* saved from, the scan finds every maximal run of modal steps that is     *)
(* long enough, each once and in order.                                    *)
(*                                                                         *)
(* The argument: the step numbers are 0 .. N-1 in some order, so a step's  *)
(* rank is its number and sorting puts every width in its place            *)
(* (RankIsNumber). The run the scan is in cannot be longer to the left     *)
(* (InRun), so when it ends it is maximal (ClosedIsMaximal), and a maximal *)
(* run that ends where the scan is can be no other (EndsHere). So the runs *)
(* found are those that end before the scan, which goes one step past the  *)
(* last (Found).                                                           *)
(***************************************************************************)
StepNo == [j \in DOMAIN saved |-> saved[j][1]]

(* The step numbers are 0 .. NSteps-1, in any order. *)
Numbered ==
  /\ DOMAIN saved = 1 .. NSteps
  /\ \A i \in 1 .. NSteps : saved[i][1] \in 0 .. NSteps - 1
  /\ \A i, j \in 1 .. NSteps : saved[i][1] = saved[j][1] => i = j
  /\ \A s \in 0 .. NSteps - 1 : \E i \in 1 .. NSteps : saved[i][1] = s

(* Widths in step order. *)
InOrder ==
  /\ rows \in Seq({saved[i][2] : i \in 1 .. NSteps}) /\ Len(rows) = NSteps
  /\ \A i \in 1 .. NSteps : rows[saved[i][1] + 1] = saved[i][2]

(* All steps a .. b-1 are of the modal width. *)
AllModal(a, b) == \A i \in a + 1 .. b : rows[i] = modal

Maximal ==
  {r \in (0 .. NSteps) \X (0 .. NSteps) :
     /\ r[2] - r[1] >= MinRun /\ AllModal(r[1], r[2])
     /\ r[1] > 0 => ~ AllModal(r[1] - 1, r[2])
     /\ r[2] < NSteps => ~ AllModal(r[1], r[2] + 1)}

(* The run the scan is in is as long as it can be to the left. *)
InRun ==
  IF start = NoRun THEN at \in 1 .. NSteps => rows[at] # modal
  ELSE /\ at <= NSteps /\ start \in 0 .. at - 1 /\ AllModal(start, at)
       /\ start > 0 => rows[start] # modal

(* The generations so far are those that end before the scan. *)
Found ==
  /\ runs \in Seq((0 .. NSteps) \X (0 .. NSteps))
  /\ {runs[i] : i \in DOMAIN runs} = {r \in Maximal : r[2] < at}
  /\ \A i, j \in DOMAIN runs : i < j => runs[i][1] < runs[j][1]
  /\ \A i \in DOMAIN runs : start # NoRun => runs[i][1] < start

LoadInv ==
  /\ Numbered
  /\ rows = <<>> => at = 0 /\ start = NoRun /\ runs = <<>>
  /\ rows # <<>> => InOrder /\ at \in 0 .. NSteps + 1 /\ InRun /\ Found

(* Whichever slot the ring was saved from. *)
LEMMA NumberedAtFirst == LoadInit => Numbered
<1> SUFFICES ASSUME LoadInit PROVE Numbered
  OBVIOUS
<1>1. NSteps \in Nat \ {0}
  BY CaptureAssumption
<1>2. PICK w \in [1 .. NSteps -> Widths], turn \in 0 .. NSteps - 1 :
        saved = [i \in 1 .. NSteps |->
                  <<IF i + turn <= NSteps THEN i + turn - 1 ELSE i + turn - 1 - NSteps, w[i]>>]
  BY DEF LoadInit
<1>3. \A i \in 1 .. NSteps : saved[i][1] = IF i + turn <= NSteps THEN i + turn - 1 ELSE i + turn - 1 - NSteps
  BY <1>2
<1>4. DOMAIN saved = 1 .. NSteps
  BY <1>2
<1>5. turn \in Nat /\ turn < NSteps
  BY <1>1
<1>6. \A i \in 1 .. NSteps : saved[i][1] \in 0 .. NSteps - 1
  BY <1>1, <1>3, <1>5
<1>7. \A i, j \in 1 .. NSteps : saved[i][1] = saved[j][1] => i = j
  BY <1>1, <1>3, <1>5
<1>8. ASSUME NEW s \in 0 .. NSteps - 1 PROVE \E i \in 1 .. NSteps : saved[i][1] = s
  <2>1. CASE s >= turn
    <3>1. s - turn + 1 \in 1 .. NSteps /\ (s - turn + 1) + turn <= NSteps
      BY <1>1, <1>5, <2>1
    <3>2. saved[s - turn + 1][1] = s
      BY <1>1, <1>3, <1>5, <2>1, <3>1
    <3> QED BY <3>1, <3>2
  <2>2. CASE ~ (s >= turn)
    <3>1. s - turn + 1 + NSteps \in 1 .. NSteps /\ ~ ((s - turn + 1 + NSteps) + turn <= NSteps)
      BY <1>1, <1>5, <2>2
    <3>2. saved[s - turn + 1 + NSteps][1] = s
      BY <1>1, <1>3, <1>5, <2>2, <3>1
    <3> QED BY <3>1, <3>2
  <2> QED BY <2>1, <2>2
<1> QED BY <1>4, <1>6, <1>7, <1>8 DEF Numbered

(* The rank of a step is its number. *)
LEMMA RankIsNumber ==
  ASSUME Numbered
  PROVE  /\ KeyOf(1 .. NSteps, StepNo) /\ IsFiniteSet(1 .. NSteps) /\ Cardinality(1 .. NSteps) = NSteps
         /\ \A i \in 1 .. NSteps : Rank(1 .. NSteps, StepNo, i) = saved[i][1]
<1>1. NSteps \in Nat \ {0}
  BY CaptureAssumption
<1>2. StepNo = [j \in 1 .. NSteps |-> saved[j][1]] /\ \A j \in 1 .. NSteps : StepNo[j] = saved[j][1]
  BY DEF StepNo, Numbered
<1>3. KeyOf(1 .. NSteps, StepNo)
  <2>1. \A j \in 1 .. NSteps : StepNo[j] \in Int
    BY <1>1, <1>2 DEF Numbered
  <2> QED BY <1>2, <2>1 DEF KeyOf, Numbered
<1>4. IsFiniteSet(1 .. NSteps) /\ Cardinality(1 .. NSteps) = NSteps
  BY <1>1, FS_Interval
<1>5. ASSUME NEW i \in 1 .. NSteps PROVE Rank(1 .. NSteps, StepNo, i) = saved[i][1]
  <2> DEFINE V == {y \in 1 .. NSteps : StepNo[y] < StepNo[i]}
             n == saved[i][1]
             f == [y \in V |-> saved[y][1]]
  <2>1. n \in 0 .. NSteps - 1 /\ n \in Nat
    BY <1>1 DEF Numbered
  <2>2. IsFiniteSet(0 .. n - 1) /\ Cardinality(0 .. n - 1) = n
    <3> HIDE DEF n
    <3>1. IsFiniteSet(0 .. n - 1) /\ Cardinality(0 .. n - 1) = IF 0 > n - 1 THEN 0 ELSE (n - 1) - 0 + 1
      BY <2>1, FS_Interval
    <3> QED BY <2>1, <3>1
  <2>3. \A y \in V : y \in 1 .. NSteps /\ saved[y][1] \in 0 .. n - 1
    BY <1>1, <1>2, <2>1 DEF Numbered
  <2>4. \A k \in 0 .. n - 1 : \E y \in V : saved[y][1] = k
    <3> TAKE k \in 0 .. n - 1
    <3>1. k \in 0 .. NSteps - 1 /\ k < n
      BY <1>1, <2>1
    <3>2. PICK y \in 1 .. NSteps : saved[y][1] = k
      BY <3>1 DEF Numbered
    <3> QED BY <1>2, <3>1, <3>2
  <2>5. \A x, y \in V : saved[x][1] = saved[y][1] => x = y
    BY <2>3 DEF Numbered
  <2> HIDE DEF V, n
  <2>6. f \in Bijection(V, 0 .. n - 1)
    <3>1. f \in [V -> 0 .. n - 1] /\ \A x, y \in V : f[x] = f[y] => x = y
      BY <2>3, <2>5
    <3>2. \A k \in 0 .. n - 1 : \E y \in V : f[y] = k
      BY <2>4
    <3> QED BY <3>1, <3>2, Fun_IsBij
  <2>7. ExistsBijection(V, 0 .. n - 1)
    BY <2>6, Fun_ExistsBij
  <2>8. IsFiniteSet(V) /\ Cardinality(V) = n
    <3>1. IsFiniteSet(V)
      BY <1>4, FS_Subset DEF V
    <3> QED BY <2>2, <2>7, <3>1, FS_Bijection
  <2> QED BY <2>8 DEF Rank, V, n
<1> QED BY <1>3, <1>4, <1>5

LEMMA SortKeeps == ASSUME LoadInv, Sort PROVE LoadInv'
<1>1. NSteps \in Nat \ {0}
  BY CaptureAssumption
<1>2. Numbered /\ rows = <<>> /\ at = 0 /\ start = NoRun /\ runs = <<>>
  BY DEF LoadInv, Sort
<1>3. rows' = [i \in 1 .. NSteps |-> saved[order[i]][2]] /\ UNCHANGED <<saved, at, start, runs, traces>>
  BY <1>2 DEF Sort, Numbered
<1>4. \A i \in 1 .. NSteps : order[i] = Nth(1 .. NSteps, StepNo, i - 1)
  BY <1>2 DEF order, StepNo, Numbered
<1>5. \A i \in 1 .. NSteps : i - 1 \in 0 .. NSteps - 1 /\ saved[i][1] \in 0 .. NSteps - 1
  BY <1>1, <1>2 DEF Numbered
<1>6. \A i \in 1 .. NSteps : order[i] \in 1 .. NSteps
  BY <1>2, <1>4, <1>5, RankIsNumber, RankBijective
<1>7. ASSUME NEW i \in 1 .. NSteps PROVE rows'[saved[i][1] + 1] = saved[i][2]
  <2>1. saved[i][1] + 1 \in 1 .. NSteps /\ (saved[i][1] + 1) - 1 = saved[i][1]
    BY <1>1, <1>5
  <2>2. order[saved[i][1] + 1] = Nth(1 .. NSteps, StepNo, Rank(1 .. NSteps, StepNo, i))
    BY <1>2, <1>4, <2>1, RankIsNumber
  <2>3. order[saved[i][1] + 1] = i
    BY <1>2, <2>2, RankIsNumber, RankBijective
  <2> QED BY <1>3, <2>1, <2>3
<1>8. rows' \in Seq({saved[i][2] : i \in 1 .. NSteps}) /\ Len(rows') = NSteps /\ rows' # <<>>
  <2>1. \A i \in 1 .. NSteps : saved[order[i]][2] \in {saved[j][2] : j \in 1 .. NSteps}
    BY <1>6
  <2>2. rows' \in [1 .. NSteps -> {saved[j][2] : j \in 1 .. NSteps}]
    BY <1>3, <2>1
  <2>3. rows' \in Seq({saved[j][2] : j \in 1 .. NSteps})
    BY <1>1, <2>2, SeqDef
  <2>4. Len(rows') = NSteps
    BY <1>1, <2>2, <2>3, LenProperties
  <2> QED BY <1>1, <2>3, <2>4
<1>9. Numbered'
  BY <1>2, <1>3 DEF Numbered
<1>10. InOrder'
  BY <1>3, <1>7, <1>8 DEF InOrder
<1>11. InRun'
  BY <1>2, <1>3 DEF InRun, NoRun
<1>12. Found'
  <2>1. \A r \in Maximal' : ~ (r[2] < 0)
    BY <1>1 DEF Maximal
  <2>2. {r \in Maximal' : r[2] < 0} = {}
    BY <2>1
  <2>3. runs' = <<>> /\ at' = 0 /\ start' = NoRun /\ DOMAIN <<>> = {} /\ <<>> \in Seq((0 .. NSteps) \X (0 .. NSteps))
    BY <1>2, <1>3
  <2> QED BY <2>2, <2>3 DEF Found
<1> QED BY <1>1, <1>2, <1>3, <1>8, <1>9, <1>10, <1>11, <1>12 DEF LoadInv

(* A generation that ends where the scan is, is the run the scan is in. *)
LEMMA EndsHere ==
  ASSUME LoadInv, rows # <<>>, at <= NSteps, NEW r \in Maximal, r[2] = at
  PROVE  /\ start # NoRun /\ r = <<start, at>> /\ at - start >= MinRun
         /\ at < NSteps => rows[at + 1] # modal
<1>1. NSteps \in Nat \ {0} /\ MinRun \in Nat \ {0}
  BY CaptureAssumption
<1>2. at \in 0 .. NSteps /\ InRun
  BY <1>1 DEF LoadInv
<1>3. /\ r = <<r[1], r[2]>> /\ r[1] \in 0 .. NSteps /\ r[2] \in 0 .. NSteps
      /\ r[2] - r[1] >= MinRun /\ AllModal(r[1], r[2])
      /\ r[1] > 0 => ~ AllModal(r[1] - 1, r[2])
      /\ r[2] < NSteps => ~ AllModal(r[1], r[2] + 1)
  BY DEF Maximal
<1>4. r[1] \in Nat /\ r[1] < at /\ at \in Nat
  BY <1>1, <1>2, <1>3
<1>5. rows[at] = modal
  <2>1. at \in r[1] + 1 .. at
    BY <1>4
  <2> QED BY <1>3, <2>1 DEF AllModal
<1>6. start # NoRun
  BY <1>1, <1>2, <1>4, <1>5 DEF InRun
<1>7. start \in 0 .. at - 1 /\ AllModal(start, at) /\ (start > 0 => rows[start] # modal)
  BY <1>2, <1>6 DEF InRun
<1>8. ~ (r[1] < start)
  <2> SUFFICES ASSUME r[1] < start PROVE FALSE
    OBVIOUS
  <2>1. start \in r[1] + 1 .. at /\ start > 0
    BY <1>4, <1>7
  <2> QED BY <1>3, <1>7, <2>1 DEF AllModal
<1>9. ~ (start < r[1])
  <2> SUFFICES ASSUME start < r[1] PROVE FALSE
    OBVIOUS
  <2>1. \A i \in (r[1] - 1) + 1 .. at : i \in start + 1 .. at
    BY <1>4, <1>7
  <2>2. AllModal(r[1] - 1, at) /\ r[1] > 0
    BY <1>4, <1>7, <2>1 DEF AllModal
  <2> QED BY <1>3, <2>2
<1>10. r[1] = start
  BY <1>4, <1>7, <1>8, <1>9
<1>11. ASSUME at < NSteps PROVE rows[at + 1] # modal
  <2> SUFFICES ASSUME rows[at + 1] = modal PROVE FALSE
    OBVIOUS
  <2>1. \A i \in r[1] + 1 .. at + 1 : i \in r[1] + 1 .. at \/ i = at + 1
    BY <1>4
  <2>2. AllModal(r[1], at + 1)
    BY <1>3, <2>1 DEF AllModal
  <2> QED BY <1>3, <1>11, <2>2
<1> QED BY <1>3, <1>6, <1>10, <1>11

(* A run that ends here and is long enough is a generation. *)
LEMMA ClosedIsMaximal ==
  ASSUME LoadInv, rows # <<>>, at <= NSteps, start # NoRun, at - start >= MinRun,
         at < NSteps => rows[at + 1] # modal
  PROVE  <<start, at>> \in Maximal
<1>1. NSteps \in Nat \ {0} /\ MinRun \in Nat \ {0}
  BY CaptureAssumption
<1>2. at \in 0 .. NSteps /\ start \in 0 .. at - 1 /\ AllModal(start, at) /\ (start > 0 => rows[start] # modal)
  BY <1>1 DEF LoadInv, InRun
<1>3. ASSUME start > 0 PROVE ~ AllModal(start - 1, at)
  <2>1. start \in (start - 1) + 1 .. at
    BY <1>1, <1>2
  <2> QED BY <1>2, <1>3, <2>1 DEF AllModal
<1>4. ASSUME at < NSteps PROVE ~ AllModal(start, at + 1)
  <2>1. at + 1 \in start + 1 .. at + 1
    BY <1>1, <1>2
  <2> QED BY <1>4, <2>1 DEF AllModal
<1>5. start \in 0 .. NSteps
  BY <1>1, <1>2
<1> QED BY <1>2, <1>3, <1>4, <1>5 DEF Maximal

LEMMA ScanKeeps == ASSUME LoadInv, Scan PROVE LoadInv'
<1> DEFINE ok == at < NSteps /\ rows[at + 1] = modal
           closes == ~ ok /\ start # NoRun
           new == closes /\ at - start >= MinRun
           r0 == <<start, at>>
<1>1. NSteps \in Nat \ {0} /\ MinRun \in Nat \ {0}
  BY CaptureAssumption
<1>2. Numbered /\ InOrder /\ InRun /\ Found /\ rows # <<>> /\ Len(rows) = NSteps /\ at \in 0 .. NSteps
  BY <1>1 DEF LoadInv, Scan, InOrder
<1>3. /\ start' = IF ok /\ start = NoRun THEN at ELSE IF closes THEN NoRun ELSE start
      /\ runs' = IF new THEN Append(runs, r0) ELSE runs
      /\ at' = at + 1 /\ saved' = saved /\ rows' = rows
  BY <1>2 DEF Scan, Closes
<1>4. modal' = modal /\ Maximal' = Maximal /\ Numbered' /\ InOrder'
  <2>1. modal' = modal
    BY <1>3 DEF modal, Count
  <2>2. Maximal' = Maximal
    BY <1>3, <2>1 DEF Maximal, AllModal
  <2> QED BY <1>2, <1>3, <2>1, <2>2 DEF Numbered, InOrder
<1>5. at' \in 0 .. NSteps + 1
  BY <1>1, <1>2, <1>3
<1>6. InRun'
  <2>1. CASE ok /\ start = NoRun
    <3>1. start' = at /\ start' # NoRun
      BY <1>2, <1>3, <2>1 DEF NoRun
    <3>2. \A i \in at + 1 .. at + 1 : i = at + 1
      BY <1>2
    <3>3. at + 1 <= NSteps /\ at \in 0 .. (at + 1) - 1
      BY <1>1, <1>2, <2>1
    <3>4. at > 0 => rows[at] # modal
      BY <1>1, <1>2, <2>1 DEF InRun
    <3> QED BY <1>3, <1>4, <2>1, <3>1, <3>2, <3>3, <3>4 DEF InRun, AllModal
  <2>2. CASE ok /\ start # NoRun
    <3>1. start' = start
      BY <1>3, <2>2
    <3>2. start \in 0 .. at - 1 /\ AllModal(start, at) /\ (start > 0 => rows[start] # modal)
      BY <1>2, <2>2 DEF InRun
    <3>3. \A i \in start + 1 .. at + 1 : i \in start + 1 .. at \/ i = at + 1
      BY <1>2, <3>2
    <3>4. at + 1 <= NSteps /\ start \in 0 .. (at + 1) - 1
      BY <1>1, <1>2, <2>2, <3>2
    <3> QED BY <1>3, <1>4, <2>2, <3>1, <3>2, <3>3, <3>4 DEF InRun, AllModal
  <2>3. CASE ~ ok
    <3>1. start' = NoRun
      BY <1>3, <2>3
    <3>2. at + 1 \in 1 .. NSteps => at < NSteps
      BY <1>1, <1>2
    <3> QED BY <1>3, <1>4, <2>3, <3>1, <3>2 DEF InRun
  <2> QED BY <2>1, <2>2, <2>3
<1>7. new <=> \E r \in Maximal : r[2] = at
  BY <1>1, <1>2, EndsHere, ClosedIsMaximal
<1>8. new => {r \in Maximal : r[2] = at} = {r0}
  BY <1>1, <1>2, EndsHere, ClosedIsMaximal
<1>9. \A r \in Maximal : r[2] < at + 1 <=> r[2] < at \/ r[2] = at
  BY <1>2 DEF Maximal
<1>10. \A i \in DOMAIN runs : runs[i][1] \in Nat /\ runs[i][1] < at
  <2> TAKE i \in DOMAIN runs
  <2>1. runs[i] \in Maximal /\ runs[i][2] < at
    BY <1>2 DEF Found
  <2> HIDE DEF LoadInv
  <2>2. runs[i][1] \in 0 .. NSteps /\ runs[i][2] \in 0 .. NSteps /\ runs[i][2] - runs[i][1] >= MinRun
    BY <2>1 DEF Maximal
  <2> QED BY <1>1, <1>2, <2>1, <2>2
<1>11. Found'
  <2>1. CASE new
    <3>1. /\ r0 \in Maximal /\ start # NoRun /\ r0 \in (0 .. NSteps) \X (0 .. NSteps)
          /\ start' = NoRun /\ runs' = Append(runs, r0)
      BY <1>3, <1>8, <2>1 DEF Maximal
    <3>2. /\ runs \in Seq((0 .. NSteps) \X (0 .. NSteps)) /\ Len(runs) \in Nat /\ DOMAIN runs = 1 .. Len(runs)
      BY <1>2 DEF Found
    <3>3. /\ runs' \in Seq((0 .. NSteps) \X (0 .. NSteps)) /\ DOMAIN runs' = 1 .. Len(runs) + 1
          /\ \A i \in DOMAIN runs : runs'[i] = runs[i]
          /\ runs'[Len(runs) + 1] = r0
      BY <3>1, <3>2, AppendProperties
    <3>4. {runs'[i] : i \in DOMAIN runs'} = {runs[i] : i \in DOMAIN runs} \cup {r0}
      <4>1. \A i : i \in 1 .. Len(runs) + 1 <=> i \in 1 .. Len(runs) \/ i = Len(runs) + 1
        BY <3>2
      <4> QED BY <3>2, <3>3, <4>1
    <3>5. {r \in Maximal : r[2] < at + 1} = {r \in Maximal : r[2] < at} \cup {r0}
      BY <1>8, <1>9, <2>1
    <3>6. ASSUME NEW i \in DOMAIN runs', NEW j \in DOMAIN runs', i < j PROVE runs'[i][1] < runs'[j][1]
      <4>1. i \in DOMAIN runs
        BY <3>2, <3>3, <3>6
      <4>2. CASE j = Len(runs) + 1
        <5>1. runs[i][1] < start
          BY <1>2, <3>1, <4>1 DEF Found
        <5> QED BY <3>3, <4>1, <4>2, <5>1
      <4>3. CASE j # Len(runs) + 1
        <5>1. j \in DOMAIN runs
          BY <3>2, <3>3, <4>3
        <5> QED BY <1>2, <3>3, <3>6, <4>1, <5>1 DEF Found
      <4> QED BY <4>2, <4>3
    <3> QED BY <1>2, <1>3, <1>4, <3>1, <3>3, <3>4, <3>5, <3>6 DEF Found
  <2>2. CASE ~ new
    <3>1. runs' = runs
      BY <1>3, <2>2
    <3>2. {r \in Maximal : r[2] < at + 1} = {r \in Maximal : r[2] < at}
      BY <1>7, <1>9, <2>2
    <3>3. \A i \in DOMAIN runs : start' # NoRun => runs[i][1] < start'
      <4>1. start' # NoRun => start' = at \/ start' = start
        BY <1>3
      <4> QED BY <1>2, <1>3, <1>10, <4>1 DEF Found
    <3> QED BY <1>2, <1>3, <1>4, <3>1, <3>2, <3>3 DEF Found
  <2> QED BY <2>1, <2>2
<1>12. rows' # <<>>
  BY <1>2, <1>3
<1> QED BY <1>4, <1>5, <1>6, <1>11, <1>12 DEF LoadInv

LEMMA LoadInvHolds == LoadSpec => []LoadInv
<1>1. LoadInit => LoadInv
  BY NumberedAtFirst DEF LoadInit, LoadInv
<1>2. LoadInv /\ [LoadNext]_loadVars => LoadInv'
  <2> SUFFICES ASSUME LoadInv, [LoadNext]_loadVars PROVE LoadInv'
    OBVIOUS
  <2>1. CASE Sort
    BY <2>1, SortKeeps
  <2>2. CASE Scan
    BY <2>2, ScanKeeps
  <2>3. CASE UNCHANGED <<saved, rows, at, start, runs>>
    <3>1. Maximal' = Maximal /\ modal' = modal
      BY <2>3 DEF Maximal, AllModal, modal, Count
    <3>2. Numbered' = Numbered /\ InOrder' = InOrder
      BY <2>3 DEF Numbered, InOrder
    <3>3. InRun' = InRun /\ Found' = Found
      BY <2>3, <3>1 DEF InRun, Found, AllModal
    <3> QED BY <2>3, <3>2, <3>3 DEF LoadInv
  <2> QED BY <2>1, <2>2, <2>3 DEF LoadNext, Label, loadVars
<1> QED BY <1>1, <1>2, PTL DEF LoadSpec

(* load_traces finds every maximal run of steps of the modal width that is *)
(* long enough, each once, in the order of the steps, wherever in the ring *)
(* the capture was saved from.                                             *)
THEOREM GenerationsAreRuns == LoadSpec => []GenerationsAreMaximal
<1>1. LoadInv => GenerationsAreMaximal
  <2> SUFFICES ASSUME LoadInv, at > Len(rows), rows # <<>> PROVE
      /\ \A i \in DOMAIN saved : rows[saved[i][1] + 1] = saved[i][2]
      /\ {runs[i] : i \in DOMAIN runs} = Maximal
      /\ \A i, j \in DOMAIN runs : i < j => runs[i][1] < runs[j][1]
    BY DEF GenerationsAreMaximal, Maximal, AllModal
  <2>1. NSteps \in Nat \ {0}
    BY CaptureAssumption
  <2>2. at = NSteps + 1 /\ Found /\ InOrder /\ Numbered
    BY <2>1 DEF LoadInv, InOrder
  <2>3. \A r \in Maximal : r[2] < NSteps + 1
    BY <2>1 DEF Maximal
  <2> QED BY <2>2, <2>3 DEF Found, InOrder, Numbered
<1> QED BY <1>1, LoadInvHolds, PTL

-----------------------------------------------------------------------------
(***************************************************************************)
(* The prefetch study. No predictor is scored on what it could not know,   *)
(* and none catches more than the oracle.                                  *)
(*                                                                         *)
(* The argument: a layer's cache holds its most recently used experts      *)
(* (Recent), since a step puts what it routes behind all the others and    *)
(* drops from the front (StepKeeps). As many as Depth experts are used in  *)
(* a step, so an expert missed that was used within the last cap \div      *)
(* Depth steps would make too many that were used since (HeldWhole). The   *)
(* oracle picks among the misses, and as many as it may (OraclePicks);     *)
(* what another picks of them is no more (FewPicks). Every miss has one    *)
(* age, hence the ages' counts add up to the misses (AgesAddUp).           *)
(***************************************************************************)
(* Cache o after s steps, where u gives each expert's last use.            *)
Recent(o, u, s, cap) ==
  /\ o \in Seq(Ids) /\ Len(o) = cap
  /\ \A i, j \in 1 .. cap : o[i] = o[j] => i = j
  /\ u \in [Ids -> 0 .. s]
  /\ \A i, j \in 1 .. cap : i < j => u[o[i]] <= u[o[j]]
  /\ \A e \in Ids, i \in 1 .. cap : e \notin ToSet(o) => u[e] <= u[o[i]]
  /\ \A v \in 1 .. s : Cardinality({e \in Ids : u[e] >= v}) <= Depth * (s - v + 1)

Upto(l) == IF l < layer THEN now ELSE now - 1

PrefetchInv ==
  /\ capture \in Captures /\ now \in 1 .. T + 1 /\ layer \in LayerIds
  /\ od \in [LayerIds -> Seq(Ids)] /\ lastuse \in [LayerIds -> [Ids -> Nat]]
  /\ \A l \in LayerIds : Recent(od[l], lastuse[l], Upto(l), SlotsOf[l])
  /\ hits \in [Predictors -> [BUDGETS -> Nat]] /\ issued \in [Predictors -> [BUDGETS -> Nat]]
  /\ tot_miss \in Nat /\ rec_hist \in [0 .. T -> Nat]
  /\ OracleIsABound

LEMMA PrefetchBounds ==
  /\ NExperts \in Nat \ {0} /\ \A l \in LayerIds : SlotsOf[l] \in 0 .. NExperts
  /\ NLAYER \in Nat \ {0} /\ Depth \in Nat \ {0} /\ T \in Nat \ {0}
  /\ IsFiniteSet(Ids) /\ Cardinality(Ids) = NExperts /\ Ids \subseteq Nat /\ Ids \subseteq Int
  /\ Half \in 0 .. T /\ IsFiniteSet(0 .. T)
<1>1. /\ NLAYER \in Nat \ {0} /\ Depth \in Nat \ {0} /\ T \in Nat \ {0}
      /\ NExperts \in Nat \ {0} /\ \A l \in LayerIds : SlotsOf[l] \in 0 .. NExperts
  BY PrefetchAssumption
<1>2. IsFiniteSet(0 .. NExperts-1)
      /\ Cardinality(0 .. NExperts-1) = IF 0 > NExperts-1 THEN 0 ELSE NExperts-1 - 0 + 1
  BY <1>1, FS_Interval
<1>3. Cardinality(0 .. NExperts-1) = NExperts
  BY <1>1, <1>2
<1>4. IsFiniteSet(0 .. T)
  BY <1>1, FS_Interval
<1> QED BY <1>1, <1>2, <1>3, <1>4 DEF Ids, Half

(* What a layer routes in a step. *)
LEMMA SetsCounted ==
  ASSUME NEW a \in Captures, NEW s \in 1 .. T, NEW l \in LayerIds
  PROVE  /\ sets(a, s, l) \in SUBSET Ids /\ IsFiniteSet(sets(a, s, l))
         /\ Cardinality(sets(a, s, l)) \in Nat /\ Cardinality(sets(a, s, l)) <= Depth
<1> DEFINE f == [j \in 1 .. Depth |-> a[s][l][j]]
<1>1. sets(a, s, l) = {f[j] : j \in 1 .. Depth}
  BY DEF sets
<1>2. f \in Surjection(1 .. Depth, sets(a, s, l))
  <2> HIDE DEF f
  <2>1. f = [j \in 1 .. Depth |-> f[j]]
    BY DEF f
  <2> QED BY <1>1, <2>1 DEF Surjection
<1>3. IsFiniteSet(1 .. Depth) /\ Cardinality(1 .. Depth) = Depth
  <2>1. Depth \in Nat
    BY PrefetchBounds
  <2> QED BY <2>1, FirstCounted
<1>4. IsFiniteSet(sets(a, s, l)) /\ Cardinality(sets(a, s, l)) <= Depth
  <2> HIDE DEF f
  <2> QED BY <1>2, <1>3, FS_Surjection
<1>5. sets(a, s, l) \in SUBSET Ids
  BY <1>1, PrefetchAssumption
<1> QED BY <1>4, <1>5, FS_CardinalityType

----------------------------------------------------------------------------
(* The batch LRU.                                                          *)

(* The m places of what stays of a sequence of n, in its order. *)
Stays(o, R, n, m, place) ==
  /\ m = Cardinality({i \in 1 .. n : o[i] \notin R})
  /\ place \in [1 .. m -> 1 .. n]
  /\ Without(o, R) = [j \in 1 .. m |-> o[place[j]]]
  /\ \A j \in 1 .. m : o[place[j]] \notin R
  /\ \A i, j \in 1 .. m : i < j => place[i] < place[j]
  /\ \A k \in 1 .. n : o[k] \notin R => \E j \in 1 .. m : place[j] = k

LEMMA WithoutKeeps ==
  ASSUME NEW n \in Nat, NEW o, DOMAIN o = 1 .. n, NEW R
  PROVE  \E m \in Nat, place \in Seq(Int) : Stays(o, R, n, m, place)
<1> DEFINE stay == {i \in 1 .. n : o[i] \notin R}
           m == Cardinality(stay)
           place == ById(stay)
<1>1. IsFiniteSet(1 .. n)
  BY FS_Interval
<1>2. IsFiniteSet(stay) /\ stay \subseteq Int
  BY <1>1, FS_Subset
<1>3. /\ m \in Nat /\ place \in Seq(stay) /\ DOMAIN place = 1 .. m
      /\ \A i \in 1 .. m : place[i] \in stay
      /\ \A x \in stay : \E i \in 1 .. m : place[i] = x
      /\ \A i, j \in 1 .. m : i < j => place[i] < place[j]
      /\ Len(place) = m
  <2> HIDE DEF stay
  <2> QED BY <1>2, IdsSorted
<1>4. Without(o, R) = [j \in 1 .. m |-> o[place[j]]]
  BY DEF Without
<1>5. place \in [1 .. m -> 1 .. n]
  <2>1. place \in [1 .. m -> stay]
    <3> HIDE DEF place, m, stay
    <3> QED BY <1>3
  <2> HIDE DEF place, m
  <2> QED BY <2>1
<1>6. m = Cardinality({i \in 1 .. n : o[i] \notin R})
  OBVIOUS
<1>7. /\ \A j \in 1 .. m : o[place[j]] \notin R
      /\ \A k \in 1 .. n : o[k] \notin R => \E j \in 1 .. m : place[j] = k
  <2> HIDE DEF place, m
  <2> QED BY <1>3
<1>8. \A i, j \in 1 .. m : i < j => place[i] < place[j]
  BY <1>3
<1>9. m \in Nat /\ place \in Seq(Int)
  <2>1. place \in Seq(stay) /\ stay \subseteq Int /\ m \in Nat
    BY <1>2, <1>3
  <2> HIDE DEF place, m, stay
  <2> QED BY <2>1, SeqMonotonic
<1> HIDE DEF place, m, stay
<1>10. Stays(o, R, n, m, place)
  BY <1>4, <1>5, <1>6, <1>7, <1>8 DEF Stays
<1> QED BY <1>9, <1>10

(* The experts of a step, put behind those of the cache that it leaves.    *)
Queue(o, R) == Without(o, R) \o ById(R)
Used(u, s, R) == [e \in Ids |-> IF e \in R THEN s + 1 ELSE u[e]]

(* It names the experts of both, each once, by their last use. *)
InLine(o, u, s, R, cap) ==
  LET w == Queue(o, R)
      v == Used(u, s, R)
  IN /\ w \in Seq(Ids) /\ Len(w) \in Nat
     /\ \A i, j \in 1 .. Len(w) : w[i] = w[j] => i = j
     /\ \A i, j \in 1 .. Len(w) : i < j => v[w[i]] <= v[w[j]]
     /\ \A e \in Ids :
          (\E i \in 1 .. Len(w) : w[i] = e) <=> e \in R \/ (\E i \in 1 .. cap : o[i] = e)

LEMMA QueueOrders ==
  ASSUME NEW o, NEW u, NEW s \in Nat, NEW cap \in Nat, Recent(o, u, s, cap), NEW R \in SUBSET Ids
  PROVE  InLine(o, u, s, R, cap)
<1>0. cap \in Nat /\ DOMAIN o = 1 .. cap /\ \A i \in 1 .. cap : o[i] \in Ids
  <2>1. cap \in Nat /\ o \in Seq(Ids) /\ Len(o) = cap
    BY PrefetchBounds DEF Recent
  <2> QED BY <2>1
<1>1. PICK m \in Nat, place \in Seq(Int) : Stays(o, R, cap, m, place)
  BY <1>0, WithoutKeeps
<1>2. /\ place \in [1 .. m -> 1 .. cap]
      /\ Without(o, R) = [j \in 1 .. m |-> o[place[j]]]
      /\ \A j \in 1 .. m : o[place[j]] \notin R
      /\ \A i, j \in 1 .. m : i < j => place[i] < place[j]
      /\ \A k \in 1 .. cap : o[k] \notin R => \E j \in 1 .. m : place[j] = k
  BY <1>1 DEF Stays
<1> DEFINE a == Without(o, R)
           b == ById(R)
           n == Cardinality(R)
           w == Queue(o, R)
           v == Used(u, s, R)
<1>3. a \in Seq(Ids) /\ Len(a) = m /\ \A j \in 1 .. m : a[j] = o[place[j]] /\ place[j] \in 1 .. cap
  <2>1. \A j \in 1 .. m : place[j] \in 1 .. cap /\ o[place[j]] \in Ids
    BY <1>0, <1>2
  <2>2. a = [j \in 1 .. m |-> o[place[j]]]
    BY <1>2
  <2> HIDE DEF a
  <2>3. a \in [1 .. m -> Ids] /\ \A j \in 1 .. m : a[j] = o[place[j]]
    BY <2>1, <2>2
  <2>4. a \in Seq(Ids)
    BY <2>3, SeqDef
  <2> QED BY <2>1, <2>3, <2>4
<1>4. IsFiniteSet(R) /\ R \subseteq Int
  <2>1. IsFiniteSet(Ids) /\ Ids \subseteq Int
    BY PrefetchBounds
  <2> QED BY <2>1, FS_Subset
<1>5. /\ n \in Nat /\ b \in Seq(R) /\ Len(b) = n
      /\ \A i \in 1 .. n : b[i] \in R
      /\ \A x \in R : \E i \in 1 .. n : b[i] = x
      /\ \A i, j \in 1 .. n : i < j => b[i] < b[j]
  BY <1>4, IdsSorted
<1>6. b \in Seq(Ids)
  <2> HIDE DEF b, n
  <2> QED BY <1>5
<1>7. w = a \o b
  BY DEF Queue
<1> HIDE DEF a, b, n, w
<1>71. /\ a \in Seq(Ids) /\ Len(a) = m /\ b \in Seq(Ids) /\ Len(b) = n /\ n \in Nat
  BY <1>3, <1>5, <1>6
<1>72. /\ w \in Seq(Ids) /\ Len(w) = Len(a) + Len(b)
       /\ \A i \in 1 .. Len(a) + Len(b) : w[i] = IF i <= Len(a) THEN a[i] ELSE b[i - Len(a)]
  BY <1>7, <1>71, ConcatProperties
<1>8. w \in Seq(Ids) /\ Len(w) = m + n
  BY <1>71, <1>72
<1>9. \A i \in 1 .. m + n : w[i] = IF i <= m THEN a[i] ELSE b[i - m]
  BY <1>71, <1>72
<1>10. \A i \in 1 .. m + n :
         \/ i \in 1 .. m /\ w[i] = o[place[i]] /\ place[i] \in 1 .. cap /\ w[i] \notin R
         \/ i - m \in 1 .. n /\ w[i] = b[i - m] /\ w[i] \in R
  BY <1>2, <1>3, <1>5, <1>9
<1>11. ASSUME NEW i \in 1 .. m + n, NEW j \in 1 .. m + n, i < j
       PROVE  w[i] # w[j] /\ v[w[i]] <= v[w[j]]
  <2>0. n \in Nat /\ i \in Int /\ j \in Int
    BY <1>71
  <2>1. w[i] \in Ids /\ w[j] \in Ids
    BY <1>8
  <2>2. v[w[i]] = (IF w[i] \in R THEN s + 1 ELSE u[w[i]]) /\ v[w[j]] = (IF w[j] \in R THEN s + 1 ELSE u[w[j]])
    BY <2>1 DEF Used
  <2>3. u[w[i]] \in 0 .. s /\ u[w[j]] \in 0 .. s
    BY <2>1 DEF Recent
  <2>4. CASE w[j] \notin R
    <3>0. j \in 1 .. m
      BY <1>10, <2>4
    <3>1. j \in 1 .. m /\ i \in 1 .. m
      BY <1>11, <2>0, <3>0
    <3>2. w[i] = o[place[i]] /\ w[j] = o[place[j]] /\ place[i] \in 1 .. cap /\ place[j] \in 1 .. cap
          /\ w[i] \notin R
      BY <1>2, <1>3, <1>9, <3>1
    <3>30. \A p, q \in 1 .. m : p < q => place[p] < place[q]
      BY <1>2
    <3>3. place[i] < place[j]
      BY <1>11, <3>1, <3>30
    <3>4. o[place[i]] # o[place[j]] /\ u[o[place[i]]] <= u[o[place[j]]]
      BY <3>2, <3>3 DEF Recent
    <3> QED BY <2>2, <2>4, <3>2, <3>4
  <2>5. CASE w[j] \in R /\ w[i] \notin R
    BY <2>2, <2>3, <2>5
  <2>6. CASE w[j] \in R /\ w[i] \in R
    <3>1. i - m \in 1 .. n /\ j - m \in 1 .. n /\ w[i] = b[i - m] /\ w[j] = b[j - m]
      BY <1>10, <2>6
    <3>2. i - m < j - m
      BY <1>11, <2>0
    <3>3. b[i - m] < b[j - m]
      BY <1>5, <3>1, <3>2
    <3>30. Ids \subseteq Nat
      BY PrefetchBounds
    <3>4. w[i] # w[j]
      <4>1. w[i] < w[j] /\ w[i] \in Nat /\ w[j] \in Nat
        BY <2>1, <3>1, <3>3, <3>30
      <4> QED BY <4>1
    <3> QED BY <2>2, <2>6, <3>4
  <2> QED BY <2>4, <2>5, <2>6
<1>12. ASSUME NEW e \in Ids
       PROVE  (\E i \in 1 .. m + n : w[i] = e) <=> e \in R \/ (\E i \in 1 .. cap : o[i] = e)
  <2>1. ASSUME NEW i \in 1 .. m + n, w[i] = e PROVE e \in R \/ (\E k \in 1 .. cap : o[k] = e)
    BY <1>10, <2>1
  <2>2. ASSUME e \in R PROVE \E i \in 1 .. m + n : w[i] = e
    <3>1. PICK k \in 1 .. n : b[k] = e
      BY <1>5, <2>2
    <3>2. m + k \in 1 .. m + n /\ ~ (m + k <= m) /\ (m + k) - m = k
      BY <1>5
    <3>3. w[m + k] = e
      BY <1>9, <3>1, <3>2
    <3> QED BY <3>2, <3>3
  <2>3. ASSUME e \notin R, NEW k \in 1 .. cap, o[k] = e PROVE \E i \in 1 .. m + n : w[i] = e
    <3>1. PICK j \in 1 .. m : place[j] = k
      BY <1>2, <2>3
    <3>2. j \in 1 .. m + n /\ j <= m
      BY <1>5
    <3>3. w[j] = e
      BY <1>3, <1>9, <2>3, <3>1, <3>2
    <3> QED BY <3>2, <3>3
  <2> QED BY <2>1, <2>2, <2>3
<1>13. \A i, j \in 1 .. m + n : w[i] = w[j] => i = j
  <2> SUFFICES ASSUME NEW i \in 1 .. m + n, NEW j \in 1 .. m + n, w[i] = w[j], i # j PROVE FALSE
    OBVIOUS
  <2>1. i < j \/ j < i
    BY <1>5
  <2> QED BY <2>1, <1>11
<1>14. \A i, j \in 1 .. m + n : i < j => v[w[i]] <= v[w[j]]
  BY <1>11
<1> QED BY <1>5, <1>8, <1>12, <1>13, <1>14 DEF InLine, w, v

(* A cache still holds its most recently used after a step. *)
LEMMA StepKeeps ==
  ASSUME NEW o, NEW u, NEW s \in Nat, NEW cap \in Nat, Recent(o, u, s, cap), NEW R \in SUBSET Ids,
         Cardinality(R) \in Nat, Cardinality(R) <= Depth
  PROVE  Recent(LruStep(o, R, cap), Used(u, s, R), s + 1, cap)
<1> DEFINE w == Queue(o, R)
           v == Used(u, s, R)
           n == Len(w)
           d == n - cap
           x == LruStep(o, R, cap)
<1>0. cap \in Nat /\ Depth \in Nat \ {0} /\ IsFiniteSet(Ids) /\ Ids \subseteq Nat
  BY PrefetchBounds
<1>1. /\ w \in Seq(Ids) /\ n \in Nat
      /\ \A i, j \in 1 .. n : w[i] = w[j] => i = j
      /\ \A i, j \in 1 .. n : i < j => v[w[i]] <= v[w[j]]
      /\ \A e \in Ids : (\E i \in 1 .. n : w[i] = e) <=> e \in R \/ (\E i \in 1 .. cap : o[i] = e)
  <2>1. InLine(o, u, s, R, cap)
    BY QueueOrders
  <2> QED BY <2>1 DEF InLine
<1>2. x = IF n <= cap THEN w ELSE SubSeq(w, n - cap + 1, n)
  BY DEF LruStep, Trimmed, Queue
<1>3. u \in [Ids -> 0 .. s] /\ \A i \in 1 .. cap : o[i] \in Ids
  <2>1. o \in Seq(Ids) /\ Len(o) = cap
    BY DEF Recent
  <2> QED BY <1>0, <2>1 DEF Recent
<1>4. v \in [Ids -> 0 .. s + 1] /\ \A e \in Ids : v[e] = IF e \in R THEN s + 1 ELSE u[e]
  BY <1>3 DEF Used
<1> HIDE DEF w, v, x
<1>5. cap <= n
  <2> DEFINE C == {o[i] : i \in 1 .. cap}
             W == {w[i] : i \in 1 .. n}
             f == [i \in 1 .. cap |-> o[i]]
             g == [i \in 1 .. n |-> w[i]]
  <2>1. f \in Bijection(1 .. cap, C)
    BY DEF Recent, Bijection, Injection, IsInjective, Surjection
  <2>2. g \in Surjection(1 .. n, W)
    BY DEF Surjection
  <2>3. IsFiniteSet(1 .. cap) /\ Cardinality(1 .. cap) = cap /\ IsFiniteSet(1 .. n) /\ Cardinality(1 .. n) = n
    BY <1>0, <1>1, FirstCounted
  <2>4. C \subseteq W
    <3>1. \A i \in 1 .. cap : \E k \in 1 .. n : w[k] = o[i]
      BY <1>1, <1>3
    <3> QED BY <3>1
  <2> HIDE DEF f, g, C, W
  <2>5. IsFiniteSet(W) /\ Cardinality(W) <= n
    BY <2>2, <2>3, FS_Surjection
  <2>6. Cardinality(C) <= Cardinality(W) /\ IsFiniteSet(C)
    BY <2>4, <2>5, FS_Subset
  <2>7. Cardinality(C) = cap
    BY <2>1, <2>3, FS_Bijection DEF ExistsBijection
  <2>8. Cardinality(C) \in Nat /\ Cardinality(W) \in Nat
    BY <2>5, <2>6, FS_CardinalityType
  <2> HIDE DEF n
  <2> QED BY <1>0, <1>1, <2>5, <2>6, <2>7, <2>8
<1>6. d \in Nat /\ d + cap = n
  <2> HIDE DEF n
  <2> QED BY <1>0, <1>1, <1>5
<1>7. x \in Seq(Ids) /\ Len(x) = cap /\ \A i \in 1 .. cap : x[i] = w[i + d] /\ i + d \in 1 .. n
  <2>1. CASE n <= cap
    <3>1. d = 0 /\ n = cap
      BY <1>0, <1>1, <1>5, <2>1
    <3> QED BY <1>0, <1>1, <1>2, <2>1, <3>1
  <2>2. CASE ~ (n <= cap)
    <3>1. x = SubSeq(w, d + 1, n)
      BY <1>2, <2>2
    <3>2. d + 1 \in 1 .. n + 1 /\ n \in d .. n
      BY <1>0, <1>1, <1>6
    <3>3. x \in Seq(Ids) /\ Len(x) = n - (d + 1) + 1
          /\ \A i \in 1 .. n - (d + 1) + 1 : x[i] = w[(d + 1) + i - 1]
      BY <1>0, <1>1, <1>6, <3>1, <3>2, SubSeqProperties
    <3>4. n - (d + 1) + 1 = cap
      BY <1>0, <1>1, <1>6
    <3>5. \A i \in 1 .. cap : (d + 1) + i - 1 = i + d /\ i + d \in 1 .. n
      BY <1>0, <1>1, <1>6
    <3> QED BY <3>3, <3>4, <3>5
  <2> QED BY <2>1, <2>2
<1> HIDE DEF d, n
<1>8. \A i, j \in 1 .. cap : x[i] = x[j] => i = j
  <2> SUFFICES ASSUME NEW i \in 1 .. cap, NEW j \in 1 .. cap, x[i] = x[j] PROVE i = j
    OBVIOUS
  <2>1. i + d = j + d
    BY <1>1, <1>7
  <2> QED BY <1>6, <2>1
<1>9. \A i, j \in 1 .. cap : i < j => v[x[i]] <= v[x[j]]
  <2> SUFFICES ASSUME NEW i \in 1 .. cap, NEW j \in 1 .. cap, i < j PROVE v[x[i]] <= v[x[j]]
    OBVIOUS
  <2>1. i + d < j + d
    BY <1>6
  <2> QED BY <1>1, <1>7, <2>1
<1>10. ASSUME NEW e \in Ids, NEW i \in 1 .. cap, e \notin ToSet(x) PROVE v[e] <= v[x[i]]
  <2>0. x[i] = w[i + d] /\ i + d \in 1 .. n
    BY <1>7
  <2>1. CASE \E k \in 1 .. n : w[k] = e
    <3>1. PICK k \in 1 .. n : w[k] = e
      BY <2>1
    <3>2. ~ (k > d)
      <4> SUFFICES ASSUME k > d PROVE FALSE
        OBVIOUS
      <4>1. k - d \in 1 .. cap /\ (k - d) + d = k
        BY <1>0, <1>1, <1>6
      <4>2. x[k - d] = e
        BY <1>7, <3>1, <4>1
      <4>3. DOMAIN x = 1 .. cap
        BY <1>0, <1>7
      <4>4. e \in ToSet(x)
        BY <4>1, <4>2, <4>3 DEF ToSet
      <4> QED BY <1>10, <4>4
    <3>3. k < i + d
      BY <1>0, <1>1, <1>6, <3>2
    <3> QED BY <1>1, <2>0, <3>1, <3>3
  <2>2. CASE ~ \E k \in 1 .. n : w[k] = e
    <3>1. e \notin R /\ ~ \E k \in 1 .. cap : o[k] = e
      BY <1>1, <2>2
    <3>2. e \notin ToSet(o)
      <4>1. DOMAIN o = 1 .. cap
        <5>1. o \in Seq(Ids) /\ Len(o) = cap
          BY DEF Recent
        <5> QED BY <1>0, <5>1
      <4> QED BY <3>1, <4>1 DEF ToSet
    <3>3. v[e] = u[e] /\ u[e] \in 0 .. s
      BY <1>3, <1>4, <3>1
    <3>40. x[i] \in Ids
      BY <1>7
    <3>4. x[i] \in Ids /\ (x[i] \in R \/ \E k \in 1 .. cap : o[k] = x[i])
      <4>1. \E k \in 1 .. n : w[k] = x[i]
        BY <2>0
      <4> QED BY <1>1, <3>40, <4>1
    <3>5. v[x[i]] = IF x[i] \in R THEN s + 1 ELSE u[x[i]]
      BY <1>4, <3>4
    <3>6. CASE x[i] \in R
      BY <3>3, <3>5, <3>6
    <3>7. CASE x[i] \notin R
      <4>1. PICK k \in 1 .. cap : o[k] = x[i]
        BY <3>4, <3>7
      <4>2. u[e] <= u[o[k]]
        BY <3>2, <4>1 DEF Recent
      <4> QED BY <3>3, <3>5, <3>7, <4>1, <4>2
    <3> QED BY <3>6, <3>7
  <2> QED BY <2>1, <2>2
<1>11. ASSUME NEW q \in 1 .. s + 1
       PROVE  Cardinality({e \in Ids : v[e] >= q}) <= Depth * ((s + 1) - q + 1)
  <2> DEFINE old == {e \in Ids : u[e] >= q}
             new == {e \in Ids : v[e] >= q}
  <2>1. IsFiniteSet(old) /\ IsFiniteSet(new) /\ IsFiniteSet(R)
    BY <1>0, FS_Subset
  <2>2. new \subseteq old \cup R
    BY <1>4
  <2>3. Cardinality(old \cup R) = Cardinality(old) + Cardinality(R) - Cardinality(old \cap R)
        /\ IsFiniteSet(old \cup R)
    BY <2>1, FS_Union
  <2>4. Cardinality(new) <= Cardinality(old \cup R)
    BY <2>2, <2>3, FS_Subset
  <2>5. /\ Cardinality(old) \in Nat /\ Cardinality(new) \in Nat /\ Cardinality(old \cap R) \in Nat
        /\ Cardinality(old \cup R) \in Nat
    <3>1. IsFiniteSet(old \cap R)
      BY <2>1, FS_Subset
    <3> QED BY <2>1, <2>3, <3>1, FS_CardinalityType
  <2>6. Cardinality(old) <= Depth * (s - q + 1)
    <3>1. CASE q \in 1 .. s
      BY <3>1 DEF Recent
    <3>2. CASE q = s + 1
      <4>1. old = {}
        BY <1>3, <3>2
      <4>2. Cardinality(old) = 0
        BY <4>1, FS_EmptySet
      <4>3. s - q + 1 = 0
        BY <3>2
      <4>4. Depth * 0 = 0
        BY <1>0
      <4> QED BY <4>2, <4>3, <4>4
    <3>3. q \in 1 .. s \/ q = s + 1
      OBVIOUS
    <3> QED BY <3>1, <3>2, <3>3
  <2>7. Depth * ((s + 1) - q + 1) = Depth * (s - q + 1) + Depth /\ Depth * (s - q + 1) \in Int
    BY <1>0
  <2> HIDE DEF old, new
  <2>8. Cardinality(new) <= Depth * (s - q + 1) + Depth
    BY <1>0, <2>3, <2>4, <2>5, <2>6, <2>7
  <2>9. Cardinality(new) <= Depth * ((s + 1) - q + 1)
    BY <2>7, <2>8
  <2> QED BY <2>9 DEF new
<1> QED
  BY <1>4, <1>7, <1>8, <1>9, <1>10, <1>11 DEF Recent, v, x

(* What was used within the last cap \div Depth steps is still there.      *)
LEMMA HeldWhole ==
  ASSUME NEW o, NEW u, NEW s \in Nat, NEW cap \in Nat, Recent(o, u, s, cap),
         NEW e \in Ids, e \notin ToSet(o),
         u[e] # 0, NEW k \in 1 .. cap \div Depth
  PROVE  s + 1 - u[e] # k
<1> SUFFICES ASSUME s + 1 - u[e] = k PROVE FALSE
  OBVIOUS
<1>0. cap \in Nat /\ Depth \in Nat \ {0} /\ IsFiniteSet(Ids)
  BY PrefetchBounds
<1>1. u \in [Ids -> 0 .. s] /\ o \in Seq(Ids) /\ Len(o) = cap
  BY DEF Recent
<1>2. DOMAIN o = 1 .. cap /\ \A i \in 1 .. cap : o[i] \in Ids
  BY <1>0, <1>1
<1> DEFINE q == u[e]
           C == {o[i] : i \in 1 .. cap}
           since == {x \in Ids : u[x] >= q}
           f == [i \in 1 .. cap |-> o[i]]
<1>3. q \in 1 .. s /\ s - q + 1 = k
  BY <1>1
<1>4. C \cup {e} \subseteq since /\ e \notin C
  <2>1. \A i \in 1 .. cap : u[e] <= u[o[i]]
    BY DEF Recent
  <2>2. \A i \in 1 .. cap : u[o[i]] \in 0 .. s
    BY <1>1, <1>2
  <2>3. e \notin C
    BY <1>2 DEF ToSet
  <2>4. e \in since
    BY <1>1, <1>3
  <2>5. \A i \in 1 .. cap : o[i] \in since
    BY <1>2, <2>1
  <2> HIDE DEF since
  <2> QED BY <2>3, <2>4, <2>5
<1>5. f \in Bijection(1 .. cap, C)
  BY DEF Recent, Bijection, Injection, IsInjective, Surjection
<1>6. IsFiniteSet(1 .. cap) /\ Cardinality(1 .. cap) = cap
  BY <1>0, FirstCounted
<1>7. IsFiniteSet(since)
  BY <1>0, FS_Subset
<1>8. Cardinality(since) <= Depth * (s - q + 1)
  BY <1>3 DEF Recent
<1> HIDE DEF q, C, since, f
<1>9. IsFiniteSet(C) /\ Cardinality(C) = cap
  BY <1>5, <1>6, FS_Bijection DEF ExistsBijection
<1>10. IsFiniteSet(C \cup {e}) /\ Cardinality(C \cup {e}) = cap + 1
  BY <1>4, <1>9, FS_AddElement
<1>11. Cardinality(C \cup {e}) <= Cardinality(since) /\ Cardinality(since) \in Nat
  BY <1>4, <1>7, FS_Subset, FS_CardinalityType
<1>12. Depth * k <= cap
  <2>1. cap \div Depth \in Nat /\ (cap \div Depth) * Depth <= cap
    BY <1>0, QuotientBounds
  <2>2. k \in Nat /\ k <= cap \div Depth
    BY <2>1
  <2>3. k * Depth <= (cap \div Depth) * Depth
    BY <1>0, <2>1, <2>2, ProductMonotone
  <2>4. k * Depth = Depth * k /\ k * Depth \in Int /\ (cap \div Depth) * Depth \in Int
    BY <1>0, <2>1, <2>2
  <2> QED BY <1>0, <2>1, <2>3, <2>4
<1>13. Cardinality(since) <= Depth * k
  BY <1>3, <1>8
<1>14. Depth * k \in Int
  BY <1>0
<1> QED BY <1>0, <1>10, <1>11, <1>12, <1>13, <1>14

(* The profile ranks every expert once, so the caches begin full.          *)
LEMMA WarmIsKept ==
  ASSUME NEW l \in LayerIds
  PROVE  Recent(Warm(l), [e \in Ids |-> Never], 0, SlotsOf[l])
<1> DEFINE cap == SlotsOf[l]
           best == Ranked[l]
           warm == Warm(l)
<1>0. /\ cap \in Nat /\ cap <= NExperts /\ NExperts \in Nat
      /\ IsFiniteSet(Ids) /\ Cardinality(Ids) = NExperts
  BY PrefetchBounds
<1>1. best \in [1 .. NExperts -> Ids] /\ ToSet(best) = Ids
  BY PrefetchAssumption
<1>2. best \in Surjection(1 .. NExperts, Ids)
  BY <1>1 DEF ToSet, Surjection
<1>3. Cardinality(1 .. NExperts) = NExperts /\ IsFiniteSet(1 .. NExperts)
  BY <1>0, FirstCounted
<1>4. best \in Injection(1 .. NExperts, Ids)
  BY <1>0, <1>2, <1>3, FS_SurjSameCardinalityImpliesInj
<1>5. \A i, j \in 1 .. NExperts : best[i] = best[j] => i = j
  BY <1>1, <1>4 DEF Injection, IsInjective
<1>6. best \in Seq(Ids) /\ Len(best) = NExperts
  <2>1. best \in Seq(Ids)
    BY <1>0, <1>1, SeqDef
  <2> QED BY <1>0, <1>1, <2>1
<1>7. /\ warm \in Seq(Ids) /\ Len(warm) = cap - 1 + 1
      /\ \A i \in 1 .. cap - 1 + 1 : warm[i] = best[1 + i - 1]
  <2>1. 1 \in 1 .. Len(best) + 1 /\ cap \in 1 - 1 .. Len(best)
    BY <1>0, <1>6
  <2> QED BY <1>6, <2>1, SubSeqProperties DEF Warm
<1>8. Len(warm) = cap /\ \A i \in 1 .. cap : warm[i] = best[i] /\ i \in 1 .. NExperts
  <2>1. cap - 1 + 1 = cap /\ \A i \in 1 .. cap : 1 + i - 1 = i /\ i \in 1 .. NExperts
    BY <1>0
  <2> QED BY <1>7, <2>1
<1>9. \A i, j \in 1 .. cap : warm[i] = warm[j] => i = j
  BY <1>5, <1>8
<1>10. \A i \in 1 .. cap : warm[i] \in Ids
  BY <1>1, <1>8
<1> DEFINE u == [e \in Ids |-> Never]
<1>11. u \in [Ids -> 0 .. 0] /\ \A e \in Ids : u[e] = 0
  BY DEF Never
<1>12. \A v \in 1 .. 0 : FALSE
  OBVIOUS
<1> HIDE DEF u
<1>13. warm \in Seq(Ids)
  BY <1>7
<1>14. \A i, j \in 1 .. cap : i < j => u[warm[i]] <= u[warm[j]]
  BY <1>10, <1>11
<1>15. \A e \in Ids, i \in 1 .. cap : e \notin ToSet(warm) => u[e] <= u[warm[i]]
  BY <1>10, <1>11
<1>16. Recent(warm, u, 0, cap)
  BY <1>8, <1>9, <1>11, <1>12, <1>13, <1>14, <1>15 DEF Recent
<1> QED BY <1>16 DEF u

----------------------------------------------------------------------------
(* What is picked.                                                         *)

(* The loop is at a layer of a step. *)
AtLayer == capture \in Captures /\ now \in 1 .. T /\ layer \in LayerIds

LEMMA MissedCounted ==
  ASSUME AtLayer
  PROVE  /\ Missed \in SUBSET Ids /\ IsFiniteSet(Missed)
         /\ Cardinality(Missed) \in Nat /\ Cardinality(Missed) <= Depth
<1>1. /\ sets(capture, now, layer) \in SUBSET Ids /\ IsFiniteSet(sets(capture, now, layer))
      /\ Cardinality(sets(capture, now, layer)) \in Nat
      /\ Cardinality(sets(capture, now, layer)) <= Depth
  BY SetsCounted DEF AtLayer
<1>2. Missed \subseteq sets(capture, now, layer)
  BY DEF Missed
<1>3. IsFiniteSet(Missed) /\ Cardinality(Missed) <= Cardinality(sets(capture, now, layer))
  BY <1>1, <1>2, FS_Subset
<1>4. Cardinality(Missed) \in Nat
  BY <1>3, FS_CardinalityType
<1> QED BY <1>1, <1>2, <1>3, <1>4, PrefetchBounds

(* Every predictor has a list. *)
LEMMA CandidatesListed ==
  ASSUME AtLayer, NEW p \in Predictors
  PROVE  \E n \in Nat : DOMAIN Candidates(p, capture, now, layer) = 1 .. n
<1>1. CASE p = "last"
  <2>1. CASE now = 1
    <3>1. Candidates(p, capture, now, layer) = <<>>
      BY <1>1, <2>1 DEF Candidates, LastStep
    <3>2. DOMAIN <<>> = 1 .. 0
      OBVIOUS
    <3> QED BY <3>1, <3>2
  <2>2. CASE now # 1
    <3>1. Candidates(p, capture, now, layer) = ById(sets(capture, now - 1, layer))
      BY <1>1, <2>2 DEF Candidates, LastStep
    <3>2. now - 1 \in 1 .. T
      BY <2>2, PrefetchBounds DEF AtLayer
    <3>3. IsFiniteSet(sets(capture, now - 1, layer)) /\ sets(capture, now - 1, layer) \in SUBSET Ids
      BY <3>2, SetsCounted DEF AtLayer
    <3>4. sets(capture, now - 1, layer) \subseteq Int
      <4>1. Ids \subseteq Int
        BY PrefetchBounds
      <4> QED BY <3>3, <4>1
    <3> QED BY <3>1, <3>3, <3>4, IdsSorted
  <2> QED BY <2>1, <2>2
<1>2. CASE p = "freq"
  <2>1. Candidates(p, capture, now, layer) = Ranked[layer]
    BY <1>2 DEF Candidates
  <2>2. layer \in LayerIds
    BY DEF AtLayer
  <2>3. Ranked[layer] \in [1 .. NExperts -> Ids] /\ NExperts \in Nat
    BY <2>2, PrefetchAssumption
  <2>4. Ranked[layer] \in Seq(Ids)
    BY <2>3, SeqDef
  <2> QED BY <2>1, <2>4
<1>3. CASE p = "cooc"
  <2> DEFINE score == [f \in Ids |->
               SumFunctionOnSet([e \in Ids |-> Cooc(capture, layer, e, f)],
                                sets(capture, now, layer - 1))]
  <2>1. Candidates(p, capture, now, layer) = ByScore(score)
    BY <1>3 DEF Candidates
  <2> HIDE DEF score
  <2>2. DOMAIN ByScore(score) = 1 .. NExperts
    BY PrefetchBounds DEF ByScore, Sorted
  <2> QED BY <2>1, <2>2, PrefetchBounds
<1>4. CASE p = "oracle"
  <2>1. Candidates(p, capture, now, layer) = ById(Missed)
    BY <1>4 DEF Candidates, Missed
  <2>2. IsFiniteSet(Missed) /\ Missed \subseteq Int
    <3>1. Ids \subseteq Int
      BY PrefetchBounds
    <3> QED BY <3>1, MissedCounted
  <2> QED BY <2>1, <2>2, IdsSorted
<1> QED BY <1>1, <1>2, <1>3, <1>4 DEF Predictors

(* It picks the first of those that stay, no more than it may. *)
LEMMA FewPicks ==
  ASSUME AtLayer, NEW p \in Predictors, NEW b \in Nat, NEW n \in Nat,
         DOMAIN Candidates(p, capture, now, layer) = 1 .. n
  PROVE  \E m \in Nat, place \in Seq(Int) :
           /\ Stays(Candidates(p, capture, now, layer), ToSet(od[layer]), n, m, place)
           /\ Pick(p, capture, now, layer, b)
                = {Candidates(p, capture, now, layer)[place[i]] : i \in 1 .. Min({b, m})}
<1> DEFINE c == Candidates(p, capture, now, layer)
           r == ToSet(od[layer])
           fresh == Without(c, r)
<1>0. DOMAIN c = 1 .. n
  OBVIOUS
<1>1. PICK m \in Nat, place \in Seq(Int) : Stays(c, r, n, m, place)
  <2> HIDE DEF c, r
  <2> QED BY <1>0, WithoutKeeps
<1>2. fresh = [j \in 1 .. m |-> c[place[j]]]
  <2> HIDE DEF c, r
  <2> QED BY <1>1 DEF Stays
<1>3. Len(fresh) = m
  <2> HIDE DEF c, r, fresh
  <2> QED BY <1>2
<1>4. Pick(p, capture, now, layer, b) = {fresh[i] : i \in 1 .. Min({b, Len(fresh)})}
  BY DEF Pick, ResBefore
<1>5. \A i \in 1 .. Min({b, m}) : i \in 1 .. m
  <2>1. Min({b, m}) \in Nat /\ Min({b, m}) <= m
    BY MinOfTwo
  <2> QED BY <2>1
<1>6. Pick(p, capture, now, layer, b) = {c[place[i]] : i \in 1 .. Min({b, m})}
  <2> HIDE DEF c, r, fresh
  <2> QED BY <1>2, <1>3, <1>4, <1>5
<1> QED BY <1>1, <1>6

(* What it names is no more than it may, the misses caught not more than   *)
(* there are.                                                              *)
LEMMA PicksBounded ==
  ASSUME AtLayer, NEW p \in Predictors, NEW b \in Nat
  PROVE  /\ Cardinality(Pick(p, capture, now, layer, b)) \in Nat
         /\ Cardinality(Missed \cap Pick(p, capture, now, layer, b)) \in Nat
         /\ Cardinality(Missed \cap Pick(p, capture, now, layer, b)) <= b
         /\ Cardinality(Missed \cap Pick(p, capture, now, layer, b)) <= Cardinality(Missed)
<1>1. PICK n \in Nat : DOMAIN Candidates(p, capture, now, layer) = 1 .. n
  BY CandidatesListed
<1> DEFINE c == Candidates(p, capture, now, layer)
           P == Pick(p, capture, now, layer, b)
           M == Missed
<1>2. PICK m \in Nat, place \in Seq(Int) :
        Stays(c, ToSet(od[layer]), n, m, place) /\ P = {c[place[i]] : i \in 1 .. Min({b, m})}
  <2>1. \E m \in Nat, place \in Seq(Int) :
          Stays(c, ToSet(od[layer]), n, m, place) /\ P = {c[place[i]] : i \in 1 .. Min({b, m})}
    BY <1>1, FewPicks
  <2> HIDE DEF c, P
  <2> QED BY <2>1
<1> DEFINE k == Min({b, m})
           f == [i \in 1 .. k |-> c[place[i]]]
<1>3. k \in Nat /\ k <= b
  BY MinOfTwo
<1> HIDE DEF c, k
<1>4. P = {c[place[i]] : i \in 1 .. k}
  BY <1>2 DEF k
<1> HIDE DEF P
<1>5. f \in Surjection(1 .. k, P)
  BY <1>4 DEF Surjection
<1>6. IsFiniteSet(1 .. k) /\ Cardinality(1 .. k) = k
  BY <1>3, FirstCounted
<1> HIDE DEF f
<1>7. IsFiniteSet(P) /\ Cardinality(P) <= k /\ Cardinality(P) \in Nat
  BY <1>5, <1>6, FS_Surjection, FS_CardinalityType
<1>8. IsFiniteSet(M) /\ Cardinality(M) \in Nat
  BY MissedCounted
<1> HIDE DEF M
<1>9. /\ Cardinality(M \cap P) <= Cardinality(M) /\ Cardinality(M \cap P) <= Cardinality(P)
      /\ IsFiniteSet(M \cap P)
  <2>1. M \cap P \in SUBSET M /\ M \cap P \in SUBSET P
    OBVIOUS
  <2> QED BY <1>7, <1>8, <2>1, FS_Subset
<1>10. Cardinality(M \cap P) \in Nat
  BY <1>9, FS_CardinalityType
<1>11. Cardinality(M \cap P) <= b
  BY <1>3, <1>7, <1>9, <1>10
<1> QED BY <1>7, <1>9, <1>10, <1>11 DEF M, P

(* The oracle names misses, as many as it may.                             *)
LEMMA OraclePicks ==
  ASSUME AtLayer, NEW b \in Nat
  PROVE  /\ Missed \cap Pick("oracle", capture, now, layer, b) = Pick("oracle", capture, now, layer, b)
         /\ Cardinality(Pick("oracle", capture, now, layer, b))
              = IF b <= Cardinality(Missed) THEN b ELSE Cardinality(Missed)
<1> DEFINE M == Missed
           n == Cardinality(M)
           c == ById(M)
           P == Pick("oracle", capture, now, layer, b)
<1>1. IsFiniteSet(M) /\ M \subseteq Int /\ n \in Nat
  <2>1. Ids \subseteq Int
    BY PrefetchBounds
  <2> QED BY <2>1, MissedCounted
<1>2. Candidates("oracle", capture, now, layer) = c
  BY DEF Candidates, Missed
<1>3. \A x \in M : x \notin ToSet(od[layer])
  BY DEF Missed
<1> HIDE DEF M
<1>4. /\ DOMAIN c = 1 .. n
      /\ \A i \in 1 .. n : c[i] \in M
      /\ \A i, j \in 1 .. n : i < j => c[i] < c[j]
  BY <1>1, IdsSorted
<1>5. "oracle" \in Predictors
  BY DEF Predictors
<1>6. PICK m \in Nat, place \in Seq(Int) :
        Stays(c, ToSet(od[layer]), n, m, place) /\ P = {c[place[i]] : i \in 1 .. Min({b, m})}
  <2>1. \E m \in Nat, place \in Seq(Int) :
          /\ Stays(Candidates("oracle", capture, now, layer), ToSet(od[layer]), n, m, place)
          /\ P = {Candidates("oracle", capture, now, layer)[place[i]] : i \in 1 .. Min({b, m})}
    BY <1>1, <1>2, <1>4, <1>5, FewPicks
  <2> DEFINE d == Candidates("oracle", capture, now, layer)
  <2>2. PICK m \in Nat, place \in Seq(Int) :
          Stays(d, ToSet(od[layer]), n, m, place) /\ P = {d[place[i]] : i \in 1 .. Min({b, m})}
    BY <2>1
  <2>3. d = c
    BY <1>2
  <2> HIDE DEF c, P, n, d
  <2>4. Stays(c, ToSet(od[layer]), n, m, place) /\ P = {c[place[i]] : i \in 1 .. Min({b, m})}
    BY <2>2, <2>3
  <2> QED BY <2>4
<1>7. m = n
  <2>1. {i \in 1 .. n : c[i] \notin ToSet(od[layer])} = 1 .. n
    BY <1>3, <1>4
  <2>2. m = Cardinality({i \in 1 .. n : c[i] \notin ToSet(od[layer])})
    BY <1>6 DEF Stays
  <2>3. Cardinality(1 .. n) = n
    BY <1>1, FirstCounted
  <2> QED BY <2>1, <2>2, <2>3
<1>8. place \in [1 .. m -> 1 .. n] /\ \A i, j \in 1 .. m : i < j => place[i] < place[j]
  BY <1>6 DEF Stays
<1> DEFINE k == Min({b, m})
           f == [i \in 1 .. k |-> c[place[i]]]
<1>9. k \in Nat /\ k <= m /\ k = IF b <= n THEN b ELSE n
  <2>1. k \in {b, m} /\ k <= b /\ k <= m
    BY MinOfTwo
  <2> HIDE DEF k, n
  <2> QED BY <1>7, <2>1
<1>10. P = {c[place[i]] : i \in 1 .. k}
  BY <1>6
<1> HIDE DEF c, k, n, P
<1>11. \A i \in 1 .. k : i \in 1 .. m
  BY <1>9
<1>12. \A i \in 1 .. k : place[i] \in 1 .. n /\ c[place[i]] \in M
  BY <1>4, <1>8, <1>11
<1>13. \A i, j \in 1 .. k : i < j => c[place[i]] < c[place[j]]
  <2> SUFFICES ASSUME NEW i \in 1 .. k, NEW j \in 1 .. k, i < j PROVE c[place[i]] < c[place[j]]
    OBVIOUS
  <2>1. i \in 1 .. m /\ j \in 1 .. m
    BY <1>11
  <2>2. place[i] < place[j]
    BY <1>8, <2>1
  <2> QED BY <1>4, <1>12, <2>2
<1>14. \A i, j \in 1 .. k : c[place[i]] = c[place[j]] => i = j
  <2> SUFFICES ASSUME NEW i \in 1 .. k, NEW j \in 1 .. k, c[place[i]] = c[place[j]], i # j PROVE FALSE
    OBVIOUS
  <2>1. c[place[i]] \in Int /\ c[place[j]] \in Int
    BY <1>1, <1>12
  <2>2. i < j \/ j < i
    BY <1>9
  <2> QED BY <1>13, <2>1, <2>2
<1>15. f \in Bijection(1 .. k, P)
  BY <1>10, <1>14 DEF Bijection, Injection, IsInjective, Surjection
<1>16. IsFiniteSet(1 .. k) /\ Cardinality(1 .. k) = k
  BY <1>9, FirstCounted
<1> HIDE DEF f
<1>17. Cardinality(P) = k
  BY <1>15, <1>16, FS_Bijection DEF ExistsBijection
<1>18. P \subseteq M
  BY <1>10, <1>12
<1>19. M \cap P = P
  BY <1>18
<1> QED BY <1>9, <1>17, <1>19 DEF M, P, n

(* So nothing catches more, and with a name for each row it misses none.   *)
LEMMA OracleIsBest ==
  ASSUME AtLayer, NEW p \in Predictors, NEW b \in Nat
  PROVE  /\ Cardinality(Missed \cap Pick(p, capture, now, layer, b))
              <= Cardinality(Missed \cap Pick("oracle", capture, now, layer, b))
         /\ Cardinality(Missed \cap Pick("oracle", capture, now, layer, b))
              = Cardinality(Pick("oracle", capture, now, layer, b))
         /\ b >= Depth => Cardinality(Missed \cap Pick("oracle", capture, now, layer, b))
                            = Cardinality(Missed)
<1>1. Cardinality(Missed) \in Nat /\ Cardinality(Missed) <= Depth
  BY MissedCounted
<1>2. /\ Cardinality(Missed \cap Pick(p, capture, now, layer, b)) \in Nat
      /\ Cardinality(Missed \cap Pick(p, capture, now, layer, b)) <= b
      /\ Cardinality(Missed \cap Pick(p, capture, now, layer, b)) <= Cardinality(Missed)
  BY PicksBounded
<1>3. /\ Missed \cap Pick("oracle", capture, now, layer, b) = Pick("oracle", capture, now, layer, b)
      /\ Cardinality(Pick("oracle", capture, now, layer, b))
           = IF b <= Cardinality(Missed) THEN b ELSE Cardinality(Missed)
  BY OraclePicks
<1>4. Depth \in Nat
  BY PrefetchBounds
<1> QED BY <1>1, <1>2, <1>3, <1>4

(* Every miss is of one age. *)
Ages == [k \in 0 .. T |-> Cardinality({e \in Missed : Age(e) = k})]

LEMMA AgesAddUp ==
  ASSUME AtLayer, lastuse[layer] \in [Ids -> 0 .. now - 1]
  PROVE  /\ \A k \in 0 .. T : Ages[k] \in Nat
         /\ SumFunctionOnSet(Ages, 0 .. T) = Cardinality(Missed)
<1> DEFINE M == Missed
           g == Ages
           A == [k \in 0 .. T |-> {e \in M : Age(e) = k}]
<1>1. IsFiniteSet(M) /\ M \in SUBSET Ids /\ T \in Nat
  BY MissedCounted, PrefetchBounds
<1>2. \A e \in M : Age(e) \in 0 .. T
  <2>1. \A e \in M : lastuse[layer][e] \in 0 .. now - 1
    BY <1>1
  <2>2. now \in 1 .. T
    BY DEF AtLayer
  <2> HIDE DEF M
  <2> QED BY <1>1, <2>1, <2>2 DEF Age, Never
<1>3. g = [k \in 0 .. T |-> Cardinality({e \in M : Age(e) = k})]
  BY DEF Ages
<1> HIDE DEF M, g
<1>4. ASSUME NEW k \in 0 .. T
      PROVE  A[k] = {e \in M : Age(e) = k} /\ IsFiniteSet(A[k]) /\ g[k] = Cardinality(A[k])
  <2>1. A[k] = {e \in M : Age(e) = k}
    OBVIOUS
  <2>2. A[k] \in SUBSET M
    BY <2>1
  <2> HIDE DEF A
  <2> QED BY <1>1, <1>3, <2>1, <2>2, FS_Subset
<1> HIDE DEF A
<1>5. \A k, q \in 0 .. T : k # q => A[k] \cap A[q] = {}
  BY <1>4
<1>6. IsFiniteSet(0 .. T)
  BY PrefetchBounds
<1>7. SumFunctionOnSet(g, 0 .. T) = Cardinality(UNION {A[k] : k \in 0 .. T})
  <2> DEFINE W == 0 .. T
  <2>1. \A k \in W : IsFiniteSet(A[k]) /\ g[k] = Cardinality(A[k])
    BY <1>4
  <2>2. \A k, q \in W : k # q => A[k] \cap A[q] = {}
    BY <1>5
  <2>3. IsFiniteSet(W)
    BY <1>6
  <2> HIDE DEF W
  <2>4. PICK a, h, w : a = A /\ h = g /\ w = W
    OBVIOUS
  <2>5. SumFunctionOnSet(h, w) = Cardinality(UNION {a[k] : k \in w})
    <3>1. \A k \in w : IsFiniteSet(a[k]) /\ h[k] = Cardinality(a[k])
      BY <2>1, <2>4
    <3>2. \A k, q \in w : k # q => a[k] \cap a[q] = {}
      BY <2>2, <2>4
    <3>3. IsFiniteSet(w)
      BY <2>3, <2>4
    <3> QED BY <3>1, <3>2, <3>3, SumOfSizes
  <2>6. SumFunctionOnSet(g, W) = Cardinality(UNION {A[k] : k \in W})
    BY <2>4, <2>5
  <2> QED BY <2>6 DEF W
<1>8. UNION {A[k] : k \in 0 .. T} = M
  <2>1. \A k \in 0 .. T : A[k] \subseteq M
    BY <1>4
  <2>2. \A e \in M : e \in A[Age(e)]
    BY <1>2, <1>4
  <2> QED BY <1>2, <2>1, <2>2
<1>9. \A k \in 0 .. T : g[k] \in Nat
  BY <1>4, FS_CardinalityType
<1> QED BY <1>7, <1>8, <1>9 DEF M, g

----------------------------------------------------------------------------
(* The loop.                                                               *)

(* A scored layer leaves the scores as fair as they were.                  *)
LEMMA ScoreIsFair ==
  ASSUME AtLayer, Recent(od[layer], lastuse[layer], now - 1, SlotsOf[layer]),
         hits \in [Predictors -> [BUDGETS -> Nat]], issued \in [Predictors -> [BUDGETS -> Nat]],
         tot_miss \in Nat, rec_hist \in [0 .. T -> Nat], OracleIsABound, Score
  PROVE  /\ hits' \in [Predictors -> [BUDGETS -> Nat]]
         /\ issued' \in [Predictors -> [BUDGETS -> Nat]]
         /\ tot_miss' \in Nat /\ rec_hist' \in [0 .. T -> Nat] /\ OracleIsABound'
<1>1. CASE ~ Scored
  <2>1. UNCHANGED <<tot_miss, issued, hits, rec_hist>>
    BY <1>1 DEF Score
  <2> QED BY <2>1 DEF OracleIsABound
<1>2. CASE Scored
  <2> DEFINE C(p, b) == Cardinality(Missed \cap Pick(p, capture, now, layer, b))
             I(p, b) == Cardinality(Pick(p, capture, now, layer, b))
             g == Ages
  <2>1. /\ tot_miss' = tot_miss + Cardinality(Missed)
        /\ issued' = [p \in Predictors |-> [b \in BUDGETS |-> issued[p][b] + I(p, b)]]
        /\ hits' = [p \in Predictors |-> [b \in BUDGETS |-> hits[p][b] + C(p, b)]]
    BY <1>2 DEF Score
  <2>2. rec_hist' = [k \in 0 .. T |-> rec_hist[k] + g[k]]
    <3>1. rec_hist' = [k \in 0 .. T |-> rec_hist[k] + Cardinality({e \in Missed : Age(e) = k})]
      BY <1>2 DEF Score
    <3>2. \A k \in 0 .. T : g[k] = Cardinality({e \in Missed : Age(e) = k})
      BY DEF Ages
    <3> QED BY <3>1, <3>2
  <2>3. Cardinality(Missed) \in Nat
    BY MissedCounted
  <2>4. BUDGETS \subseteq Nat /\ T \in Nat /\ "oracle" \in Predictors
    BY PrefetchAssumption DEF Predictors
  <2>5. \A p \in Predictors, b \in BUDGETS : C(p, b) \in Nat /\ I(p, b) \in Nat
    BY <2>4, PicksBounded
  <2>6. \A p \in Predictors, b \in BUDGETS :
          /\ C(p, b) <= C("oracle", b) /\ C("oracle", b) = I("oracle", b)
          /\ b >= Depth => C("oracle", b) = Cardinality(Missed)
    BY <2>4, OracleIsBest
  <2>7. lastuse[layer] \in [Ids -> 0 .. now - 1]
    BY DEF Recent
  <2>8. /\ \A k \in 0 .. T : g[k] \in Nat
        /\ SumFunctionOnSet(g, 0 .. T) = Cardinality(Missed)
    BY <2>7, AgesAddUp
  <2>9. ASSUME NEW k \in 0 .. T \ {0}, k <= SlotsOf[layer] \div Depth PROVE g[k] = 0
    <3>1. ASSUME NEW e \in Missed PROVE Age(e) # k
      <4>1. e \in Ids /\ e \notin ToSet(od[layer])
        BY MissedCounted DEF Missed
      <4>2. lastuse[layer][e] \in 0 .. now - 1 /\ now \in 1 .. T
        BY <2>7, <4>1 DEF AtLayer
      <4>3. CASE lastuse[layer][e] = Never
        <5>1. Age(e) = 0
          BY <4>3 DEF Age, Never
        <5>2. k # 0
          OBVIOUS
        <5> QED BY <5>1, <5>2
      <4>4. CASE lastuse[layer][e] # Never
        <5>1. now - 1 \in Nat
          BY <2>4, <4>2
        <5>2. (now - 1) + 1 - lastuse[layer][e] # k
          <6>1. SlotsOf[layer] \in Nat /\ Depth \in Nat \ {0}
            BY PrefetchBounds DEF AtLayer
          <6>2. SlotsOf[layer] \div Depth \in Nat
            BY <6>1, QuotientBounds
          <6>3. k \in 1 .. SlotsOf[layer] \div Depth
            BY <2>4, <2>9, <6>2
          <6> QED BY <4>1, <4>4, <5>1, <6>1, <6>3, HeldWhole DEF Never
        <5>3. Age(e) = now - lastuse[layer][e]
          BY <4>4 DEF Age
        <5>4. (now - 1) + 1 - lastuse[layer][e] = now - lastuse[layer][e]
          BY <2>4, <4>2
        <5> QED BY <5>2, <5>3, <5>4
      <4> QED BY <4>3, <4>4
    <3>2. {e \in Missed : Age(e) = k} = {}
      BY <3>1
    <3>3. g[k] = Cardinality({})
      BY <2>9, <3>2 DEF Ages
    <3> QED BY <3>3, FS_EmptySet
  <2> HIDE DEF C, I
  <2>10. \A p \in Predictors, b \in BUDGETS : hits[p][b] \in Nat /\ issued[p][b] \in Nat
    OBVIOUS
  <2>11. \A p \in Predictors, b \in BUDGETS :
           hits'[p][b] = hits[p][b] + C(p, b) /\ issued'[p][b] = issued[p][b] + I(p, b)
    BY <2>1
  <2>12. \A p \in Predictors, b \in BUDGETS :
           hits'[p][b] <= hits'["oracle"][b] /\ hits'["oracle"][b] = issued'["oracle"][b]
    <3> TAKE p \in Predictors, b \in BUDGETS
    <3>1. hits[p][b] <= hits["oracle"][b] /\ hits["oracle"][b] = issued["oracle"][b]
      BY DEF OracleIsABound
    <3>2. hits[p][b] \in Nat /\ hits["oracle"][b] \in Nat /\ issued["oracle"][b] \in Nat
      BY <2>4, <2>10
    <3>3. C(p, b) \in Nat /\ C("oracle", b) \in Nat /\ I("oracle", b) \in Nat
      BY <2>4, <2>5
    <3>4. C(p, b) <= C("oracle", b) /\ C("oracle", b) = I("oracle", b)
      BY <2>6
    <3>5. /\ hits'[p][b] = hits[p][b] + C(p, b)
          /\ hits'["oracle"][b] = hits["oracle"][b] + C("oracle", b)
          /\ issued'["oracle"][b] = issued["oracle"][b] + I("oracle", b)
      BY <2>4, <2>11
    <3> QED BY <3>1, <3>2, <3>3, <3>4, <3>5
  <2>13. \A b \in BUDGETS : b >= Depth => hits'["oracle"][b] = tot_miss'
    <3> SUFFICES ASSUME NEW b \in BUDGETS, b >= Depth PROVE hits'["oracle"][b] = tot_miss'
      OBVIOUS
    <3>1. hits["oracle"][b] = tot_miss
      BY DEF OracleIsABound
    <3>2. C("oracle", b) = Cardinality(Missed)
      BY <2>4, <2>6
    <3>3. hits'["oracle"][b] = hits["oracle"][b] + C("oracle", b)
      BY <2>4, <2>11
    <3> QED BY <2>1, <3>1, <3>2, <3>3
  <2>14. \A k \in 0 .. T : rec_hist'[k] = rec_hist[k] + g[k]
    BY <2>2
  <2>15. DOMAIN rec_hist = 0 .. T /\ DOMAIN rec_hist' = 0 .. T
         /\ \A k \in 0 .. T : rec_hist[k] \in Nat
    BY <2>2
  <2> HIDE DEF g
  <2>16. rec_hist' \in [0 .. T -> Nat]
    <3>1. \A k \in 0 .. T : rec_hist[k] + g[k] \in Nat
      BY <2>8, <2>15
    <3>2. rec_hist' = [k \in 0 .. T |-> rec_hist'[k]]
      BY <2>2
    <3> QED BY <2>14, <3>1, <3>2
  <2>17. SumFunctionOnSet(rec_hist', DOMAIN rec_hist') = tot_miss'
    <3>1. IsFiniteSet(0 .. T)
      BY PrefetchBounds
    <3>2. \A k \in 0 .. T : rec_hist[k] \in Nat /\ g[k] \in Nat /\ rec_hist'[k] = rec_hist[k] + g[k]
      BY <2>8, <2>14, <2>15
    <3>3. SumFunctionOnSet(rec_hist', 0 .. T) = SumFunctionOnSet(rec_hist, 0 .. T) + SumFunctionOnSet(g, 0 .. T)
      BY <3>1, <3>2, SumsAdd
    <3>4. SumFunctionOnSet(rec_hist, 0 .. T) = tot_miss
      BY <2>15 DEF OracleIsABound
    <3> QED BY <2>1, <2>8, <2>15, <3>3, <3>4
  <2>18. \A k \in DOMAIN rec_hist' \ {0} :
           (\A l \in LayerIds \ {1} : k <= SlotsOf[l] \div Depth) => rec_hist'[k] = 0
    <3> SUFFICES ASSUME NEW k \in 0 .. T \ {0},
                        \A l \in LayerIds \ {1} : k <= SlotsOf[l] \div Depth
                 PROVE  rec_hist'[k] = 0
      BY <2>15
    <3>1. rec_hist[k] = 0
      BY <2>15 DEF OracleIsABound
    <3>2. layer \in LayerIds \ {1}
      BY <1>2 DEF AtLayer, Scored
    <3>3. g[k] = 0
      BY <2>9, <3>2
    <3> QED BY <2>14, <3>1, <3>3
  <2>19. hits' \in [Predictors -> [BUDGETS -> Nat]] /\ issued' \in [Predictors -> [BUDGETS -> Nat]]
    <3>1. \A p \in Predictors, b \in BUDGETS :
            hits[p][b] + C(p, b) \in Nat /\ issued[p][b] + I(p, b) \in Nat
      BY <2>5, <2>10
    <3> QED BY <2>1, <3>1
  <2>20. tot_miss' \in Nat
    BY <2>1, <2>3
  <2> QED BY <2>12, <2>13, <2>16, <2>17, <2>18, <2>19, <2>20 DEF OracleIsABound
<1> QED BY <1>1, <1>2

(* One round of the loop. *)
LEMMA RoundKeeps == PrefetchInv /\ RouteLayer => PrefetchInv'
<1> SUFFICES ASSUME PrefetchInv, RouteLayer PROVE PrefetchInv'
  OBVIOUS
<1> DEFINE R == sets(capture, now, layer)
           s == now - 1
<1>0. T \in Nat /\ NLAYER \in Nat \ {0} /\ LayerIds = 1 .. NLAYER
  BY PrefetchBounds DEF LayerIds
<1>1. AtLayer
  <2>1. now <= T /\ now \in 1 .. T + 1
    BY DEF RouteLayer, PrefetchInv
  <2>2. now \in 1 .. T
    BY <1>0, <2>1
  <2> QED BY <2>2 DEF PrefetchInv, AtLayer
<1>2. s \in Nat /\ s + 1 = now /\ now \in Nat /\ layer \in LayerIds
  BY <1>0, <1>1 DEF AtLayer
<1>3. R \in SUBSET Ids /\ Cardinality(R) \in Nat /\ Cardinality(R) <= Depth
  BY <1>1, SetsCounted DEF AtLayer
<1>4. Upto(layer) = s
  BY <1>0, <1>2 DEF Upto
<1>5. Recent(od[layer], lastuse[layer], s, SlotsOf[layer])
  BY <1>2, <1>4 DEF PrefetchInv
<1>6. /\ od \in [LayerIds -> Seq(Ids)] /\ lastuse \in [LayerIds -> [Ids -> Nat]]
      /\ \A l \in LayerIds : Recent(od[l], lastuse[l], Upto(l), SlotsOf[l])
  BY DEF PrefetchInv
<1>7. /\ od' = [od EXCEPT ![layer] = LruStep(@, R, SlotsOf[layer])]
      /\ lastuse' = [lastuse EXCEPT ![layer] = [e \in Ids |-> IF e \in R THEN now ELSE @[e]]]
      /\ layer' = (IF layer = NLAYER THEN 1 ELSE layer + 1)
      /\ now' = (IF layer = NLAYER THEN now + 1 ELSE now)
      /\ capture' = capture /\ Score
  BY DEF RouteLayer
<1> HIDE DEF R, s
<1>8. od'[layer] = LruStep(od[layer], R, SlotsOf[layer]) /\ \A l \in LayerIds : l # layer => od'[l] = od[l]
  BY <1>2, <1>6, <1>7
<1>9. /\ lastuse'[layer] = Used(lastuse[layer], s, R)
      /\ \A l \in LayerIds : l # layer => lastuse'[l] = lastuse[l]
  <2>1. lastuse'[layer] = [e \in Ids |-> IF e \in R THEN now ELSE lastuse[layer][e]]
    BY <1>2, <1>6, <1>7
  <2>2. Used(lastuse[layer], s, R) = [e \in Ids |-> IF e \in R THEN now ELSE lastuse[layer][e]]
    BY <1>2 DEF Used
  <2>3. \A l \in LayerIds : l # layer => lastuse'[l] = lastuse[l]
    BY <1>6, <1>7
  <2> QED BY <2>1, <2>2, <2>3
<1>10. Recent(LruStep(od[layer], R, SlotsOf[layer]), Used(lastuse[layer], s, R), now, SlotsOf[layer])
  <2>1. Recent(LruStep(od[layer], R, SlotsOf[layer]), Used(lastuse[layer], s, R), s + 1, SlotsOf[layer])
    <3>1. SlotsOf[layer] \in Nat
      BY <1>2, PrefetchBounds
    <3> QED BY <1>2, <1>3, <1>5, <3>1, StepKeeps
  <2> QED BY <1>2, <2>1
<1>11. \A l \in LayerIds : Upto(l)' = IF l = layer THEN now ELSE Upto(l)
  <2>1. (IF layer < layer' THEN now' ELSE now' - 1) = now
    BY <1>0, <1>2, <1>7
  <2>2. \A l \in LayerIds : l # layer =>
          (IF l < layer' THEN now' ELSE now' - 1) = (IF l < layer THEN now ELSE now - 1)
    <3> SUFFICES ASSUME NEW l \in LayerIds, l # layer
                 PROVE  (IF l < layer' THEN now' ELSE now' - 1) = (IF l < layer THEN now ELSE now - 1)
      OBVIOUS
    <3>1. l \in 1 .. NLAYER /\ layer \in 1 .. NLAYER
      BY <1>0, <1>2
    <3>2. CASE layer = NLAYER
      BY <1>0, <1>2, <1>7, <3>1, <3>2
    <3>3. CASE layer # NLAYER
      BY <1>0, <1>2, <1>7, <3>1, <3>3
    <3> QED BY <3>2, <3>3
  <2> QED BY <2>1, <2>2 DEF Upto
<1>12. od' \in [LayerIds -> Seq(Ids)] /\ lastuse' \in [LayerIds -> [Ids -> Nat]]
  <2>1. od'[layer] \in Seq(Ids) /\ lastuse'[layer] \in [Ids -> 0 .. now]
    BY <1>8, <1>9, <1>10 DEF Recent
  <2>2. lastuse'[layer] \in [Ids -> Nat]
    BY <1>2, <2>1
  <2>3. /\ \A l \in LayerIds : od'[l] \in Seq(Ids) /\ lastuse'[l] \in [Ids -> Nat]
    BY <1>6, <1>8, <1>9, <2>1, <2>2
  <2>4. od' = [l \in LayerIds |-> od'[l]] /\ lastuse' = [l \in LayerIds |-> lastuse'[l]]
    BY <1>6, <1>7
  <2> QED BY <2>3, <2>4
<1>13. \A l \in LayerIds : Recent(od'[l], lastuse'[l], Upto(l)', SlotsOf[l])
  <2> TAKE l \in LayerIds
  <2>1. CASE l = layer
    BY <1>8, <1>9, <1>10, <1>11, <2>1
  <2>2. CASE l # layer
    BY <1>6, <1>8, <1>9, <1>11, <2>2
  <2> QED BY <2>1, <2>2
<1>14. /\ hits' \in [Predictors -> [BUDGETS -> Nat]]
       /\ issued' \in [Predictors -> [BUDGETS -> Nat]]
       /\ tot_miss' \in Nat /\ rec_hist' \in [0 .. T -> Nat] /\ OracleIsABound'
  BY <1>1, <1>5, <1>7, ScoreIsFair DEF PrefetchInv, s
<1>15. capture' \in Captures /\ now' \in 1 .. T + 1 /\ layer' \in LayerIds
  <2>1. capture \in Captures /\ now \in 1 .. T /\ layer \in 1 .. NLAYER
    BY <1>0, <1>1 DEF AtLayer
  <2>2. CASE layer = NLAYER
    BY <1>0, <1>7, <2>1, <2>2
  <2>3. CASE layer # NLAYER
    BY <1>0, <1>7, <2>1, <2>3
  <2> QED BY <2>2, <2>3
<1> QED BY <1>12, <1>13, <1>14, <1>15 DEF PrefetchInv

LEMMA PrefetchBegins == PrefetchInit => PrefetchInv
<1> SUFFICES ASSUME PrefetchInit PROVE PrefetchInv
  OBVIOUS
<1>1. /\ capture \in Captures /\ now = 1 /\ layer = 1
      /\ od = [l \in LayerIds |-> Warm(l)] /\ lastuse = [l \in LayerIds |-> [e \in Ids |-> Never]]
      /\ hits = Zero /\ issued = Zero /\ tot_miss = 0 /\ rec_hist = [k \in 0 .. T |-> 0]
  BY DEF PrefetchInit
<1>2. T \in Nat /\ NLAYER \in Nat \ {0} /\ LayerIds = 1 .. NLAYER /\ IsFiniteSet(0 .. T)
  BY PrefetchBounds DEF LayerIds
<1>3. \A l \in LayerIds : Recent(Warm(l), [e \in Ids |-> Never], 0, SlotsOf[l])
  BY WarmIsKept
<1>4. (\A l \in LayerIds : Warm(l) \in Seq(Ids)) /\ [e \in Ids |-> Never] \in [Ids -> Nat]
  BY <1>3 DEF Recent, Never
<1>5. \A l \in LayerIds : Recent(od[l], lastuse[l], Upto(l), SlotsOf[l])
  <2> TAKE l \in LayerIds
  <2>1. Upto(l) = 0
    BY <1>1, <1>2 DEF Upto
  <2>2. od[l] = Warm(l) /\ lastuse[l] = [e \in Ids |-> Never]
    BY <1>1
  <2> QED BY <1>3, <2>1, <2>2
<1>6. od \in [LayerIds -> Seq(Ids)] /\ lastuse \in [LayerIds -> [Ids -> Nat]]
  BY <1>1, <1>4
<1>7. capture \in Captures /\ now \in 1 .. T + 1 /\ layer \in LayerIds
  BY <1>1, <1>2
<1>8. /\ Zero \in [Predictors -> [BUDGETS -> Nat]]
      /\ \A p \in Predictors, b \in BUDGETS : Zero[p][b] = 0
  BY DEF Zero
<1>9. rec_hist \in [0 .. T -> Nat] /\ DOMAIN rec_hist = 0 .. T /\ \A k \in 0 .. T : rec_hist[k] = 0
  BY <1>1
<1>10. SumFunctionOnSet(rec_hist, 0 .. T) = 0
  <2>1. \A k \in 0 .. T : rec_hist[k] \in Nat /\ rec_hist[k] = rec_hist[k] + rec_hist[k]
    BY <1>9
  <2>2. SumFunctionOnSet(rec_hist, 0 .. T)
          = SumFunctionOnSet(rec_hist, 0 .. T) + SumFunctionOnSet(rec_hist, 0 .. T)
    BY <1>2, <2>1, SumsAdd
  <2>3. SumFunctionOnSet(rec_hist, 0 .. T) \in Nat
    BY <1>2, <2>1, SumIsSize
  <2> QED BY <2>2, <2>3
<1>11. OracleIsABound
  <2>1. "oracle" \in Predictors
    BY DEF Predictors
  <2>2. \A p \in Predictors, b \in BUDGETS :
          hits[p][b] <= hits["oracle"][b] /\ hits["oracle"][b] = issued["oracle"][b]
    BY <1>1, <1>8, <2>1
  <2>3. \A b \in BUDGETS : b >= Depth => hits["oracle"][b] = tot_miss
    BY <1>1, <1>8, <2>1
  <2> QED BY <1>1, <1>9, <1>10, <2>2, <2>3 DEF OracleIsABound
<1> QED BY <1>1, <1>5, <1>6, <1>7, <1>8, <1>9, <1>11 DEF PrefetchInv

(* What a predictor reads of the capture is before the layer it is at.     *)
LEMMA PicksReadThePast == PrefetchInv => PicksAreCausal
<1> SUFFICES ASSUME PrefetchInv, now <= T, Scored,
                    NEW p \in Predictors \ {"oracle"}, NEW b \in BUDGETS
             PROVE  Pick(p, capture, now, layer, b) = Pick(p, Blank(layer, now), now, layer, b)
  BY DEF PicksAreCausal
<1> DEFINE a == Blank(layer, now)
<1>0. /\ T \in Nat /\ NLAYER \in Nat \ {0} /\ LayerIds = 1 .. NLAYER /\ Half \in 0 .. T
      /\ now \in 1 .. T /\ layer \in 1 .. NLAYER /\ layer > 1 /\ now > Half
  BY PrefetchBounds DEF LayerIds, PrefetchInv, Scored
<1>1. ASSUME NEW x \in 1 .. T, NEW m \in LayerIds, ~ (x > now \/ (x = now /\ m >= layer))
      PROVE  sets(a, x, m) = sets(capture, x, m)
  <2>1. a[x][m] = capture[x][m]
    BY <1>1 DEF Blank
  <2> HIDE DEF a
  <2> QED BY <2>1 DEF sets
<1>2. sets(a, now, layer - 1) = sets(capture, now, layer - 1)
  <2>1. layer - 1 \in LayerIds /\ ~ (layer - 1 >= layer) /\ ~ (now > now)
    BY <1>0
  <2> QED BY <1>0, <1>1, <2>1
<1>3. ASSUME now # 1 PROVE sets(a, now - 1, layer) = sets(capture, now - 1, layer)
  <2>1. now - 1 \in 1 .. T /\ layer \in LayerIds /\ ~ (now - 1 > now) /\ now - 1 # now
    BY <1>0, <1>3
  <2> QED BY <1>1, <2>1
<1>4. ASSUME NEW e \in Ids, NEW f \in Ids
      PROVE  Cooc(a, layer, e, f) = Cooc(capture, layer, e, f)
  <2>1. \A x \in Trained : sets(a, x, layer - 1) = sets(capture, x, layer - 1)
                           /\ sets(a, x, layer) = sets(capture, x, layer)
    <3> TAKE x \in Trained
    <3>1. x \in 1 .. T /\ ~ (x > now) /\ x # now /\ layer - 1 \in LayerIds /\ layer \in LayerIds
      BY <1>0 DEF Trained
    <3> QED BY <1>1, <3>1
  <2> HIDE DEF a
  <2>2. {x \in Trained : e \in sets(a, x, layer - 1) /\ f \in sets(a, x, layer)}
          = {x \in Trained : e \in sets(capture, x, layer - 1) /\ f \in sets(capture, x, layer)}
    BY <2>1
  <2> QED BY <2>2 DEF Cooc
<1> HIDE DEF a
<1>5. Candidates(p, a, now, layer) = Candidates(p, capture, now, layer)
  <2>1. CASE p = "last"
    <3>1. LastStep(a, now, layer) = LastStep(capture, now, layer)
      <4>1. CASE now = 1
        BY <4>1 DEF LastStep
      <4>2. CASE now # 1
        BY <1>3, <4>2 DEF LastStep
      <4> QED BY <4>1, <4>2
    <3> QED BY <2>1, <3>1 DEF Candidates
  <2>2. CASE p = "freq"
    BY <2>2 DEF Candidates
  <2>3. CASE p = "cooc"
    <3> DEFINE counts(c, f) == [e \in Ids |-> Cooc(c, layer, e, f)]
               score(c) == [f \in Ids |-> SumFunctionOnSet(counts(c, f), sets(c, now, layer - 1))]
    <3>1. \A f \in Ids : counts(a, f) = counts(capture, f)
      BY <1>4
    <3>2. Candidates(p, a, now, layer) = ByScore(score(a))
          /\ Candidates(p, capture, now, layer) = ByScore(score(capture))
      BY <2>3 DEF Candidates
    <3> HIDE DEF counts
    <3>3. score(a) = score(capture)
      BY <1>2, <3>1
    <3> HIDE DEF score
    <3> QED BY <3>2, <3>3
  <2> QED BY <2>1, <2>2, <2>3 DEF Predictors
<1>6. Pick(p, a, now, layer, b) = Pick(p, capture, now, layer, b)
  BY <1>5 DEF Pick, ResBefore
<1> QED BY <1>6 DEF a

(* Nothing is scored on what it could not know and nothing beats the       *)
(* oracle, for any capture, profile, cache and budgets.                    *)
THEOREM ScoresFair == PrefetchSpec => []ScoresAreFair
<1>1. PrefetchInit => PrefetchInv
  BY PrefetchBegins
<1>2. PrefetchInv /\ [RouteLayer]_prefetchVars => PrefetchInv'
  <2>1. CASE RouteLayer
    BY <2>1, RoundKeeps
  <2>2. CASE UNCHANGED prefetchVars
    <3> SUFFICES ASSUME PrefetchInv, UNCHANGED prefetchVars PROVE PrefetchInv'
      BY <2>2
    <3> QED BY DEF PrefetchInv, prefetchVars, OracleIsABound, Upto
  <2> QED BY <2>1, <2>2
<1>3. PrefetchInv => ScoresAreFair
  BY PicksReadThePast DEF ScoresAreFair, PrefetchInv
<1> QED BY <1>1, <1>2, <1>3, PTL DEF PrefetchSpec
=============================================================================
