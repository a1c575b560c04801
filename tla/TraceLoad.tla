----------------------------- MODULE TraceLoad -----------------------------
(***************************************************************************)
(* load_traces of locality_sim.py: a capture holds the steps of many       *)
(* requests in the order the ring was saved in; a generation is a stretch  *)
(* of steps that are all as wide as most steps are.                        *)
(***************************************************************************)
EXTENDS Ranking, Sequences, FiniteSetsExt

CONSTANTS
  Widths,     \* rows a step may have
  NSteps,     \* bound: steps of the capture
  MinRun,     \* the fewest steps of a generation (20 in the code)
  Labels      \* how many generations at the end have a label of their own

ASSUME CaptureAssumption ==
  Widths \subseteq Nat /\ NSteps \in Nat \ {0} /\ MinRun \in Nat \ {0} /\ Labels \in Nat

VARIABLES
  saved,      \* <<step number, rows>> as the file has them
  rows,       \* the widths in step order, once sorted
  at, start,  \* the scan: steps seen; the first of the run it is in, or NoRun
  runs,       \* <<first, past the last>>
  traces      \* [label, steps], at the end

loadVars == <<saved, rows, at, start, runs, traces>>

NoRun == -1

(* argsort of the step numbers, which have no gaps. *)
order == [i \in DOMAIN saved |-> Nth(DOMAIN saved, [j \in DOMAIN saved |-> saved[j][1]], i - 1)]

Sort ==
  /\ rows = <<>>
  /\ rows' = [i \in DOMAIN saved |-> saved[order[i]][2]]
  /\ UNCHANGED <<saved, at, start, runs, traces>>

(* bincount().argmax(): the smallest of the most frequent. *)
Count(w) == Cardinality({i \in DOMAIN rows : rows[i] = w})
modal == Min({w \in Widths : \A v \in Widths : Count(v) <= Count(w)})

(* One round of the scan, which goes one step past the end. *)
ScanToEnd(ok, past) == ~ ok /\ start # NoRun /\ past        \* fault: the last run is never closed
Closes(ok, past) == ~ ok /\ start # NoRun

Scan ==
  /\ rows # <<>> /\ at <= Len(rows)
  /\ LET ok == at < Len(rows) /\ rows[at + 1] = modal
         closes == Closes(ok, at < Len(rows))
     IN /\ start' = IF ok /\ start = NoRun THEN at ELSE IF closes THEN NoRun ELSE start
        /\ runs' = IF closes /\ at - start >= MinRun THEN Append(runs, <<start, at>>) ELSE runs
  /\ at' = at + 1
  /\ UNCHANGED <<saved, rows, traces>>

(* The last generations are those of the traffic table. *)
Label ==
  /\ at > Len(rows) /\ rows # <<>> /\ traces = <<>> /\ runs # <<>>
  /\ traces' = [i \in DOMAIN runs |->
       [label |-> IF i > Len(runs) - Labels THEN i - Len(runs) + Labels ELSE NoRun,
        steps |-> SubSeq(rows, runs[i][1] + 1, runs[i][2])]]
  /\ UNCHANGED <<saved, rows, at, start, runs>>

(* The ring may have been saved from any slot on. *)
LoadInit ==
  /\ \E w \in [1 .. NSteps -> Widths], turn \in 0 .. NSteps - 1 :
       saved = [i \in 1 .. NSteps |->
                  <<IF i + turn <= NSteps THEN i + turn - 1 ELSE i + turn - 1 - NSteps, w[i]>>]
  /\ rows = <<>> /\ at = 0 /\ start = NoRun /\ runs = <<>> /\ traces = <<>>

LoadNext == Sort \/ Scan \/ Label

LoadSpec == LoadInit /\ [][LoadNext]_loadVars

(* "Maximal runs of modal-width steps == one generation each": the widths  *)
(* are in step order, and in theirs the generations are found, each once:  *)
(* no step of another width inside, none of the modal width lost beside    *)
(* it, no generation left out.                                             *)
GenerationsAreMaximal ==
  at > Len(rows) /\ rows # <<>> =>
    LET In(a, b) == \A i \in a + 1 .. b : rows[i] = modal
        maximal == {r \in (0 .. NSteps) \X (0 .. NSteps) :
                      /\ r[2] - r[1] >= MinRun /\ In(r[1], r[2])
                      /\ r[1] > 0 => ~ In(r[1] - 1, r[2])
                      /\ r[2] < NSteps => ~ In(r[1], r[2] + 1)}
    IN /\ \A i \in DOMAIN saved : rows[saved[i][1] + 1] = saved[i][2]
       /\ {runs[i] : i \in DOMAIN runs} = maximal
       /\ \A i, j \in DOMAIN runs : i < j => runs[i][1] < runs[j][1]
=============================================================================
