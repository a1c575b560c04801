-------------------------- MODULE ConcurrentBench ---------------------------
(***************************************************************************)
(* run_one of bench/concurrent_bench.py: B streams let loose together by a *)
(* barrier, a sampler thread that reads the server's metrics beside them,  *)
(* and the engine's steps counted from what it read: a step adds one draft *)
(* for every request that was running when it began.                       *)
(*                                                                         *)
(* The server is idle but for these streams.  A prompt is short enough for *)
(* its prefill to be the step that admits it, and the cache large enough   *)
(* that nothing is preempted.  drafts and running are published together,  *)
(* at the end of a step.                                                   *)
(***************************************************************************)
EXTENDS Integers, Sequences, FiniteSetsExt

CONSTANTS
  B,           \* streams
  NPrompts,    \* len(PROMPTS)
  NTOK,        \* bound: steps of a request
  MaxSamples   \* bound: samples that succeed

Streams == 0 .. B - 1

ASSUME BenchAssumption == B \in Nat \ {0} /\ NPrompts \in Nat \ {0} /\ NTOK \in Nat \ {0}

VARIABLES
  main,        \* where run_one is
  ths,         \* stream -> "made", "started", "barrier", "post", "read", "done", "failed"
  sampler,     \* "made", "check", "scrape", "done"
  stop, rows,  \* the sampler's event and what it has read, and if the clock went on
  res,         \* labels of the streams that returned
  broken,      \* a stream, or a scrape of main's own, has failed
  waiting, running, left, drafts, steps,   \* the engine
  metrics      \* what a scrape reads, with the step it was published at

clients == <<main, ths, sampler, stop, rows, res, broken>>
engine  == <<waiting, running, left, drafts, steps, metrics>>
benchVars == <<clients, engine>>

----------------------------------------------------------------------------
(* The engine.                                                             *)

EngineStep ==
  /\ \E admitted \in SUBSET waiting : LET batch == running \cup admitted IN
       /\ batch # {}
       /\ \E fin \in SUBSET batch :
            /\ {i \in batch : left[i] = 1} \subseteq fin
            /\ running' = batch \ fin
            /\ left' = [i \in Streams |-> IF i \in fin THEN 0 ELSE IF i \in batch THEN left[i] - 1 ELSE left[i]]
       /\ waiting' = waiting \ admitted
  /\ drafts' = drafts + Cardinality(running) /\ steps' = steps + 1
  /\ metrics' = [drafts |-> drafts', running |-> Cardinality(running'), steps |-> steps']
  /\ UNCHANGED clients

----------------------------------------------------------------------------
(* stream(): one thread per prompt.                                        *)

LabelOfPrompt(i) == <<i % NPrompts>>           \* fault: without its number
Label(i) == <<i % NPrompts, i>>

OneMore == B + 1                               \* fault: main is waited for as well
Parties == B

Wait(i) ==
  /\ ths[i] = "started"
  /\ ths' = [ths EXCEPT ![i] = "barrier"]
  /\ UNCHANGED <<main, sampler, stop, rows, res, broken, engine>>

ReleaseBarrier ==
  /\ Cardinality({i \in Streams : ths[i] = "barrier"}) = Parties
  /\ ths' = [i \in Streams |-> "post"]
  /\ UNCHANGED <<main, sampler, stop, rows, res, broken, engine>>

Post(i) ==
  /\ ths[i] = "post"
  /\ ths' = [ths EXCEPT ![i] = "read"]
  /\ waiting' = waiting \cup {i} /\ left' = [left EXCEPT ![i] = NTOK]
  /\ UNCHANGED <<main, sampler, stop, rows, res, broken, running, drafts, steps, metrics>>

Read(i) ==
  /\ ths[i] = "read" /\ left[i] = 0
  /\ ths' = [ths EXCEPT ![i] = "done"] /\ res' = res \cup {Label(i)}
  /\ UNCHANGED <<main, sampler, stop, rows, broken, engine>>

(* A refused connection, a timeout, a stream without its usage block: the  *)
(* thread ends, and the server drops the request.                          *)
Fail(i) ==
  /\ ths[i] \in {"post", "read"}
  /\ ths' = [ths EXCEPT ![i] = "failed"] /\ broken' = TRUE
  /\ waiting' = waiting \ {i} /\ running' = running \ {i} /\ left' = [left EXCEPT ![i] = 0]
  /\ UNCHANGED <<main, sampler, stop, rows, res, drafts, steps, metrics>>

Ended(i) == ths[i] \in {"done", "failed"}

----------------------------------------------------------------------------
(* Sampler.run: a scrape that fails leaves no row.  A row is stamped with   *)
(* time.time(), which may have been set back since the row before it.      *)

Stamped(m, later) == [drafts |-> m.drafts, running |-> m.running, steps |-> m.steps, later |-> later]

Sample ==
  /\ \/ sampler = "check" /\ sampler' = (IF stop THEN "done" ELSE "scrape") /\ UNCHANGED rows
     \/ /\ sampler = "scrape" /\ sampler' = "check"
        /\ \/ /\ Len(rows) < MaxSamples
              /\ \E later \in {rows # <<>>, FALSE} : rows' = Append(rows, Stamped(metrics, later))
           \/ UNCHANGED rows
  /\ UNCHANGED <<main, ths, stop, res, broken, engine>>

(* engine_steps: the windows whose ends both have all the streams running, *)
(* in which drafts were counted and the clock went on.                     *)
SteadyAtStart(r0, r1) == r0.running = B           \* fault: one end will do
Steady(r0, r1) == r0.running = B /\ r1.running = B
Windows == {k \in 1 .. Len(rows) - 1 :
              /\ rows[k + 1].drafts > rows[k].drafts /\ rows[k + 1].later
              /\ Steady(rows[k], rows[k + 1])}

----------------------------------------------------------------------------
(* run_one.                                                                *)

FirstScrape ==
  /\ main = "m0"
  /\ \/ main' = "start" /\ sampler' = "check" /\ UNCHANGED broken
     \/ main' = "raised" /\ broken' = TRUE /\ UNCHANGED sampler
  /\ UNCHANGED <<ths, stop, rows, res, engine>>

StartStream ==
  /\ main = "start"
  /\ \E i \in Streams :
       /\ ths[i] = "made" /\ \A j \in 0 .. i - 1 : ths[j] # "made"
       /\ ths' = [ths EXCEPT ![i] = "started"]
       /\ main' = IF i = B - 1 THEN "join" ELSE "start"
  /\ UNCHANGED <<sampler, stop, rows, res, broken, engine>>

JoinThenStop ==                        \* fault: the sampler is joined before it is stopped
  /\ main = "join" /\ \A i \in Streams : Ended(i)
  /\ sampler = "done"
  /\ stop' = TRUE /\ main' = "joined"
  /\ UNCHANGED <<ths, sampler, rows, res, broken, engine>>

Join ==
  /\ main = "join" /\ \A i \in Streams : Ended(i)
  /\ stop' = TRUE /\ main' = "joined"
  /\ UNCHANGED <<ths, sampler, rows, res, broken, engine>>

LastScrape ==
  /\ main = "joined" /\ sampler = "done"
  /\ \/ main' = (IF Cardinality(res) = B THEN "returned" ELSE "raised") /\ UNCHANGED broken
     \/ main' = "raised" /\ broken' = TRUE
  /\ UNCHANGED <<ths, sampler, stop, rows, res, engine>>

RunOne == FirstScrape \/ StartStream \/ Join \/ LastScrape

BenchInit ==
  /\ main = "m0" /\ ths = [i \in Streams |-> "made"] /\ sampler = "made"
  /\ stop = FALSE /\ rows = <<>> /\ res = {} /\ broken = FALSE
  /\ waiting = {} /\ running = {} /\ left = [i \in Streams |-> 0] /\ drafts = 0 /\ steps = 0
  /\ metrics = [drafts |-> 0, running |-> 0, steps |-> 0]

Proceed(i) == Wait(i) \/ Post(i) \/ Read(i)

BenchNext ==
  \/ RunOne \/ Sample \/ ReleaseBarrier \/ EngineStep
  \/ \E i \in Streams : Proceed(i) \/ Fail(i)

(* Threads run, an engine with requests steps; nothing has to fail.        *)
BenchFairness ==
  /\ WF_benchVars(RunOne) /\ WF_benchVars(Sample) /\ WF_benchVars(ReleaseBarrier)
  /\ WF_benchVars(EngineStep) /\ \A i \in Streams : WF_benchVars(Proceed(i))

BenchSpec == BenchInit /\ [][BenchNext]_benchVars /\ BenchFairness

----------------------------------------------------------------------------
(* Properties.                                                             *)

(* "only windows where running is stable at exactly B (both endpoints)":   *)
(* their drafts over B are the engine's steps, whatever was admitted,      *)
(* finished or lost meanwhile, and no step of theirs is lost with the      *)
(* windows that are dropped, unless the clock was set back in them.        *)
SteadyIsExact ==
  /\ \A k \in Windows :
       rows[k + 1].drafts - rows[k].drafts = B * (rows[k + 1].steps - rows[k].steps)
  /\ \A k \in 1 .. Len(rows) - 1 :
       Steady(rows[k], rows[k + 1]) /\ rows[k + 1].later /\ k \notin Windows
         => rows[k].steps = rows[k + 1].steps

(* A run_one that started its streams ends: with a result of every stream, *)
(* unless a request or a scrape of its own failed ("only k of B streams    *)
(* returned").                                                             *)
EveryRunEnds ==
  main = "start" ~> main = "returned" \/ (main = "raised" /\ broken)
=============================================================================
