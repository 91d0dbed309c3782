---------------------------- MODULE ParallelWave ----------------------------
(***************************************************************************)
(* ParallelWaveExecutor of kernel/scheduler.rs over the thread pool: a     *)
(* caller hands over the jobs of one dependency wave, submits them one by  *)
(* one and waits for the pool to be idle.  A refused submission ends the   *)
(* call at once (the `?` in try_run): the jobs before it are already       *)
(* accepted, the jobs after it are dropped unsubmitted, and nobody waits.  *)
(***************************************************************************)
EXTENDS ThreadPool

CONSTANTS Scenarios  \* the threads that share an executor and their job lists: [callers, waves]

ASSUME WaveAssumption ==
  \A s \in Scenarios : s.callers \subseteq Clients /\ s.waves \subseteq Seq(Jobs)

VARIABLES
  scenario,\* one of them
  epc,     \* where each caller stands in try_run
  todo,    \* the jobs of its wave not yet submitted
  taken,   \* the jobs of its wave the pool accepted
  outcome  \* what its last try_run returned

waveVars == <<scenario, epc, todo, taken, outcome>>
allVars == <<vars, waveVars>>

WaveInit ==
  /\ Init
  /\ scenario \in Scenarios
  /\ epc = [c \in Clients |-> "out"]
  /\ todo = [c \in Clients |-> <<>>]
  /\ taken = [c \in Clients |-> {}]
  /\ outcome = [c \in Clients |-> "none"]

\* try_run(jobs) is called.  The jobs are closures of this call alone.
TryRun(c, js) ==
  /\ c \in scenario.callers /\ js \in scenario.waves
  /\ owner = "live" /\ epc[c] = "out" /\ cpc[c] = "idle"
  /\ \A i \in 1..Len(js) :
       /\ js[i] \notin accepted
       /\ \A d \in Clients : \A k \in 1..Len(todo[d]) : js[i] # todo[d][k]
       /\ \A d \in Clients : carg[d] # js[i]
  /\ epc' = [epc EXCEPT ![c] = "submit"]
  /\ todo' = [todo EXCEPT ![c] = js]
  /\ taken' = [taken EXCEPT ![c] = {}]
  /\ outcome' = [outcome EXCEPT ![c] = "none"]
  /\ UNCHANGED <<vars, scenario>>

Submit(c) ==
  /\ epc[c] = "submit" /\ todo[c] # <<>>
  /\ CallExecute(c, Head(todo[c]))
  /\ epc' = [epc EXCEPT ![c] = "submitting"]
  /\ UNCHANGED <<scenario, todo, taken, outcome>>

\* try_execute came back: on to the next job, or out with the error.
Submitted(c) ==
  /\ epc[c] = "submitting" /\ cpc[c] = "idle"
  /\ IF ret[c] = "ok"
     THEN /\ epc' = [epc EXCEPT ![c] = "submit"]
          /\ todo' = [todo EXCEPT ![c] = Tail(@)]
          /\ taken' = [taken EXCEPT ![c] = @ \cup {Head(todo[c])}]
          /\ UNCHANGED outcome
     ELSE /\ epc' = [epc EXCEPT ![c] = "out"]
          /\ todo' = [todo EXCEPT ![c] = <<>>]
          /\ outcome' = [outcome EXCEPT ![c] = "error"]
          /\ UNCHANGED taken
  /\ UNCHANGED <<vars, scenario>>

Await(c) ==
  /\ epc[c] = "submit" /\ todo[c] = <<>>
  /\ CallWaitIdle(c)
  /\ epc' = [epc EXCEPT ![c] = "await"]
  /\ UNCHANGED <<scenario, todo, taken, outcome>>

RunReturns(c) ==
  /\ epc[c] = "await" /\ cpc[c] = "idle"
  /\ epc' = [epc EXCEPT ![c] = "out"]
  /\ outcome' = [outcome EXCEPT ![c] = IF ret[c] = "was_idle" THEN "true" ELSE "false"]
  /\ UNCHANGED <<vars, scenario, todo, taken>>

\* The executor is dropped with its pool, when no call is in progress.
DropExecutor ==
  /\ \A c \in Clients : epc[c] = "out"
  /\ DropStop
  /\ UNCHANGED waveVars

PoolStep ==
  /\ \/ OwnerStep \/ SpuriousWakeup
     \/ \E w \in Workers : WorkerStep(w)
     \/ \E c \in Clients : ClientStep(c)
  /\ UNCHANGED waveVars

CallerStep(c) == Submit(c) \/ Submitted(c) \/ Await(c) \/ RunReturns(c)

WaveNext ==
  \/ PoolStep \/ DropExecutor
  \/ \E c \in Clients : CallerStep(c) \/ \E js \in scenario.waves : TryRun(c, js)

WaveSpec == WaveInit /\ [][WaveNext]_allVars

(***************************************************************************)
(* Threads that can run do run, a closure terminates, and a thread that    *)
(* asks for the mutex again and again when it is free gets it (strong      *)
(* fairness: spurious wake-ups of others may take it in between).  Nothing *)
(* makes a client call, the owner drop the pool, or a wake-up be spurious. *)
(***************************************************************************)
WaveFairness ==
  /\ WF_allVars(OwnerStep /\ UNCHANGED waveVars)
  /\ \A w \in Workers : SF_allVars(WorkerStep(w) /\ UNCHANGED waveVars)
  /\ \A c \in Clients : SF_allVars(ClientStep(c) /\ UNCHANGED waveVars)
  /\ \A c \in Clients : WF_allVars(CallerStep(c))

LiveWaveSpec == WaveSpec /\ WaveFairness

-----------------------------------------------------------------------------
\* try_run answers Ok(true) only for a wave all of whose jobs have returned,
\* although an earlier wave that failed half way may still be running in the
\* same pool.
TrueMeansWaveDone ==
  \A c \in Clients : outcome[c] = "true" => taken[c] \subseteq finished

\* One thread uses the executor, as the frame loop does.
Solo == Cardinality(scenario.callers) = 1

\* Nothing gets stuck in the executor.  With one caller try_run always comes
\* back, so that the frame that runs a wave is not lost in it, and a wave that
\* could not be submitted whole still drains: what was accepted before the
\* error runs to its end although nobody waits for it.  With any callers the
\* joins of Drop end: no worker sleeps through its notification.
ExecutorEnds ==
  /\ \A c \in Clients : (Solo /\ epc[c] # "out") ~> (epc[c] = "out")
  /\ \A c \in Clients : \A j \in Jobs :
       (Solo /\ outcome[c] = "error" /\ j \in taken[c]) ~> (j \in finished \/ stop)
  /\ (owner = "drop_notify") ~> (owner = "gone")
=============================================================================
