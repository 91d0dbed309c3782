----------------------------- MODULE ThreadPool -----------------------------
(***************************************************************************)
(* The engine's worker pool (platform/thread_pool.rs).  One mutex protects *)
(* the job stack and the `pending` counter; ONE condition variable serves  *)
(* both the workers that wait for a job and the callers that wait in       *)
(* wait_idle.  `stop` is an atomic that workers also read without the      *)
(* mutex.                                                                  *)
(*                                                                         *)
(* A step is what one thread does between two points where another thread  *)
(* can see the difference: a critical section that only touches data the   *)
(* mutex protects is one step, the worker's is three (lock, look for a     *)
(* job, park), because `stop` may be stored between its read and the wait. *)
(***************************************************************************)
EXTENDS Naturals, Sequences, FiniteSets

CONSTANTS
  Workers,      \* the threads try_new spawns
  Clients,      \* the threads that share the pool and call it
  Jobs,         \* the closures they submit, each at most once
  MaxJobs,      \* capacity of the job stack (1024 per worker in the code)
  SpawnMayFail, \* whether the system may refuse a thread to try_new
  NoThread,     \* the mutex is free
  NoJob         \* a worker holds no job

ASSUME ConstantsAssumption ==
  /\ IsFiniteSet(Workers) /\ Workers # {}
  /\ MaxJobs \in Nat \ {0}
  /\ SpawnMayFail \in BOOLEAN
  /\ NoThread \notin Workers
  /\ NoJob \notin Jobs

VARIABLES
  jobs,      \* Shared.jobs: a stack, the last job pushed is the first popped
  pending,   \* Shared.pending: jobs accepted and not completed
  stop,      \* Shared.stop
  holder,    \* the worker inside the jobs mutex between two of its steps
  wpc,       \* where each worker stands in worker_loop
  wjob,      \* the job each worker has popped
  cpc,       \* where each client stands in its call
  carg,      \* the job of its try_execute
  ret,       \* what its last call returned
  owner,     \* the thread that builds and drops the pool
  accepted,  \* history: jobs try_execute took
  finished   \* history: jobs whose closure has returned or unwound

vars == <<jobs, pending, stop, holder, wpc, wjob, cpc, carg, ret, owner,
          accepted, finished>>

WorkerPCs == {"unspawned", "top", "lock", "scan", "park", "wait", "run",
              "finish", "exited"}
ClientPCs == {"idle", "exec", "notify", "check", "wait"}
OwnerPCs  == {"spawn", "live", "fail_notify", "drop_notify", "join", "gone"}
Returns   == {"none", "ok", "queue_full", "stopped", "was_idle", "was_stopped"}

Init ==
  /\ jobs = <<>> /\ pending = 0 /\ stop = FALSE
  /\ holder = NoThread
  /\ wpc = [w \in Workers |-> "unspawned"]
  /\ wjob = [w \in Workers |-> NoJob]
  /\ cpc = [c \in Clients |-> "idle"]
  /\ carg = [c \in Clients |-> NoJob]
  /\ ret = [c \in Clients |-> "none"]
  /\ owner = "spawn"
  /\ accepted = {} /\ finished = {}

MutexFree == holder = NoThread

\* notify_all on the condition variable: every waiting thread goes back to
\* the mutex.  (A woken worker re-enters its inner loop, a woken client the
\* loop of wait_idle.)
WakeAllWorkers(pc) == [w \in Workers |-> IF pc[w] = "wait" THEN "lock" ELSE pc[w]]
WakeAllClients(pc) == [c \in Clients |-> IF pc[c] = "wait" THEN "check" ELSE pc[c]]
NotifyAll(wp, cp) ==
  /\ wpc' = WakeAllWorkers(wp)
  /\ cpc' = WakeAllClients(cp)

-----------------------------------------------------------------------------
(* try_new and Drop: the owner.                                            *)

\* The loop of try_new: the spawned thread is running from here on.
Spawn(w) ==
  /\ owner = "spawn" /\ wpc[w] = "unspawned"
  /\ wpc' = [wpc EXCEPT ![w] = "top"]
  /\ owner' = IF \A v \in Workers \ {w} : wpc[v] # "unspawned"
              THEN "live" ELSE "spawn"
  /\ UNCHANGED <<jobs, pending, stop, holder, wjob, cpc, carg, ret,
                 accepted, finished>>

\* Builder::spawn returns Err: stop is stored, the mutex is not taken.
SpawnFails ==
  /\ SpawnMayFail /\ owner = "spawn"
  /\ stop' = TRUE
  /\ owner' = "fail_notify"
  /\ UNCHANGED <<jobs, pending, holder, wpc, wjob, cpc, carg, ret,
                 accepted, finished>>

SpawnFailNotify ==
  /\ owner = "fail_notify"
  /\ NotifyAll(wpc, cpc)
  /\ owner' = "join"
  /\ UNCHANGED <<jobs, pending, stop, holder, wjob, carg, ret,
                 accepted, finished>>

\* Drop takes the pool by exclusive reference: no call is in progress.
DropStop ==
  /\ owner = "live" /\ \A c \in Clients : cpc[c] = "idle"
  /\ stop' = TRUE
  /\ owner' = "drop_notify"
  /\ UNCHANGED <<jobs, pending, holder, wpc, wjob, cpc, carg, ret,
                 accepted, finished>>

\* Mutant: Drop notifies without taking the mutex.
DropNotifyUnlocked ==
  /\ owner = "drop_notify"
  /\ NotifyAll(wpc, cpc)
  /\ owner' = "join"
  /\ UNCHANGED <<jobs, pending, stop, holder, wjob, carg, ret,
                 accepted, finished>>

DropNotify ==
  /\ owner = "drop_notify" /\ MutexFree
  /\ NotifyAll(wpc, cpc)
  /\ owner' = "join"
  /\ UNCHANGED <<jobs, pending, stop, holder, wjob, carg, ret,
                 accepted, finished>>

\* Every handle is joined; jobs still on the stack are dropped with it.
Join ==
  /\ owner = "join"
  /\ \A w \in Workers : wpc[w] \in {"unspawned", "exited"}
  /\ jobs' = <<>>
  /\ owner' = "gone"
  /\ UNCHANGED <<pending, stop, holder, wpc, wjob, cpc, carg, ret,
                 accepted, finished>>

-----------------------------------------------------------------------------
(* worker_loop                                                             *)

\* The outer loop reads stop without the mutex.
WorkerTop(w) ==
  /\ wpc[w] = "top"
  /\ wpc' = [wpc EXCEPT ![w] = IF stop THEN "exited" ELSE "lock"]
  /\ UNCHANGED <<jobs, pending, stop, holder, wjob, cpc, carg, ret, owner,
                 accepted, finished>>

WorkerLock(w) ==
  /\ wpc[w] = "lock" /\ MutexFree
  /\ holder' = w
  /\ wpc' = [wpc EXCEPT ![w] = "scan"]
  /\ UNCHANGED <<jobs, pending, stop, wjob, cpc, carg, ret, owner,
                 accepted, finished>>

\* jobs.pop() succeeds: the guard is dropped before the job runs.
WorkerPop(w) ==
  /\ wpc[w] = "scan" /\ jobs # <<>>
  /\ wjob' = [wjob EXCEPT ![w] = jobs[Len(jobs)]]
  /\ jobs' = SubSeq(jobs, 1, Len(jobs) - 1)
  /\ holder' = NoThread
  /\ wpc' = [wpc EXCEPT ![w] = "run"]
  /\ UNCHANGED <<pending, stop, cpc, carg, ret, owner, accepted, finished>>

\* No job: the inner loop reads stop, and leaves the thread if it is set.
WorkerSeesEmpty(w) ==
  /\ wpc[w] = "scan" /\ jobs = <<>>
  /\ IF stop
     THEN wpc' = [wpc EXCEPT ![w] = "exited"] /\ holder' = NoThread
     ELSE wpc' = [wpc EXCEPT ![w] = "park"] /\ UNCHANGED holder
  /\ UNCHANGED <<jobs, pending, stop, wjob, cpc, carg, ret, owner,
                 accepted, finished>>

\* condvar.wait: the mutex is released and the thread queued in one step.
WorkerPark(w) ==
  /\ wpc[w] = "park"
  /\ holder' = NoThread
  /\ wpc' = [wpc EXCEPT ![w] = "wait"]
  /\ UNCHANGED <<jobs, pending, stop, wjob, cpc, carg, ret, owner,
                 accepted, finished>>

\* Mutant: a panic leaves the loop body before the completion guard exists.
WorkerRunUnguarded(w, outcome) ==
  /\ wpc[w] = "run"
  /\ finished' = finished \cup {wjob[w]}
  /\ wpc' = [wpc EXCEPT ![w] = IF outcome = "panicked" THEN "top" ELSE "finish"]
  /\ UNCHANGED <<jobs, pending, stop, holder, wjob, cpc, carg, ret, owner,
                 accepted>>

\* The closure returns or panics (outcome); catch_unwind makes both the same.
WorkerRun(w, outcome) ==
  /\ wpc[w] = "run"
  /\ finished' = finished \cup {wjob[w]}
  /\ wpc' = [wpc EXCEPT ![w] = "finish"]
  /\ UNCHANGED <<jobs, pending, stop, holder, wjob, cpc, carg, ret, owner,
                 accepted>>

\* The completion guard: pending is decremented and everyone notified under
\* the mutex.
WorkerFinish(w) ==
  /\ wpc[w] = "finish" /\ MutexFree
  /\ pending' = pending - 1
  /\ wjob' = [wjob EXCEPT ![w] = NoJob]
  /\ NotifyAll([wpc EXCEPT ![w] = "top"], cpc)
  /\ UNCHANGED <<jobs, stop, holder, carg, ret, owner, accepted, finished>>

-----------------------------------------------------------------------------
(* try_execute and wait_idle: the clients.                                 *)

CallExecute(c, j) ==
  /\ owner = "live" /\ cpc[c] = "idle"
  /\ j \notin accepted /\ \A d \in Clients : carg[d] # j
  /\ cpc' = [cpc EXCEPT ![c] = "exec"]
  /\ carg' = [carg EXCEPT ![c] = j]
  /\ UNCHANGED <<jobs, pending, stop, holder, wpc, wjob, ret, owner,
                 accepted, finished>>

\* jobs.len() >= max_jobs
QueueFull == Len(jobs) >= MaxJobs

\* The critical section of try_execute, taken or refused.
TryExecute(c) ==
  /\ cpc[c] = "exec" /\ MutexFree
  /\ carg' = [carg EXCEPT ![c] = NoJob]
  /\ IF stop \/ QueueFull
     THEN /\ ret' = [ret EXCEPT ![c] = IF stop THEN "stopped" ELSE "queue_full"]
          /\ cpc' = [cpc EXCEPT ![c] = "idle"]
          /\ UNCHANGED <<jobs, pending, accepted>>
     ELSE /\ jobs' = Append(jobs, carg[c])
          /\ pending' = pending + 1
          /\ accepted' = accepted \cup {carg[c]}
          /\ cpc' = [cpc EXCEPT ![c] = "notify"]
          /\ UNCHANGED ret
  /\ UNCHANGED <<stop, holder, wpc, wjob, owner, finished>>

\* notify_one, after the guard is dropped: any one waiting thread is woken,
\* and the condition variable does not tell workers from wait_idle callers.
NotifyOne(c) ==
  /\ cpc[c] = "notify"
  /\ ret' = [ret EXCEPT ![c] = "ok"]
  /\ \/ /\ \A w \in Workers : wpc[w] # "wait"
        /\ \A d \in Clients : cpc[d] # "wait"
        /\ cpc' = [cpc EXCEPT ![c] = "idle"]
        /\ UNCHANGED wpc
     \/ \E w \in Workers :
        /\ wpc[w] = "wait"
        /\ wpc' = [wpc EXCEPT ![w] = "lock"]
        /\ cpc' = [cpc EXCEPT ![c] = "idle"]
     \/ \E d \in Clients :
        /\ cpc[d] = "wait"
        /\ cpc' = [cpc EXCEPT ![c] = "idle", ![d] = "check"]
        /\ UNCHANGED wpc
  /\ UNCHANGED <<jobs, pending, stop, holder, wjob, carg, owner,
                 accepted, finished>>

CallWaitIdle(c) ==
  /\ owner = "live" /\ cpc[c] = "idle"
  /\ cpc' = [cpc EXCEPT ![c] = "check"]
  /\ UNCHANGED <<jobs, pending, stop, holder, wpc, wjob, carg, ret, owner,
                 accepted, finished>>

\* Mutant: an empty stack counts as idle, jobs still running or not.
PoolIdleQueueOnly == jobs = <<>>

\* What wait_idle waits for.
PoolIdle == jobs = <<>> /\ pending = 0

\* One turn of the loop of wait_idle, under the mutex.
WaitIdle(c) ==
  /\ cpc[c] = "check" /\ MutexFree
  /\ IF PoolIdle \/ stop
     THEN /\ ret' = [ret EXCEPT ![c] = IF PoolIdle THEN "was_idle" ELSE "was_stopped"]
          /\ cpc' = [cpc EXCEPT ![c] = "idle"]
     ELSE /\ cpc' = [cpc EXCEPT ![c] = "wait"]
          /\ UNCHANGED ret
  /\ UNCHANGED <<jobs, pending, stop, holder, wpc, wjob, carg, owner,
                 accepted, finished>>

\* Condition variables may wake a thread that nobody notified.
SpuriousWakeup ==
  /\ \/ \E w \in Workers : /\ wpc[w] = "wait"
                           /\ wpc' = [wpc EXCEPT ![w] = "lock"]
                           /\ UNCHANGED cpc
     \/ \E c \in Clients : /\ cpc[c] = "wait"
                           /\ cpc' = [cpc EXCEPT ![c] = "check"]
                           /\ UNCHANGED wpc
  /\ UNCHANGED <<jobs, pending, stop, holder, wjob, carg, ret, owner,
                 accepted, finished>>

-----------------------------------------------------------------------------
WorkerStep(w) ==
  \/ WorkerTop(w) \/ WorkerLock(w) \/ WorkerPop(w) \/ WorkerSeesEmpty(w)
  \/ WorkerPark(w) \/ WorkerFinish(w)
  \/ \E outcome \in {"returned", "panicked"} : WorkerRun(w, outcome)

ClientStep(c) == TryExecute(c) \/ NotifyOne(c) \/ WaitIdle(c)

OwnerStep ==
  \/ \E w \in Workers : Spawn(w)
  \/ SpawnFails \/ SpawnFailNotify \/ DropNotify \/ Join

ClientCall(c) == CallWaitIdle(c) \/ \E j \in Jobs : CallExecute(c, j)

Next ==
  \/ OwnerStep \/ DropStop \/ SpuriousWakeup
  \/ \E w \in Workers : WorkerStep(w)
  \/ \E c \in Clients : ClientStep(c) \/ ClientCall(c)

Spec == Init /\ [][Next]_vars

-----------------------------------------------------------------------------
Holding(w) == wpc[w] \in {"scan", "park"}
Busy == {w \in Workers : wpc[w] \in {"run", "finish"}}
Queued == {jobs[i] : i \in 1..Len(jobs)}

TypeOK ==
  /\ jobs \in Seq(Jobs) /\ Len(jobs) <= MaxJobs
  /\ pending \in Nat
  /\ stop \in BOOLEAN
  /\ holder \in Workers \cup {NoThread}
  /\ wpc \in [Workers -> WorkerPCs]
  /\ wjob \in [Workers -> Jobs \cup {NoJob}]
  /\ cpc \in [Clients -> ClientPCs]
  /\ carg \in [Clients -> Jobs \cup {NoJob}]
  /\ ret \in [Clients -> Returns]
  /\ owner \in OwnerPCs
  /\ accepted \subseteq Jobs /\ finished \subseteq Jobs

\* The worker between two of its steps in a critical section is the holder of
\* the mutex, so two workers are never in one at the same time.
MutexInv == \A w \in Workers : Holding(w) <=> holder = w

\* Where a job is: offered by one client, on the stack once, in the hands of
\* one worker, or finished.  Only a live pool has calls in progress.
JobsInv ==
  /\ owner # "live" => \A c \in Clients : cpc[c] = "idle"
  /\ finished \subseteq accepted
  /\ \A c \in Clients : cpc[c] = "exec" => carg[c] \in Jobs \ accepted
  /\ \A c, d \in Clients :
       cpc[c] = "exec" /\ cpc[d] = "exec" /\ c # d => carg[c] # carg[d]
  /\ \A c \in Clients : cpc[c] # "exec" => carg[c] = NoJob
  /\ \A i \in 1..Len(jobs) : jobs[i] \in accepted \ finished
  /\ \A i, k \in 1..Len(jobs) : i # k => jobs[i] # jobs[k]
  /\ \A w \in Workers : wpc[w] = "run" => wjob[w] \in accepted \ finished
  /\ \A w \in Workers : \A i \in 1..Len(jobs) : wpc[w] = "run" => wjob[w] # jobs[i]
  /\ \A v, w \in Workers :
       wpc[v] = "run" /\ wpc[w] = "run" /\ v # w => wjob[v] # wjob[w]
  /\ owner # "gone" =>
       \A j \in accepted \ finished :
          \/ \E i \in 1..Len(jobs) : jobs[i] = j
          \/ \E w \in Workers : wpc[w] = "run" /\ wjob[w] = j

\* `pending` counts exactly the jobs on the stack and the jobs in a worker's
\* hands whenever the pool is alive: the predicate wait_idle tests
\* ("jobs.is_empty() && pending == 0") is about the same jobs in both halves.
PendingIsOutstanding ==
  owner # "gone" => pending = Len(jobs) + Cardinality(Busy)

\* Drop (and the failure path of try_new) returns only when no worker is left
\* that could still touch the shared state.
NoWorkerOutlivesPool ==
  owner = "gone" => \A w \in Workers : wpc[w] \in {"unspawned", "exited"}

\* The pool's accounting: every job is in one place, `pending` counts the jobs
\* that are queued or running (a panicking one included), the mutex has one
\* holder and no worker outlives the pool.  This is the inductive invariant of
\* the proofs.
PoolInv ==
  TypeOK /\ MutexInv /\ JobsInv /\ PendingIsOutstanding /\ NoWorkerOutlivesPool

\* wait_idle returns true only at a moment when every job any client ever
\* handed over has returned: none is queued, running, or popped and not run.
WaitIdleSound ==
  [][\A c \in Clients :
       (cpc[c] = "check" /\ ret'[c] = "was_idle" /\ cpc'[c] = "idle")
         => accepted = finished]_vars
=============================================================================
