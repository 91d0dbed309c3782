-------------------------- MODULE ThreadPoolProofs --------------------------
(***************************************************************************)
(* The thread pool for every number of workers, clients and jobs and every *)
(* capacity of the stack.  PoolInv is inductive: the count of outstanding  *)
(* jobs needs the types, the type of the counter needs the count (a worker *)
(* that finishes is one of the jobs counted), and the soundness of         *)
(* wait_idle needs to know where an accepted job can be.                   *)
(***************************************************************************)
EXTENDS ParallelWave, FiniteSetTheorems, TLAPS

\* The busy workers are finitely many, and a busy worker is counted.
LEMMA BusyFinite ==
  /\ IsFiniteSet(Busy)
  /\ Cardinality(Busy) \in Nat
  /\ \A w \in Busy : Cardinality(Busy) > 0
<1>1. IsFiniteSet(Busy)
  BY ConstantsAssumption, FS_Subset DEF Busy
<1>2. Cardinality(Busy) \in Nat
  BY <1>1, FS_CardinalityType
<1>3. QED
  BY <1>1, <1>2, FS_EmptySet

\* What popping the last element of a stack leaves.
LEMMA PopFacts ==
  ASSUME NEW S, NEW s \in Seq(S), s # <<>>
  PROVE  LET t == SubSeq(s, 1, Len(s) - 1) IN
         /\ t \in Seq(S)
         /\ Len(t) = Len(s) - 1
         /\ Len(s) \in 1..Len(s)
         /\ \A i \in 1..Len(t) : t[i] = s[i]
  OBVIOUS

\* Every step keeps the holder and the workers in a critical section in step.
LEMMA MutexStep ==
  ASSUME PoolInv, [Next]_vars
  PROVE  MutexInv'
<1> USE ConstantsAssumption DEF PoolInv, MutexInv, Holding, TypeOK
<1>1. ASSUME NEW w \in Workers, Spawn(w)
      PROVE  MutexInv'
  BY <1>1 DEF Spawn
<1>2. ASSUME SpawnFails
      PROVE  MutexInv'
  BY <1>2 DEF SpawnFails
<1>3. ASSUME SpawnFailNotify
      PROVE  MutexInv'
  BY <1>3 DEF SpawnFailNotify, NotifyAll, WakeAllWorkers, WakeAllClients
<1>4. ASSUME DropStop
      PROVE  MutexInv'
  BY <1>4 DEF DropStop
<1>5. ASSUME DropNotify
      PROVE  MutexInv'
  BY <1>5 DEF DropNotify, NotifyAll, WakeAllWorkers, WakeAllClients, MutexFree
<1>6. ASSUME Join
      PROVE  MutexInv'
  BY <1>6 DEF Join
<1>7. ASSUME NEW w \in Workers, WorkerTop(w)
      PROVE  MutexInv'
  BY <1>7 DEF WorkerTop
<1>8. ASSUME NEW w \in Workers, WorkerLock(w)
      PROVE  MutexInv'
  BY <1>8 DEF WorkerLock, MutexFree
<1>9. ASSUME NEW w \in Workers, WorkerPop(w)
      PROVE  MutexInv'
  BY <1>9 DEF WorkerPop
<1>10. ASSUME NEW w \in Workers, WorkerSeesEmpty(w)
      PROVE  MutexInv'
  BY <1>10 DEF WorkerSeesEmpty
<1>11. ASSUME NEW w \in Workers, WorkerPark(w)
      PROVE  MutexInv'
  BY <1>11 DEF WorkerPark
<1>12. ASSUME NEW w \in Workers, NEW o \in {"returned", "panicked"}, WorkerRun(w, o)
      PROVE  MutexInv'
  BY <1>12 DEF WorkerRun
<1>13. ASSUME NEW w \in Workers, WorkerFinish(w)
      PROVE  MutexInv'
  BY <1>13 DEF WorkerFinish, NotifyAll, WakeAllWorkers, WakeAllClients, MutexFree
<1>14. ASSUME NEW c \in Clients, NEW j \in Jobs, CallExecute(c, j)
      PROVE  MutexInv'
  BY <1>14 DEF CallExecute
<1>15. ASSUME NEW c \in Clients, TryExecute(c)
      PROVE  MutexInv'
  BY <1>15 DEF TryExecute, QueueFull, MutexFree
<1>16. ASSUME NEW c \in Clients, NotifyOne(c)
      PROVE  MutexInv'
  BY <1>16 DEF NotifyOne
<1>17. ASSUME NEW c \in Clients, CallWaitIdle(c)
      PROVE  MutexInv'
  BY <1>17 DEF CallWaitIdle
<1>18. ASSUME NEW c \in Clients, WaitIdle(c)
      PROVE  MutexInv'
  BY <1>18 DEF WaitIdle, PoolIdle, MutexFree
<1>19. ASSUME SpuriousWakeup
      PROVE  MutexInv'
  BY <1>19 DEF SpuriousWakeup
<1>20. ASSUME UNCHANGED vars
      PROVE  MutexInv'
  BY <1>20 DEF vars
<1>21. QED
  BY <1>1, <1>2, <1>3, <1>4, <1>5, <1>6, <1>7, <1>8, <1>9, <1>10, <1>11, <1>12, <1>13, <1>14, <1>15, <1>16, <1>17, <1>18, <1>19, <1>20 DEF Next, OwnerStep, WorkerStep, ClientStep, ClientCall

\* No worker comes back to life after the joins.
LEMMA OutlivesStep ==
  ASSUME PoolInv, [Next]_vars
  PROVE  NoWorkerOutlivesPool'
<1> USE DEF PoolInv, NoWorkerOutlivesPool, TypeOK
<1>1. ASSUME NEW w \in Workers, Spawn(w)
      PROVE  NoWorkerOutlivesPool'
  BY <1>1 DEF Spawn
<1>2. ASSUME SpawnFails
      PROVE  NoWorkerOutlivesPool'
  BY <1>2 DEF SpawnFails
<1>3. ASSUME SpawnFailNotify
      PROVE  NoWorkerOutlivesPool'
  BY <1>3 DEF SpawnFailNotify, NotifyAll, WakeAllWorkers, WakeAllClients
<1>4. ASSUME DropStop
      PROVE  NoWorkerOutlivesPool'
  BY <1>4 DEF DropStop
<1>5. ASSUME DropNotify
      PROVE  NoWorkerOutlivesPool'
  BY <1>5 DEF DropNotify, NotifyAll, WakeAllWorkers, WakeAllClients, MutexFree
<1>6. ASSUME Join
      PROVE  NoWorkerOutlivesPool'
  BY <1>6 DEF Join
<1>7. ASSUME NEW w \in Workers, WorkerTop(w)
      PROVE  NoWorkerOutlivesPool'
  BY <1>7 DEF WorkerTop
<1>8. ASSUME NEW w \in Workers, WorkerLock(w)
      PROVE  NoWorkerOutlivesPool'
  BY <1>8 DEF WorkerLock, MutexFree
<1>9. ASSUME NEW w \in Workers, WorkerPop(w)
      PROVE  NoWorkerOutlivesPool'
  BY <1>9 DEF WorkerPop
<1>10. ASSUME NEW w \in Workers, WorkerSeesEmpty(w)
      PROVE  NoWorkerOutlivesPool'
  BY <1>10 DEF WorkerSeesEmpty
<1>11. ASSUME NEW w \in Workers, WorkerPark(w)
      PROVE  NoWorkerOutlivesPool'
  BY <1>11 DEF WorkerPark
<1>12. ASSUME NEW w \in Workers, NEW o \in {"returned", "panicked"}, WorkerRun(w, o)
      PROVE  NoWorkerOutlivesPool'
  BY <1>12 DEF WorkerRun
<1>13. ASSUME NEW w \in Workers, WorkerFinish(w)
      PROVE  NoWorkerOutlivesPool'
  BY <1>13 DEF WorkerFinish, NotifyAll, WakeAllWorkers, WakeAllClients, MutexFree
<1>14. ASSUME NEW c \in Clients, NEW j \in Jobs, CallExecute(c, j)
      PROVE  NoWorkerOutlivesPool'
  BY <1>14 DEF CallExecute
<1>15. ASSUME NEW c \in Clients, TryExecute(c)
      PROVE  NoWorkerOutlivesPool'
  BY <1>15 DEF TryExecute, QueueFull, MutexFree
<1>16. ASSUME NEW c \in Clients, NotifyOne(c)
      PROVE  NoWorkerOutlivesPool'
  BY <1>16 DEF NotifyOne
<1>17. ASSUME NEW c \in Clients, CallWaitIdle(c)
      PROVE  NoWorkerOutlivesPool'
  BY <1>17 DEF CallWaitIdle
<1>18. ASSUME NEW c \in Clients, WaitIdle(c)
      PROVE  NoWorkerOutlivesPool'
  BY <1>18 DEF WaitIdle, PoolIdle, MutexFree
<1>19. ASSUME SpuriousWakeup
      PROVE  NoWorkerOutlivesPool'
  BY <1>19 DEF SpuriousWakeup
<1>20. ASSUME UNCHANGED vars
      PROVE  NoWorkerOutlivesPool'
  BY <1>20 DEF vars
<1>21. QED
  BY <1>1, <1>2, <1>3, <1>4, <1>5, <1>6, <1>7, <1>8, <1>9, <1>10, <1>11, <1>12, <1>13, <1>14, <1>15, <1>16, <1>17, <1>18, <1>19, <1>20 DEF Next, OwnerStep, WorkerStep, ClientStep, ClientCall

\* Types are preserved; that pending stays a natural number needs the count.
LEMMA TypeStep ==
  ASSUME PoolInv, [Next]_vars
  PROVE  TypeOK'
<1> USE ConstantsAssumption DEF PoolInv, TypeOK, WorkerPCs, ClientPCs, OwnerPCs, Returns
<1>1. ASSUME NEW w \in Workers, Spawn(w)
      PROVE  TypeOK'
  BY <1>1 DEF Spawn
<1>2. ASSUME SpawnFails
      PROVE  TypeOK'
  BY <1>2 DEF SpawnFails
<1>3. ASSUME SpawnFailNotify
      PROVE  TypeOK'
  BY <1>3 DEF SpawnFailNotify, NotifyAll, WakeAllWorkers, WakeAllClients
<1>4. ASSUME DropStop
      PROVE  TypeOK'
  BY <1>4 DEF DropStop
<1>5. ASSUME DropNotify
      PROVE  TypeOK'
  BY <1>5 DEF DropNotify, NotifyAll, WakeAllWorkers, WakeAllClients, MutexFree
<1>6. ASSUME Join
      PROVE  TypeOK'
  BY <1>6 DEF Join
<1>7. ASSUME NEW w \in Workers, WorkerTop(w)
      PROVE  TypeOK'
  BY <1>7 DEF WorkerTop
<1>8. ASSUME NEW w \in Workers, WorkerLock(w)
      PROVE  TypeOK'
  BY <1>8 DEF WorkerLock, MutexFree
<1>9. ASSUME NEW w \in Workers, WorkerPop(w)
      PROVE  TypeOK'
  BY <1>9 DEF WorkerPop
<1>10. ASSUME NEW w \in Workers, WorkerSeesEmpty(w)
      PROVE  TypeOK'
  BY <1>10 DEF WorkerSeesEmpty
<1>11. ASSUME NEW w \in Workers, WorkerPark(w)
      PROVE  TypeOK'
  BY <1>11 DEF WorkerPark
<1>12. ASSUME NEW w \in Workers, NEW o \in {"returned", "panicked"}, WorkerRun(w, o)
      PROVE  TypeOK'
  BY <1>12 DEF WorkerRun, JobsInv
<1>13. ASSUME NEW w \in Workers, WorkerFinish(w)
      PROVE  TypeOK'
  <2>1. w \in Busy /\ owner # "gone"
    BY <1>13 DEF WorkerFinish, Busy, NoWorkerOutlivesPool
  <2>2. pending - 1 \in Nat
    BY <2>1, BusyFinite DEF PendingIsOutstanding
  <2>3. QED
    BY <1>13, <2>2 DEF WorkerFinish, NotifyAll, WakeAllWorkers, WakeAllClients, MutexFree
<1>14. ASSUME NEW c \in Clients, NEW j \in Jobs, CallExecute(c, j)
      PROVE  TypeOK'
  BY <1>14 DEF CallExecute
<1>15. ASSUME NEW c \in Clients, TryExecute(c)
      PROVE  TypeOK'
  <2>1. carg[c] \in Jobs
    BY <1>15 DEF TryExecute, QueueFull, JobsInv
  <2>2. Append(jobs, carg[c]) \in Seq(Jobs) /\ Len(Append(jobs, carg[c])) = Len(jobs) + 1
    BY <2>1
  <2>3. CASE stop \/ Len(jobs) >= MaxJobs
    <3>1. /\ cpc' = [cpc EXCEPT ![c] = "idle"] /\ carg' = [carg EXCEPT ![c] = NoJob]
          /\ UNCHANGED <<jobs, pending, accepted>>
          /\ UNCHANGED <<stop, holder, wpc, wjob, owner, finished>>
          /\ \E r \in Returns : ret' = [ret EXCEPT ![c] = r]
      BY <1>15, <2>3 DEF TryExecute, QueueFull
    <3>2. QED
      BY <3>1
  <2>4. CASE ~(stop \/ Len(jobs) >= MaxJobs)
    <3>1. /\ cpc' = [cpc EXCEPT ![c] = "notify"] /\ carg' = [carg EXCEPT ![c] = NoJob]
          /\ jobs' = Append(jobs, carg[c]) /\ pending' = pending + 1
          /\ accepted' = accepted \cup {carg[c]}
          /\ UNCHANGED <<ret, stop, holder, wpc, wjob, owner, finished>>
      BY <1>15, <2>4 DEF TryExecute, QueueFull
    <3>2. Len(jobs) + 1 <= MaxJobs
      BY <2>4
    <3>3. QED
      BY <2>1, <2>2, <3>1, <3>2
  <2>5. QED
    BY <2>3, <2>4
<1>16. ASSUME NEW c \in Clients, NotifyOne(c)
      PROVE  TypeOK'
  BY <1>16 DEF NotifyOne
<1>17. ASSUME NEW c \in Clients, CallWaitIdle(c)
      PROVE  TypeOK'
  BY <1>17 DEF CallWaitIdle
<1>18. ASSUME NEW c \in Clients, WaitIdle(c)
      PROVE  TypeOK'
  BY <1>18 DEF WaitIdle, PoolIdle, MutexFree
<1>19. ASSUME SpuriousWakeup
      PROVE  TypeOK'
  BY <1>19 DEF SpuriousWakeup
<1>20. ASSUME UNCHANGED vars
      PROVE  TypeOK'
  BY <1>20 DEF vars
<1>21. QED
  BY <1>1, <1>2, <1>3, <1>4, <1>5, <1>6, <1>7, <1>8, <1>9, <1>10, <1>11, <1>12, <1>13, <1>14, <1>15, <1>16, <1>17, <1>18, <1>19, <1>20 DEF Next, OwnerStep, WorkerStep, ClientStep, ClientCall

\* Every job stays in one place.
LEMMA JobsStep ==
  ASSUME PoolInv, [Next]_vars
  PROVE  JobsInv'
<1> USE ConstantsAssumption DEF PoolInv, JobsInv, TypeOK, NoWorkerOutlivesPool
<1>1. ASSUME NEW w \in Workers, Spawn(w)
      PROVE  JobsInv'
  BY <1>1 DEF Spawn
<1>2. ASSUME SpawnFails
      PROVE  JobsInv'
  BY <1>2 DEF SpawnFails
<1>3. ASSUME SpawnFailNotify
      PROVE  JobsInv'
  BY <1>3 DEF SpawnFailNotify, NotifyAll, WakeAllWorkers, WakeAllClients
<1>4. ASSUME DropStop
      PROVE  JobsInv'
  BY <1>4 DEF DropStop
<1>5. ASSUME DropNotify
      PROVE  JobsInv'
  BY <1>5 DEF DropNotify, NotifyAll, WakeAllWorkers, WakeAllClients, MutexFree
<1>6. ASSUME Join
      PROVE  JobsInv'
  BY <1>6 DEF Join
<1>7. ASSUME NEW w \in Workers, WorkerTop(w)
      PROVE  JobsInv'
  BY <1>7 DEF WorkerTop
<1>8. ASSUME NEW w \in Workers, WorkerLock(w)
      PROVE  JobsInv'
  BY <1>8 DEF WorkerLock, MutexFree
<1>9. ASSUME NEW w \in Workers, WorkerPop(w)
      PROVE  JobsInv'
  <2> DEFINE t == SubSeq(jobs, 1, Len(jobs) - 1)
             n == Len(jobs)
  <2>1. /\ t \in Seq(Jobs) /\ Len(t) = n - 1 /\ n \in 1..n /\ n \in Nat
        /\ \A i \in 1..Len(t) : t[i] = jobs[i]
    BY <1>9, PopFacts DEF WorkerPop
  <2>2. /\ jobs' = t /\ wjob' = [wjob EXCEPT ![w] = jobs[n]]
        /\ wpc' = [wpc EXCEPT ![w] = "run"] /\ wpc[w] = "scan"
        /\ UNCHANGED <<cpc, carg, owner, accepted, finished>>
    BY <1>9 DEF WorkerPop
  <2> HIDE DEF t, n
  <2>3. \A i \in 1..Len(t) : i \in 1..n /\ i # n
    BY <2>1
  <2>4. \A i \in 1..n : i = n \/ i \in 1..Len(t)
    BY <2>1
  <2>5. \A i \in 1..Len(jobs') : jobs'[i] = jobs[i] /\ i \in 1..n /\ i # n
    BY <2>1, <2>2, <2>3
  <2>6. /\ \A i, k \in 1..n : i # k => jobs[i] # jobs[k]
        /\ \A i \in 1..n : jobs[i] \in accepted \ finished
    BY DEF n
  <2>7. \A v \in Workers : wjob'[v] = IF v = w THEN jobs[n] ELSE wjob[v]
    BY <2>2
  <2>8. \A v \in Workers : wpc'[v] = IF v = w THEN "run" ELSE wpc[v]
    BY <2>2
  <2>9. (owner # "gone" =>
          \A j \in accepted \ finished :
             \/ \E i \in 1..Len(jobs) : jobs[i] = j
             \/ \E v \in Workers : wpc[v] = "run" /\ wjob[v] = j)'
    <3> SUFFICES ASSUME owner # "gone", NEW j \in accepted \ finished,
                        ~ \E i \in 1..Len(t) : t[i] = j
                 PROVE  \E v \in Workers : wpc'[v] = "run" /\ wjob'[v] = j
      BY <2>2
    <3>1. (\E i \in 1..n : jobs[i] = j) \/ \E v \in Workers : wpc[v] = "run" /\ wjob[v] = j
      BY DEF n
    <3>2. CASE \E v \in Workers : wpc[v] = "run" /\ wjob[v] = j
      BY <3>2, <2>2, <2>7, <2>8
    <3>3. CASE \E i \in 1..n : jobs[i] = j
      <4>1. jobs[n] = j
        BY <3>3, <2>1, <2>4
      <4>2. QED
        BY <4>1, <2>7, <2>8
    <3>4. QED
      BY <3>1, <3>2, <3>3
  <2>10. QED
    BY <2>1, <2>2, <2>5, <2>6, <2>7, <2>8, <2>9 DEF n
<1>10. ASSUME NEW w \in Workers, WorkerSeesEmpty(w)
      PROVE  JobsInv'
  BY <1>10 DEF WorkerSeesEmpty
<1>11. ASSUME NEW w \in Workers, WorkerPark(w)
      PROVE  JobsInv'
  BY <1>11 DEF WorkerPark
<1>12. ASSUME NEW w \in Workers, NEW o \in {"returned", "panicked"}, WorkerRun(w, o)
      PROVE  JobsInv'
  BY <1>12 DEF WorkerRun
<1>13. ASSUME NEW w \in Workers, WorkerFinish(w)
      PROVE  JobsInv'
  <2>1. /\ wpc[w] = "finish" /\ UNCHANGED <<jobs, carg, owner, accepted, finished>>
        /\ wjob' = [wjob EXCEPT ![w] = NoJob]
    BY <1>13 DEF WorkerFinish
  <2>2. \A v \in Workers : (wpc'[v] = "run") <=> (wpc[v] = "run")
    BY <1>13 DEF WorkerFinish, NotifyAll, WakeAllWorkers
  <2>3. \A v \in Workers : wpc[v] = "run" => wjob'[v] = wjob[v]
    BY <2>1
  <2>4. \A c \in Clients : /\ (cpc'[c] = "exec") <=> (cpc[c] = "exec")
                           /\ cpc[c] = "idle" => cpc'[c] = "idle"
    BY <1>13 DEF WorkerFinish, NotifyAll, WakeAllClients
  <2>5. (owner # "gone" =>
          \A j \in accepted \ finished :
             \/ \E i \in 1..Len(jobs) : jobs[i] = j
             \/ \E v \in Workers : wpc[v] = "run" /\ wjob[v] = j)'
    BY <2>1, <2>2, <2>3
  <2>6. (/\ owner # "live" => \A c \in Clients : cpc[c] = "idle"
         /\ finished \subseteq accepted
         /\ \A c \in Clients : cpc[c] = "exec" => carg[c] \in Jobs \ accepted
         /\ \A c, d \in Clients :
              cpc[c] = "exec" /\ cpc[d] = "exec" /\ c # d => carg[c] # carg[d]
         /\ \A c \in Clients : cpc[c] # "exec" => carg[c] = NoJob)'
    BY <2>1, <2>4
  <2>7. (/\ \A i \in 1..Len(jobs) : jobs[i] \in accepted \ finished
         /\ \A i, k \in 1..Len(jobs) : i # k => jobs[i] # jobs[k])'
    BY <2>1
  <2>8. (\A v \in Workers : wpc[v] = "run" => wjob[v] \in accepted \ finished)'
    BY <2>1, <2>2, <2>3
  <2>9. (\A v \in Workers : \A i \in 1..Len(jobs) : wpc[v] = "run" => wjob[v] # jobs[i])'
    BY <2>1, <2>2, <2>3
  <2>10. (\A u, v \in Workers :
            wpc[u] = "run" /\ wpc[v] = "run" /\ u # v => wjob[u] # wjob[v])'
    BY <2>2, <2>3
  <2>11. QED
    BY <2>5, <2>6, <2>7, <2>8, <2>9, <2>10
<1>14. ASSUME NEW c \in Clients, NEW j \in Jobs, CallExecute(c, j)
      PROVE  JobsInv'
  BY <1>14 DEF CallExecute
<1>15. ASSUME NEW c \in Clients, TryExecute(c)
      PROVE  JobsInv'
  <2>1. CASE stop \/ Len(jobs) >= MaxJobs
    BY <1>15, <2>1 DEF TryExecute, QueueFull
  <2>2. CASE ~(stop \/ Len(jobs) >= MaxJobs)
    <3> DEFINE n == Len(jobs)
    <3>1. /\ jobs' = Append(jobs, carg[c]) /\ carg' = [carg EXCEPT ![c] = NoJob]
          /\ accepted' = accepted \cup {carg[c]} /\ cpc[c] = "exec"
          /\ cpc' = [cpc EXCEPT ![c] = "notify"]
          /\ UNCHANGED <<wpc, wjob, owner, finished>>
      BY <1>15, <2>2 DEF TryExecute, QueueFull
    <3>2. carg[c] \in Jobs \ accepted
      BY <3>1
    <3>3. /\ n \in Nat /\ Len(jobs') = n + 1 /\ jobs'[n + 1] = carg[c]
          /\ \A i \in 1..n : jobs'[i] = jobs[i]
      BY <3>1, <3>2
    <3> HIDE DEF n
    <3>4. \A i \in 1..Len(jobs') : i = n + 1 \/ i \in 1..n
      BY <3>3
    <3>5. n + 1 \in 1..Len(jobs') /\ 1..n \subseteq 1..Len(jobs')
      BY <3>3
    <3>6. /\ \A i, k \in 1..n : i # k => jobs[i] # jobs[k]
          /\ \A i \in 1..n : jobs[i] \in accepted \ finished
      BY DEF n
    <3>7. \A i \in 1..Len(jobs') : jobs'[i] \in accepted' \ finished'
      BY <3>1, <3>2, <3>3, <3>4, <3>6
    <3>8. \A i, k \in 1..Len(jobs') : i # k => jobs'[i] # jobs'[k]
      BY <3>2, <3>3, <3>4, <3>6
    <3>9. \A v \in Workers : \A i \in 1..Len(jobs') : wpc[v] = "run" => wjob[v] # jobs'[i]
      BY <3>2, <3>3, <3>4 DEF n
    <3>10. owner # "gone" =>
            \A j \in accepted' \ finished :
               \/ \E i \in 1..Len(jobs') : jobs'[i] = j
               \/ \E v \in Workers : wpc[v] = "run" /\ wjob[v] = j
      BY <3>1, <3>3, <3>5 DEF n
    <3>11. QED
      BY <3>1, <3>2, <3>7, <3>8, <3>9, <3>10
  <2>3. QED
    BY <2>1, <2>2
<1>16. ASSUME NEW c \in Clients, NotifyOne(c)
      PROVE  JobsInv'
  BY <1>16 DEF NotifyOne
<1>17. ASSUME NEW c \in Clients, CallWaitIdle(c)
      PROVE  JobsInv'
  BY <1>17 DEF CallWaitIdle
<1>18. ASSUME NEW c \in Clients, WaitIdle(c)
      PROVE  JobsInv'
  BY <1>18 DEF WaitIdle, PoolIdle, MutexFree
<1>19. ASSUME SpuriousWakeup
      PROVE  JobsInv'
  BY <1>19, SMTT(30) DEF SpuriousWakeup
<1>20. ASSUME UNCHANGED vars
      PROVE  JobsInv'
  BY <1>20 DEF vars
<1>21. QED
  BY <1>1, <1>2, <1>3, <1>4, <1>5, <1>6, <1>7, <1>8, <1>9, <1>10, <1>11, <1>12, <1>13, <1>14, <1>15, <1>16, <1>17, <1>18, <1>19, <1>20 DEF Next, OwnerStep, WorkerStep, ClientStep, ClientCall

\* The counter follows the stack and the busy workers.
LEMMA PendingStep ==
  ASSUME PoolInv, [Next]_vars
  PROVE  PendingIsOutstanding'
<1> USE ConstantsAssumption DEF PoolInv, PendingIsOutstanding, TypeOK, Busy
<1>1. ASSUME NEW w \in Workers, Spawn(w)
      PROVE  PendingIsOutstanding'
  BY <1>1 DEF Spawn
<1>2. ASSUME SpawnFails
      PROVE  PendingIsOutstanding'
  BY <1>2 DEF SpawnFails
<1>3. ASSUME SpawnFailNotify
      PROVE  PendingIsOutstanding'
  BY <1>3 DEF SpawnFailNotify, NotifyAll, WakeAllWorkers, WakeAllClients
<1>4. ASSUME DropStop
      PROVE  PendingIsOutstanding'
  BY <1>4 DEF DropStop
<1>5. ASSUME DropNotify
      PROVE  PendingIsOutstanding'
  BY <1>5 DEF DropNotify, NotifyAll, WakeAllWorkers, WakeAllClients, MutexFree
<1>6. ASSUME Join
      PROVE  PendingIsOutstanding'
  BY <1>6 DEF Join
<1>7. ASSUME NEW w \in Workers, WorkerTop(w)
      PROVE  PendingIsOutstanding'
  BY <1>7 DEF WorkerTop
<1>8. ASSUME NEW w \in Workers, WorkerLock(w)
      PROVE  PendingIsOutstanding'
  BY <1>8 DEF WorkerLock, MutexFree
<1>9. ASSUME NEW w \in Workers, WorkerPop(w)
      PROVE  PendingIsOutstanding'
  <2>1. Busy' = Busy \cup {w} /\ w \notin Busy
    BY <1>9 DEF WorkerPop
  <2>2. Cardinality(Busy') = Cardinality(Busy) + 1
    BY <2>1, BusyFinite, FS_AddElement
  <2>3. Len(jobs') = Len(jobs) - 1
    BY <1>9, PopFacts DEF WorkerPop
  <2> HIDE DEF Busy
  <2>4. QED
    BY <1>9, <2>2, <2>3, BusyFinite DEF WorkerPop
<1>10. ASSUME NEW w \in Workers, WorkerSeesEmpty(w)
      PROVE  PendingIsOutstanding'
  BY <1>10 DEF WorkerSeesEmpty
<1>11. ASSUME NEW w \in Workers, WorkerPark(w)
      PROVE  PendingIsOutstanding'
  BY <1>11 DEF WorkerPark
<1>12. ASSUME NEW w \in Workers, NEW o \in {"returned", "panicked"}, WorkerRun(w, o)
      PROVE  PendingIsOutstanding'
  BY <1>12 DEF WorkerRun
<1>13. ASSUME NEW w \in Workers, WorkerFinish(w)
      PROVE  PendingIsOutstanding'
  <2>1. Busy' = Busy \ {w} /\ w \in Busy
    BY <1>13 DEF WorkerFinish, NotifyAll, WakeAllWorkers
  <2> HIDE DEF Busy
  <2>2. Cardinality(Busy') = Cardinality(Busy) - 1
    BY <2>1, BusyFinite, FS_RemoveElement
  <2>3. QED
    BY <1>13, <2>2, BusyFinite DEF WorkerFinish
<1>14. ASSUME NEW c \in Clients, NEW j \in Jobs, CallExecute(c, j)
      PROVE  PendingIsOutstanding'
  BY <1>14 DEF CallExecute
<1>15. ASSUME NEW c \in Clients, TryExecute(c)
      PROVE  PendingIsOutstanding'
  <2>1. Busy' = Busy
    BY <1>15 DEF TryExecute, QueueFull
  <2>2. carg[c] \in Jobs
    BY <1>15 DEF TryExecute, QueueFull, JobsInv
  <2>3. Len(Append(jobs, carg[c])) = Len(jobs) + 1
    BY <2>2
  <2> HIDE DEF Busy
  <2>4. QED
    BY <1>15, <2>1, <2>3, BusyFinite DEF TryExecute, QueueFull
<1>16. ASSUME NEW c \in Clients, NotifyOne(c)
      PROVE  PendingIsOutstanding'
  BY <1>16 DEF NotifyOne
<1>17. ASSUME NEW c \in Clients, CallWaitIdle(c)
      PROVE  PendingIsOutstanding'
  BY <1>17 DEF CallWaitIdle
<1>18. ASSUME NEW c \in Clients, WaitIdle(c)
      PROVE  PendingIsOutstanding'
  BY <1>18 DEF WaitIdle, PoolIdle, MutexFree
<1>19. ASSUME SpuriousWakeup
      PROVE  PendingIsOutstanding'
  BY <1>19 DEF SpuriousWakeup
<1>20. ASSUME UNCHANGED vars
      PROVE  PendingIsOutstanding'
  BY <1>20 DEF vars
<1>21. QED
  BY <1>1, <1>2, <1>3, <1>4, <1>5, <1>6, <1>7, <1>8, <1>9, <1>10, <1>11, <1>12, <1>13, <1>14, <1>15, <1>16, <1>17, <1>18, <1>19, <1>20 DEF Next, OwnerStep, WorkerStep, ClientStep, ClientCall

\* The inductive invariant holds at the start and every step keeps it.
LEMMA PoolInvInductive ==
  /\ Init => PoolInv
  /\ PoolInv /\ [Next]_vars => PoolInv'
<1>1. Init => PoolInv
  <2> SUFFICES ASSUME Init PROVE PoolInv
    OBVIOUS
  <2> USE ConstantsAssumption DEF Init
  <2>1. Busy = {}
    BY DEF Busy
  <2>2. PendingIsOutstanding
    BY <2>1, FS_EmptySet DEF PendingIsOutstanding
  <2>3. TypeOK
    <3>1. jobs \in Seq(Jobs) /\ Len(jobs) <= MaxJobs /\ pending \in Nat
      OBVIOUS
    <3>2. QED
      BY <3>1 DEF TypeOK, WorkerPCs, ClientPCs, OwnerPCs, Returns
  <2>4. MutexInv /\ JobsInv /\ NoWorkerOutlivesPool
    BY DEF MutexInv, Holding, JobsInv, NoWorkerOutlivesPool
  <2>5. QED
    BY <2>2, <2>3, <2>4 DEF PoolInv
<1>2. PoolInv /\ [Next]_vars => PoolInv'
  BY MutexStep, OutlivesStep, TypeStep, JobsStep, PendingStep DEF PoolInv
<1>3. QED
  BY <1>1, <1>2

\* PoolInv is an invariant of the pool for any number of workers, clients
\* and jobs and any capacity of the stack, spawn failures included.
THEOREM PoolInvariant == Spec => []PoolInv
  BY PoolInvInductive, PTL DEF Spec

\* The counter wait_idle reads is the number of outstanding jobs, in every
\* reachable state of a pool that has not been dropped.
THEOREM PendingCorrect == Spec => []PendingIsOutstanding
<1>1. PoolInv => PendingIsOutstanding
  BY DEF PoolInv
<1>2. QED
  BY <1>1, PoolInvariant, PTL

\* Drop and the failure path of try_new leave no worker behind.
THEOREM NoWorkerLeft == Spec => []NoWorkerOutlivesPool
<1>1. PoolInv => NoWorkerOutlivesPool
  BY DEF PoolInv
<1>2. QED
  BY <1>1, PoolInvariant, PTL

\* An idle pool that is alive has finished what it accepted: no worker is
\* counted in `pending`, and no job is left on the stack.
LEMMA IdleMeansFinished ==
  ASSUME PoolInv, PoolIdle, owner = "live"
  PROVE  accepted = finished
<1>1. jobs = <<>> /\ pending = 0
  BY DEF PoolIdle
<1>2. Cardinality(Busy) = 0
  BY <1>1, BusyFinite DEF PoolInv, PendingIsOutstanding
<1>3. Busy = {}
  BY <1>2, BusyFinite, FS_EmptySet
<1>4. accepted \subseteq finished
  BY <1>1, <1>3 DEF PoolInv, JobsInv, Busy
<1>5. QED
  BY <1>4 DEF PoolInv, JobsInv

\* wait_idle returns true only when every accepted job has finished: an empty
\* stack and pending = 0 leave no busy worker, and an accepted job that has not
\* finished is on the stack or in the hands of a busy worker.
THEOREM WaitIdleIsSound == Spec => WaitIdleSound
<1> DEFINE Sound == \A c \in Clients :
             (cpc[c] = "check" /\ ret'[c] = "was_idle" /\ cpc'[c] = "idle")
               => accepted = finished
<1>1. ASSUME PoolInv, [Next]_vars
      PROVE  [Sound]_vars
  <2> SUFFICES ASSUME NEW c \in Clients, Next, cpc[c] = "check",
                      ret'[c] = "was_idle", cpc'[c] = "idle"
               PROVE  accepted = finished
    BY <1>1
  <2>1. WaitIdle(c)
    BY <1>1 DEF Next, OwnerStep, WorkerStep, ClientStep, ClientCall, Spawn, SpawnFails,
       SpawnFailNotify, DropStop, DropNotify, Join, WorkerTop, WorkerLock, WorkerPop,
       WorkerSeesEmpty, WorkerPark, WorkerRun, WorkerFinish, CallExecute, TryExecute, QueueFull,
       NotifyOne, CallWaitIdle, WaitIdle, PoolIdle, SpuriousWakeup, NotifyAll, WakeAllClients,
       PoolInv, TypeOK, ClientPCs
  <2>2. PoolIdle
    BY <1>1, <2>1 DEF WaitIdle, PoolInv, TypeOK
  <2>3. owner = "live"
    BY <1>1, <2>1 DEF WaitIdle, PoolInv, JobsInv
  <2>4. QED
    BY <1>1, <2>2, <2>3, IdleMeansFinished
<1>2. QED
  BY <1>1, PoolInvariant, PTL DEF Spec, WaitIdleSound

-----------------------------------------------------------------------------
(***************************************************************************)
(* The executor of dependency waves over the pool, for any number of       *)
(* callers, workers and jobs and waves of any length.  It uses the pool    *)
(* the way any client does (WaveUsesPool), so the theorems above hold      *)
(* under it; and the answer of try_run is right although the pool may hold *)
(* jobs of other callers and of waves that failed (TrueIsSound).           *)
(***************************************************************************)
EnginePCs == {"out", "submit", "submitting", "await"}

WaveTypeOK ==
  /\ scenario \in Scenarios
  /\ epc \in [Clients -> EnginePCs]
  /\ todo \in [Clients -> Seq(Jobs)]
  /\ taken \in [Clients -> SUBSET Jobs]
  /\ outcome \in [Clients -> {"none", "error", "true", "false"}]

\* Where a caller stands in try_run says where it stands in the pool's calls,
\* and what the pool has taken of its wave.
CallerInv(c) ==
  /\ taken[c] \subseteq accepted
  /\ epc[c] \in {"out", "submit"} => cpc[c] = "idle"
  /\ epc[c] # "out" => outcome[c] = "none"
  /\ epc[c] = "submitting" =>
       /\ todo[c] # <<>>
       /\ cpc[c] \in {"exec", "notify", "idle"}
       /\ cpc[c] = "exec" => carg[c] = Head(todo[c])
       /\ cpc[c] = "notify" => Head(todo[c]) \in accepted
       /\ cpc[c] = "idle" /\ ret[c] = "ok" => Head(todo[c]) \in accepted
  /\ epc[c] = "await" =>
       /\ cpc[c] \in {"check", "wait", "idle"}
       /\ cpc[c] = "idle" /\ ret[c] = "was_idle" => taken[c] \subseteq finished
  /\ outcome[c] = "true" => taken[c] \subseteq finished

WaveIInv == PoolInv /\ WaveTypeOK /\ \A c \in Clients : CallerInv(c)

-----------------------------------------------------------------------------
\* The steps of the pool that no client starts by a call.
Internal ==
  \/ OwnerStep \/ SpuriousWakeup \/ DropStop
  \/ \E w \in Workers : WorkerStep(w)
  \/ \E d \in Clients : ClientStep(d)

\* What a step of the pool may do to a client: nothing, wake it, or move its
\* own call on.
ClientMove(c) ==
  \/ cpc'[c] = cpc[c] /\ carg'[c] = carg[c] /\ ret'[c] = ret[c]
  \/ cpc[c] = "wait" /\ cpc'[c] = "check"
  \/ cpc[c] = "exec" /\ cpc'[c] = "notify" /\ carg[c] \in accepted'
  \/ cpc[c] = "exec" /\ cpc'[c] = "idle" /\ ret'[c] # "ok"
  \/ cpc[c] = "notify" /\ cpc'[c] = "idle" /\ ret'[c] = "ok"
  \/ cpc[c] = "check" /\ cpc'[c] = "wait"
  \/ cpc[c] = "check" /\ cpc'[c] = "idle"
       /\ (ret'[c] = "was_idle" => accepted' = finished')

\* The history of the pool only grows.
LEMMA HistoryGrows ==
  ASSUME Internal
  PROVE  accepted \subseteq accepted' /\ finished \subseteq finished'
<1> USE DEF Internal
<1>1. ASSUME OwnerStep
      PROVE  accepted' = accepted /\ finished' = finished
  BY <1>1 DEF OwnerStep, Spawn, SpawnFails, SpawnFailNotify, DropNotify, Join
<1>2. ASSUME SpuriousWakeup \/ DropStop
      PROVE  accepted' = accepted /\ finished' = finished
  BY <1>2 DEF SpuriousWakeup, DropStop
<1>3. ASSUME NEW w \in Workers, WorkerStep(w)
      PROVE  accepted' = accepted /\ finished \subseteq finished'
  BY <1>3 DEF WorkerStep, WorkerTop, WorkerLock, WorkerPop, WorkerSeesEmpty, WorkerPark,
     WorkerRun, WorkerFinish
<1>4. ASSUME NEW d \in Clients, ClientStep(d)
      PROVE  accepted \subseteq accepted' /\ finished' = finished
  BY <1>4 DEF ClientStep, TryExecute, NotifyOne, WaitIdle
<1>5. QED
  BY <1>1, <1>2, <1>3, <1>4

\* Every step of the pool is one of these moves for every client.
LEMMA PoolMovesClients ==
  ASSUME PoolInv, Internal, NEW c \in Clients
  PROVE  ClientMove(c)
<1>t. /\ cpc \in [Clients -> ClientPCs] /\ carg \in [Clients -> Jobs \cup {NoJob}]
      /\ ret \in [Clients -> Returns]
  BY DEF PoolInv, TypeOK
<1>1. ASSUME OwnerStep
      PROVE  ClientMove(c)
  BY <1>1, <1>t DEF OwnerStep, Spawn, SpawnFails, SpawnFailNotify, DropNotify, Join,
     NotifyAll, WakeAllClients, ClientMove
<1>2. ASSUME SpuriousWakeup \/ DropStop
      PROVE  ClientMove(c)
  BY <1>2, <1>t DEF SpuriousWakeup, DropStop, ClientMove
<1>3. ASSUME NEW w \in Workers, WorkerStep(w)
      PROVE  ClientMove(c)
  BY <1>3, <1>t DEF WorkerStep, WorkerTop, WorkerLock, WorkerPop, WorkerSeesEmpty,
     WorkerPark, WorkerRun, WorkerFinish, NotifyAll, WakeAllClients, ClientMove
<1>4. ASSUME NEW d \in Clients, ClientStep(d)
      PROVE  ClientMove(c)
  <2>1. CASE TryExecute(d)
    BY <2>1, <1>t DEF TryExecute, ClientMove
  <2>2. CASE NotifyOne(d)
    BY <2>2, <1>t DEF NotifyOne, ClientMove
  <2>3. CASE WaitIdle(d)
    <3>1. PoolIdle => accepted' = finished'
      <4>1. owner = "live" /\ accepted' = accepted /\ finished' = finished
        BY <2>3 DEF WaitIdle, PoolInv, JobsInv
      <4>2. QED
        BY <4>1, IdleMeansFinished
    <3>2. QED
      BY <2>3, <3>1, <1>t DEF WaitIdle, ClientMove
  <2>4. QED
    BY <1>4, <2>1, <2>2, <2>3 DEF ClientStep
<1>5. QED
  BY <1>1, <1>2, <1>3, <1>4 DEF Internal

-----------------------------------------------------------------------------
\* A caller's own call keeps what is known of every caller, since it leaves
\* the pool's history and the calls of the others alone.
LEMMA CallerFrame ==
  ASSUME NEW d \in Clients, CallerInv(d),
         cpc'[d] = cpc[d], carg'[d] = carg[d], ret'[d] = ret[d],
         epc'[d] = epc[d], todo'[d] = todo[d], taken'[d] = taken[d],
         outcome'[d] = outcome[d], accepted' = accepted, finished' = finished
  PROVE  CallerInv(d)'
  BY DEF CallerInv

\* A step of the pool keeps what is known of every caller.
LEMMA PoolStepKeepsCallers ==
  ASSUME WaveIInv, Internal, UNCHANGED waveVars, NEW c \in Clients
  PROVE  CallerInv(c)'
<1>1. ClientMove(c) /\ accepted \subseteq accepted' /\ finished \subseteq finished'
  BY PoolMovesClients, HistoryGrows DEF WaveIInv
<1>2. /\ epc'[c] = epc[c] /\ todo'[c] = todo[c] /\ taken'[c] = taken[c]
      /\ outcome'[c] = outcome[c]
  BY DEF waveVars
<1>3. CallerInv(c) /\ epc[c] \in EnginePCs
  BY DEF WaveIInv, WaveTypeOK
<1>4. (taken[c] \subseteq accepted)' /\ (outcome[c] = "true" => taken[c] \subseteq finished)'
      /\ (epc[c] # "out" => outcome[c] = "none")'
  BY <1>1, <1>2, <1>3 DEF CallerInv
<1>5. (epc[c] \in {"out", "submit"} => cpc[c] = "idle")'
  BY <1>1, <1>2, <1>3 DEF CallerInv, ClientMove
<1>6. (epc[c] = "submitting" =>
       /\ todo[c] # <<>>
       /\ cpc[c] \in {"exec", "notify", "idle"}
       /\ cpc[c] = "exec" => carg[c] = Head(todo[c])
       /\ cpc[c] = "notify" => Head(todo[c]) \in accepted
       /\ cpc[c] = "idle" /\ ret[c] = "ok" => Head(todo[c]) \in accepted)'
  BY <1>1, <1>2, <1>3 DEF CallerInv, ClientMove
<1>7. (epc[c] = "await" =>
       /\ cpc[c] \in {"check", "wait", "idle"}
       /\ cpc[c] = "idle" /\ ret[c] = "was_idle" => taken[c] \subseteq finished)'
  BY <1>1, <1>2, <1>3 DEF CallerInv, ClientMove
<1>8. QED
  BY <1>4, <1>5, <1>6, <1>7 DEF CallerInv

\* The executor's variables keep their types.
LEMMA WaveTypeStep ==
  ASSUME WaveIInv, [WaveNext]_allVars
  PROVE  WaveTypeOK'
<1>t. WaveTypeOK /\ \A c \in Clients : CallerInv(c)
  BY DEF WaveIInv
<1> USE <1>t DEF WaveTypeOK, EnginePCs
<1>1. ASSUME NEW c \in Clients, NEW js \in scenario.waves, TryRun(c, js)
      PROVE  WaveTypeOK'
  <2>1. js \in Seq(Jobs)
    BY <1>1, WaveAssumption
  <2>2. QED
    BY <1>1, <2>1 DEF TryRun
<1>2. ASSUME NEW c \in Clients, Submit(c)
      PROVE  WaveTypeOK'
  BY <1>2 DEF Submit
<1>3. ASSUME NEW c \in Clients, Submitted(c)
      PROVE  WaveTypeOK'
  <2>1. todo[c] \in Seq(Jobs) /\ todo[c] # <<>>
    BY <1>3 DEF Submitted, CallerInv
  <2>2. Head(todo[c]) \in Jobs /\ Tail(todo[c]) \in Seq(Jobs)
    BY <2>1
  <2>3. CASE ret[c] = "ok"
    <3>1. /\ epc' = [epc EXCEPT ![c] = "submit"]
          /\ todo' = [todo EXCEPT ![c] = Tail(todo[c])]
          /\ taken' = [taken EXCEPT ![c] = taken[c] \cup {Head(todo[c])}]
          /\ UNCHANGED <<scenario, outcome>>
      BY <1>3, <2>3 DEF Submitted
    <3>2. todo' \in [Clients -> Seq(Jobs)]
      BY <2>2, <3>1
    <3>3. taken' \in [Clients -> SUBSET Jobs]
      BY <2>2, <3>1
    <3>4. epc' \in [Clients -> EnginePCs]
      BY <3>1
    <3>5. QED
      BY <3>1, <3>2, <3>3, <3>4
  <2>4. CASE ret[c] # "ok"
    <3>1. /\ epc' = [epc EXCEPT ![c] = "out"]
          /\ todo' = [todo EXCEPT ![c] = <<>>]
          /\ outcome' = [outcome EXCEPT ![c] = "error"]
          /\ UNCHANGED <<scenario, taken>>
      BY <1>3, <2>4 DEF Submitted
    <3>2. todo' \in [Clients -> Seq(Jobs)]
      BY <3>1
    <3>3. epc' \in [Clients -> EnginePCs] /\ outcome' \in [Clients -> {"none", "error", "true", "false"}]
      BY <3>1
    <3>4. QED
      BY <3>1, <3>2, <3>3
  <2>5. QED
    BY <2>3, <2>4
<1>4. ASSUME NEW c \in Clients, Await(c) \/ RunReturns(c)
      PROVE  WaveTypeOK'
  BY <1>4 DEF Await, RunReturns
<1>5. ASSUME UNCHANGED waveVars
      PROVE  WaveTypeOK'
  BY <1>5 DEF waveVars
<1>6. QED
  BY <1>1, <1>2, <1>3, <1>4, <1>5 DEF WaveNext, CallerStep, PoolStep, DropExecutor, allVars

\* A step of a caller keeps what is known of every caller.
LEMMA CallerStepKeepsCallers ==
  ASSUME WaveIInv, NEW c \in Clients,
         CallerStep(c) \/ (\E js \in scenario.waves : TryRun(c, js)),
         NEW d \in Clients
  PROVE  CallerInv(d)'
<1>t. /\ cpc \in [Clients -> ClientPCs] /\ carg \in [Clients -> Jobs \cup {NoJob}]
      /\ ret \in [Clients -> Returns] /\ epc \in [Clients -> EnginePCs]
      /\ todo \in [Clients -> Seq(Jobs)] /\ taken \in [Clients -> SUBSET Jobs]
      /\ outcome \in [Clients -> {"none", "error", "true", "false"}]
      /\ CallerInv(c) /\ CallerInv(d)
  BY DEF WaveIInv, WaveTypeOK, PoolInv, TypeOK
<1>1. CASE d # c
  <2>1. /\ cpc'[d] = cpc[d] /\ carg'[d] = carg[d] /\ ret'[d] = ret[d]
        /\ epc'[d] = epc[d] /\ todo'[d] = todo[d] /\ taken'[d] = taken[d]
        /\ outcome'[d] = outcome[d] /\ accepted' = accepted /\ finished' = finished
    BY <1>t, <1>1 DEF CallerStep, TryRun, Submit, Submitted, Await, RunReturns, CallExecute,
       CallWaitIdle, vars
  <2>2. QED
    BY <2>1, <1>t, CallerFrame
<1>2. CASE d = c
  <2>1. ASSUME NEW js \in scenario.waves, TryRun(c, js)
        PROVE  CallerInv(c)'
    BY <2>1, <1>t DEF TryRun, CallerInv, vars
  <2>2. ASSUME Submit(c)
        PROVE  CallerInv(c)'
    BY <2>2, <1>t DEF Submit, CallExecute, CallerInv
  <2>3. ASSUME Submitted(c)
        PROVE  CallerInv(c)'
    <3>1. UNCHANGED vars
      BY <2>3 DEF Submitted
    <3>2. CASE ret[c] = "ok"
      BY <2>3, <3>1, <3>2, <1>t DEF Submitted, CallerInv, vars
    <3>3. CASE ret[c] # "ok"
      BY <2>3, <3>1, <3>3, <1>t DEF Submitted, CallerInv, vars
    <3>4. QED
      BY <3>2, <3>3
  <2>4. ASSUME Await(c)
        PROVE  CallerInv(c)'
    BY <2>4, <1>t DEF Await, CallWaitIdle, CallerInv
  <2>5. ASSUME RunReturns(c)
        PROVE  CallerInv(c)'
    BY <2>5, <1>t DEF RunReturns, CallerInv, vars
  <2>6. QED
    BY <1>2, <2>1, <2>2, <2>3, <2>4, <2>5 DEF CallerStep
<1>3. QED
  BY <1>1, <1>2

\* Every step of the executor is a step of the pool, or leaves it alone.
LEMMA WaveStepIsPoolStep ==
  ASSUME WaveIInv, [WaveNext]_allVars
  PROVE  [Next]_vars
<1>1. ASSUME Internal
      PROVE  Next
  BY <1>1 DEF Internal, Next
<1>2. ASSUME NEW c \in Clients, CallerStep(c)
      PROVE  [Next]_vars
  <2>1. CASE Submit(c)
    <3>1. Head(todo[c]) \in Jobs
      <4>1. todo[c] \in Seq(Jobs) /\ todo[c] # <<>>
        BY <2>1 DEF Submit, WaveIInv, WaveTypeOK
      <4>2. QED
        BY <4>1
    <3>2. QED
      BY <2>1, <3>1 DEF Submit, Next, ClientCall
  <2>2. CASE Await(c)
    BY <2>2 DEF Await, Next, ClientCall
  <2>3. CASE Submitted(c) \/ RunReturns(c)
    BY <2>3 DEF Submitted, RunReturns
  <2>4. QED
    BY <1>2, <2>1, <2>2, <2>3 DEF CallerStep
<1>3. ASSUME NEW c \in Clients, NEW js \in scenario.waves, TryRun(c, js)
      PROVE  UNCHANGED vars
  BY <1>3 DEF TryRun
<1>4. PoolStep \/ DropExecutor => Internal
  BY DEF PoolStep, DropExecutor, Internal
<1>5. QED
  BY <1>1, <1>2, <1>3, <1>4 DEF WaveNext, allVars

\* The inductive invariant of the executor and its pool.
LEMMA WaveIInvInductive ==
  /\ WaveInit => WaveIInv
  /\ WaveIInv /\ [WaveNext]_allVars => WaveIInv'
<1>1. ASSUME WaveInit
      PROVE  WaveIInv
  <2>1. PoolInv
    BY <1>1, PoolInvInductive DEF WaveInit
  <2>2. WaveTypeOK
    BY <1>1 DEF WaveInit, WaveTypeOK, EnginePCs
  <2>3. \A c \in Clients : CallerInv(c)
    BY <1>1 DEF WaveInit, Init, CallerInv
  <2>4. QED
    BY <2>1, <2>2, <2>3 DEF WaveIInv
<1>2. ASSUME WaveIInv, [WaveNext]_allVars
      PROVE  WaveIInv'
  <2>1. PoolInv'
    BY <1>2, WaveStepIsPoolStep, PoolInvInductive DEF WaveIInv
  <2>2. WaveTypeOK'
    BY <1>2, WaveTypeStep
  <2>3. ASSUME NEW d \in Clients
        PROVE  CallerInv(d)'
    <3>1. CASE PoolStep \/ DropExecutor
      <4>1. Internal /\ UNCHANGED waveVars
        BY <3>1 DEF PoolStep, DropExecutor, Internal
      <4>2. QED
        BY <4>1, <1>2, PoolStepKeepsCallers
    <3>2. ASSUME NEW c \in Clients,
                 CallerStep(c) \/ \E js \in scenario.waves : TryRun(c, js)
          PROVE  CallerInv(d)'
      BY <1>2, <3>2, CallerStepKeepsCallers
    <3>3. CASE UNCHANGED allVars
      <4>1. CallerInv(d)
        BY <1>2 DEF WaveIInv
      <4>2. QED
        BY <3>3, <4>1, CallerFrame DEF allVars, vars, waveVars
    <3>4. QED
      BY <1>2, <3>1, <3>2, <3>3 DEF WaveNext
  <2>4. QED
    BY <2>1, <2>2, <2>3 DEF WaveIInv
<1>3. QED
  BY <1>1, <1>2

-----------------------------------------------------------------------------
\* Everything the executor does to its pool is something a client may do: the
\* composition implements the pool's own specification, so that every property
\* of the pool holds of a pool driven by try_run.
THEOREM WaveUsesPool == WaveSpec => Spec
<1>1. WaveInit => Init
  BY DEF WaveInit
<1>2. WaveIInv /\ [WaveNext]_allVars => [Next]_vars
  BY WaveStepIsPoolStep
<1>3. QED
  BY <1>1, <1>2, WaveIInvInductive, PTL DEF WaveSpec, Spec

\* The pool under the executor keeps its accounts: each job in one place,
\* `pending` equal to what is queued or running.
THEOREM PoolInvUnderWaves == WaveSpec => []PoolInv
  BY WaveUsesPool, PoolInvariant, PTL

\* try_run answers Ok(true) only for a wave all of whose jobs have returned,
\* whoever else uses the pool and whatever earlier waves left in it.
THEOREM TrueIsSound == WaveSpec => []TrueMeansWaveDone
<1>1. WaveIInv => TrueMeansWaveDone
  BY DEF WaveIInv, CallerInv, TrueMeansWaveDone
<1>2. QED
  BY <1>1, WaveIInvInductive, PTL DEF WaveSpec
=============================================================================
