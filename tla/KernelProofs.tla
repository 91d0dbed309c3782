---------------------------- MODULE KernelProofs ----------------------------
(***************************************************************************)
(* The kernel for every set of subsystems, every sequence of calls and     *)
(* every interleaving of what callbacks do: the callbacks' order, the bus  *)
(* and the deferred commands.                                              *)
(***************************************************************************)
EXTENDS Kernel, ScheduleProofs, Integers

\* The registry holds subsystems of the scenario, no name twice.
RegistryInv ==
  /\ scenario \in Scenarios
  /\ registry \in Seq(scenario.subsystems)
  /\ \A i, k \in 1 .. Len(registry) : registry[i].name = registry[k].name => i = k

\* What i declared to need is registered as j.
Declared(i, j) ==
  /\ i \in 1 .. Len(registry) /\ j \in 1 .. Len(registry)
  /\ \E k \in 1 .. Len(registry[i].needs) : registry[j].name = registry[i].needs[k]

\* The planner's graph is the declared one, whatever was registered since.
DepsMatch ==
  /\ Len(deps) <= Len(registry)
  /\ \A i \in Nodes :
       /\ Len(deps[i]) = Len(registry[i].needs)
       /\ \A k \in 1 .. Len(deps[i]) :
            deps[i][k] \in 1 .. Len(registry) /\ registry[deps[i][k]].name = registry[i].needs[k]

GraphInv == SortIInv /\ LevelIInv /\ RegistryInv /\ DepsMatch

\* From the adoption of a plan to the end of shutdown.
Session == initialized \/ kpc \in {"callback", "between", "frame_end", "crashed"}

\* How much of the order is up.
UpCount ==
  IF kpc \in {"callback", "crashed"} /\ stage = "init" THEN at - 1
  ELSE IF kpc \in {"callback", "crashed"} /\ stage = "shutdown" THEN at
  ELSE Len(exec)

FlowInv ==
  /\ kpc \in {"idle", "plan", "callback", "between", "frame_end", "crashed"}
  /\ stage \in {"init", "tick", "shutdown"}
  /\ initialized \in BOOLEAN
  /\ kpc = "plan" => ~initialized
  /\ kpc \in {"between", "frame_end"} => initialized
  /\ kpc = "callback" => (initialized <=> stage # "init")
  /\ kpc \in {"callback", "crashed"} => at \in 1 .. Len(exec)
  /\ exec = IF Session THEN order ELSE <<>>
  /\ Session => phase = "planned"
  /\ up = {exec[p] : p \in 1 .. UpCount}

Messages == [from : Nat, to : Nat, seq : Nat]

\* What is known of inbox i, holding q, when top messages have been built.
InboxOK(i, q, top) ==
  /\ Len(q) <= InboxCapacity
  /\ \A k \in 1 .. Len(q) : q[k].to = i /\ q[k].seq < top
  /\ \A k, l \in 1 .. Len(q) : k < l => q[k].seq < q[l].seq

SentOK(i, q) == scenario.debug => \A k \in 1 .. Len(q) : q[k].from = i \/ Declared(i, q[k].from)

InboxesInv ==
  /\ inboxes \in Seq(Seq(Messages))
  /\ \A i \in 1 .. Len(inboxes) : InboxOK(i, inboxes[i], nextSeq) /\ SentOK(i, inboxes[i])

BusInv ==
  /\ nextSeq \in Nat /\ undeclared \in Nat
  /\ outbox = <<>>
  /\ InboxesInv
  /\ Session => Len(deps) <= Len(inboxes)
  /\ \A e \in edges : Declared(e[1], e[2])
  /\ (scenario.debug /\ undeclared > 0) => kpc = "crashed"

\* The first init makes one inbox per subsystem; before it there is none.
FirstInboxes ==
  /\ inits \in Nat
  /\ inits = 0 => Len(inboxes) = 0 /\ ~Session
  /\ inits = 1 /\ Session => Len(inboxes) = Len(deps)

\* A handle is one of the slot's allocation it was issued for.
Issues == [handle : Handles, incarnation : Nat]
Tables == [generations : Seq(0 .. Generations - 1), free : Seq(Slots), live : Int]

\* A slot's generation tells how often it was allocated.
Counts(G, inc) == \A s \in Slots : inc[s] = IF s <= Len(G) THEN G[s] + 1 ELSE 0

\* Only a slot that was allocated is free.
FreeBelow(F, n) == \A i \in 1 .. Len(F) : F[i] <= n

\* The table agrees with the number of times each slot was allocated.
TableMatches(t, inc) ==
  /\ t \in Tables /\ inc \in [Slots -> Nat]
  /\ Len(t.generations) <= MaxSlots
  /\ FreeBelow(t.free, Len(t.generations))
  /\ Counts(t.generations, inc)

IssuedMatches(is) ==
  is \subseteq Issues /\ \A x \in is : x.incarnation = x.handle.generation + 1

Commands(is) == {[kind |-> "spawn"]} \cup [kind : {"despawn"}, target : is]

StructureInv ==
  /\ TableMatches(table, incarnation)
  /\ IssuedMatches(issued)
  /\ deferred \in Seq(Commands(issued))
  /\ Len(deferred) <= DeferredCapacity

KernelIInv == GraphInv /\ FlowInv /\ BusInv /\ FirstInboxes /\ StructureInv

planned == <<deps, access, phase, color, stack, cursor, order, report, level, levelled>>

-----------------------------------------------------------------------------
(* The registry and the planner.                                           *)

\* The planner's invariant is about its own variables, the waves not included.
LEMMA PlanFrame ==
  ASSUME SortIInv, LevelIInv, UNCHANGED planned
  PROVE  SortIInv' /\ LevelIInv'
<1> USE DEF planned
<1>1. DepsOK' /\ Nodes' = Nodes
  BY DEF SortIInv, DepsOK, Nodes
<1>2. ScheduleTypeOK' /\ DoneMeansAll'
  BY <1>1 DEF SortIInv, ScheduleTypeOK, DoneMeansAll, Sorted
<1>3. ColorInv' /\ PathInv' /\ CursorInv'
  BY <1>1 DEF SortIInv, ColorInv, OnStack, InOrder, PathInv, CursorInv
<1>4. DoneInv'
  BY <1>1 DEF SortIInv, DoneInv
<1>5. OrderInv'
  BY DEF SortIInv, OrderInv
<1>6. CycleIsReal'
  BY DEF SortIInv, CycleIsReal, Edge
<1>7. LevelsSafe' /\ LevelsTight'
  BY DEF LevelIInv, LevelsSafe, LevelsTight, Tied, Edge
<1>8. LevelIInv'
  BY <1>1, <1>7 DEF LevelIInv
<1>9. QED
  BY <1>1, <1>2, <1>3, <1>4, <1>5, <1>6, <1>8 DEF SortIInv

\* A fresh plan of any graph satisfies it.
LEMMA PlanFresh == StartSort(deps, access) /\ DepsOK => SortIInv /\ LevelIInv
  BY PlanStarts DEF DepsOK, Nodes

\* The graph is left alone by a step that leaves the plan and the registry.
LEMMA GraphFrame ==
  ASSUME GraphInv, UNCHANGED planned, UNCHANGED <<registry, scenario>>
  PROVE  GraphInv'
<1>1. SortIInv' /\ LevelIInv'
  BY PlanFrame DEF GraphInv
<1>2. RegistryInv'
  BY DEF GraphInv, RegistryInv
<1>3. DepsMatch'
  BY DEF GraphInv, DepsMatch, planned, Nodes
<1>4. QED
  BY <1>1, <1>2, <1>3 DEF GraphInv

\* A registration puts a new name at the end; every index stays what it was.
LEMMA GraphRegister ==
  ASSUME GraphInv, NEW s \in scenario.subsystems, Register(s)
  PROVE  GraphInv'
<1>1. UNCHANGED planned /\ UNCHANGED scenario /\ registry' = Append(registry, s)
  BY DEF Register, schedVars, sortVars, planned, flowVars
<1>2. SortIInv' /\ LevelIInv'
  BY <1>1, PlanFrame DEF GraphInv
<1>3. /\ registry \in Seq(scenario.subsystems) /\ Len(registry) \in Nat
      /\ registry' \in Seq(scenario.subsystems)
      /\ Len(registry') = Len(registry) + 1
      /\ registry'[Len(registry) + 1] = s
      /\ \A i \in 1 .. Len(registry) : registry'[i] = registry[i]
  BY <1>1 DEF GraphInv, RegistryInv
<1>4. \A i \in 1 .. Len(registry) : registry[i].name # s.name
  BY DEF Register, Known
<1>5. RegistryInv'
  BY <1>1, <1>3, <1>4 DEF GraphInv, RegistryInv
<1>6. DepsMatch'
  <2>1. Nodes' = Nodes /\ deps' = deps /\ Len(deps) \in Nat
    BY <1>1 DEF planned, Nodes, GraphInv, SortIInv, DepsOK
  <2>2. Nodes \subseteq 1 .. Len(registry)
    BY <1>3, <2>1 DEF Nodes, GraphInv, DepsMatch
  <2>3. Len(deps') <= Len(registry')
    BY <1>3, <2>1 DEF GraphInv, DepsMatch
  <2>4. \A i \in Nodes :
          /\ Len(deps[i]) = Len(registry'[i].needs)
          /\ \A k \in 1 .. Len(deps[i]) :
               /\ deps[i][k] \in 1 .. Len(registry')
               /\ registry'[deps[i][k]].name = registry'[i].needs[k]
    <3>1. SUFFICES ASSUME NEW i \in Nodes
                   PROVE  /\ Len(deps[i]) = Len(registry'[i].needs)
                          /\ \A k \in 1 .. Len(deps[i]) :
                               /\ deps[i][k] \in 1 .. Len(registry')
                               /\ registry'[deps[i][k]].name = registry'[i].needs[k]
      OBVIOUS
    <3>2. /\ Len(deps[i]) = Len(registry[i].needs)
          /\ \A k \in 1 .. Len(deps[i]) :
               deps[i][k] \in 1 .. Len(registry) /\ registry[deps[i][k]].name = registry[i].needs[k]
      BY DEF GraphInv, DepsMatch
    <3>3. registry'[i] = registry[i] /\ 1 .. Len(registry) \subseteq 1 .. Len(registry')
      BY <1>3, <2>2
    <3>4. \A k \in 1 .. Len(deps[i]) : registry'[deps[i][k]] = registry[deps[i][k]]
      BY <1>3, <3>2
    <3>5. QED
      BY <3>2, <3>3, <3>4
  <2>5. QED
    BY <2>1, <2>3, <2>4 DEF DepsMatch
<1>7. QED
  BY <1>2, <1>5, <1>6 DEF GraphInv

\* A name that is registered has one index.
LEMMA IndexFacts ==
  ASSUME RegistryInv, NEW name, Known(name)
  PROVE  /\ IndexOf(name) \in 1 .. Len(registry)
         /\ registry[IndexOf(name)].name = name
         /\ \A i \in 1 .. Len(registry) : registry[i].name = name => i = IndexOf(name)
  BY DEF Known, IndexOf, RegistryInv

\* resolve_dependencies gives the planner the declared graph.
LEMMA GraphInit ==
  ASSUME GraphInv, InitCall
  PROVE  GraphInv'
<1> DEFINE n == Len(registry)
<1>1. /\ n \in Nat /\ registry' = registry /\ scenario' = scenario
      /\ \A i \in 1 .. n : Len(registry[i].needs) \in Nat
  BY KernelAssumption DEF InitCall, GraphInv, RegistryInv
<1>2. \A i \in 1 .. n : \A k \in 1 .. Len(registry[i].needs) : Known(registry[i].needs[k])
  BY DEF InitCall
<1>3. deps' = [i \in 1 .. n |->
                [k \in 1 .. Len(registry[i].needs) |-> IndexOf(registry[i].needs[k])]]
  BY DEF InitCall
<1>4. \A i \in 1 .. n : \A k \in 1 .. Len(registry[i].needs) :
        /\ IndexOf(registry[i].needs[k]) \in 1 .. n
        /\ registry[IndexOf(registry[i].needs[k])].name = registry[i].needs[k]
  BY <1>2, IndexFacts DEF GraphInv
<1>5. \A i \in 1 .. n : /\ deps'[i] \in Seq(1 .. n)
                        /\ Len(deps'[i]) = Len(registry[i].needs)
                        /\ \A k \in 1 .. Len(registry[i].needs) :
                             deps'[i][k] = IndexOf(registry[i].needs[k])
  BY <1>1, <1>3, <1>4
<1>6. /\ Len(deps') = n /\ deps' \in [1 .. n -> Seq(1 .. n)]
  BY <1>1, <1>3, <1>5
<1>7. StartSort(deps, access)' /\ DepsOK'
  BY <1>1, <1>6 DEF StartSort, InitCall, DepsOK, Nodes
<1>8. SortIInv' /\ LevelIInv'
  <2>1. (StartSort(deps, access) /\ DepsOK => SortIInv /\ LevelIInv)'
    BY PlanFresh, PTL
  <2>2. QED
    BY <1>7, <2>1
<1>9. RegistryInv'
  BY <1>1 DEF GraphInv, RegistryInv
<1>10. DepsMatch'
  BY <1>1, <1>4, <1>5, <1>6 DEF DepsMatch, Nodes
<1>11. QED
  BY <1>8, <1>9, <1>10 DEF GraphInv

\* Planning does not change the graph.
LEMMA GraphPlan ==
  ASSUME GraphInv, Plan
  PROVE  GraphInv'
<1>1. PlanStep /\ UNCHANGED <<registry, scenario>>
  BY DEF Plan, flowVars
<1>2. deps' = deps
  BY <1>1 DEF PlanStep, VisitStart, VisitWhite, VisitBlack, VisitGray, VisitDone, SortDone,
              AssignLevel, BuildWaves, PushNode, PlanDone
<1>3. SortIInv' /\ LevelIInv'
  BY <1>1, PlanInductive DEF GraphInv
<1>4. RegistryInv' /\ DepsMatch'
  BY <1>1, <1>2 DEF GraphInv, RegistryInv, DepsMatch, Nodes
<1>5. QED
  BY <1>3, <1>4 DEF GraphInv

\* Every step keeps the registry and the plan in step.
LEMMA GraphStep ==
  ASSUME GraphInv, [Next]_vars
  PROVE  GraphInv'
<1>1. ASSUME UNCHANGED planned, UNCHANGED <<registry, scenario>>
      PROVE  GraphInv'
  BY <1>1, GraphFrame
<1>2. CASE Plan
  BY <1>2, GraphPlan
<1>3. ASSUME NEW s \in scenario.subsystems, Register(s)
      PROVE  GraphInv'
  BY <1>3, GraphRegister
<1>4. CASE InitCall
  BY <1>4, GraphInit
<1> USE <1>1 DEF planned, schedVars, sortVars, flowVars
<1>5. CASE PlanFailed \/ PlanAdopted
  BY <1>5 DEF PlanFailed, PlanAdopted
<1>6. CASE InitReturns \/ TickReturns \/ ShutdownReturns
  BY <1>6 DEF InitReturns, TickReturns, ShutdownReturns
<1>7. CASE BeginFrame \/ EndFrame \/ RunReturns
  BY <1>7 DEF BeginFrame, EndFrame, RunReturns
<1>8. CASE ContextCall
  BY <1>8 DEF ContextCall, Publish, PublishPanics, Receive, Defer, DespawnNow, SpawnNow
<1>9. CASE ShutdownCall \/ \E n \in 0 .. scenario.frames : RunCall(n)
  BY <1>9 DEF ShutdownCall, RunCall
<1>10. CASE UNCHANGED vars
  BY <1>10 DEF vars
<1>11. QED
  BY <1>2, <1>3, <1>4, <1>5, <1>6, <1>7, <1>8, <1>9, <1>10 DEF Next, KernelStep

-----------------------------------------------------------------------------
(* The life cycle.                                                         *)

\* A step that leaves these alone leaves the life cycle alone.
LEMMA FlowFrame ==
  ASSUME FlowInv, UNCHANGED <<kpc, stage, initialized, at, exec, order, phase, up>>
  PROVE  FlowInv'
  BY DEF FlowInv, Session, UpCount

\* The size of an interval.
LEMMA IntervalSize == \A n \in Nat : IsFiniteSet(1 .. n) /\ Cardinality(1 .. n) = n
<1>1. SUFFICES ASSUME NEW n \in Nat
               PROVE  IsFiniteSet(1 .. n) /\ Cardinality(1 .. n) = n
  OBVIOUS
<1>2. /\ IsFiniteSet(1 .. n)
      /\ Cardinality(1 .. n) = IF 1 > n THEN 0 ELSE n - 1 + 1
  BY FS_Interval
<1>3. QED
  BY <1>2

\* The sorted order is never longer than the registry the planner saw.
LEMMA OrderFits ==
  ASSUME SortIInv
  PROVE  Len(order) \in Nat /\ Len(order) <= Len(deps)
<1>1. /\ order \in Seq(Nodes) /\ Len(order) \in Nat /\ Len(deps) \in Nat
      /\ \A i, k \in 1 .. Len(order) : order[i] = order[k] => i = k
  BY DEF SortIInv, ScheduleTypeOK, DepsOK, ColorInv
<1>2. order \in Injection(1 .. Len(order), Nodes)
  BY <1>1 DEF Injection, IsInjective
<1>3. Cardinality(1 .. Len(order)) <= Cardinality(Nodes)
  BY <1>1, <1>2, IntervalSize, FS_Injection DEF Nodes
<1>4. QED
  BY <1>1, <1>3, IntervalSize DEF Nodes

\* A finished plan runs every subsystem.
LEMMA OrderFull ==
  ASSUME SortIInv, phase = "planned"
  PROVE  Len(order) = Len(deps)
<1>1. /\ order \in Seq(Nodes) /\ Len(order) \in Nat /\ Len(deps) \in Nat
      /\ Len(order) <= Len(deps)
  BY OrderFits DEF SortIInv, ScheduleTypeOK, DepsOK
<1>2. ASSUME NEW n \in Nodes PROVE \E i \in 1 .. Len(order) : order[i] = n
  <2>1. stack = <<>> /\ color[n] # "WHITE" /\ color[n] \in {"WHITE", "GRAY", "BLACK"}
    BY DEF SortIInv, DoneMeansAll, Sorted, ScheduleTypeOK
  <2>2. ~OnStack(n)
    BY <2>1 DEF OnStack
  <2>3. InOrder(n)
    BY <2>1, <2>2 DEF SortIInv, ColorInv
  <2>4. QED
    BY <2>3 DEF InOrder
<1>3. order \in Surjection(1 .. Len(order), Nodes)
  BY <1>1, <1>2 DEF Surjection
<1>4. Cardinality(Nodes) <= Cardinality(1 .. Len(order))
  BY <1>1, <1>3, IntervalSize, FS_Surjection
<1>5. QED
  BY <1>1, <1>4, IntervalSize DEF Nodes

\* The subsystem whose callback runs is a node of the plan.
LEMMA CurrentFacts ==
  ASSUME GraphInv, FlowInv, kpc \in {"callback", "crashed"}
  PROVE  /\ Session /\ exec = order /\ phase = "planned"
         /\ at \in 1 .. Len(order) /\ Current \in Nodes /\ Current \in Nat
<1>1. Session /\ exec = order /\ phase = "planned" /\ at \in 1 .. Len(order)
  BY DEF FlowInv, Session
<1>2. order \in Seq(Nodes)
  BY DEF GraphInv, SortIInv, ScheduleTypeOK
<1>3. Current \in Nodes
  BY <1>1, <1>2 DEF Current
<1>4. QED
  BY <1>1, <1>3 DEF Nodes, GraphInv, SortIInv, DepsOK

\* Every step keeps callbacks at a place of the order and `up` its prefix.
LEMMA FlowStep ==
  ASSUME GraphInv, FlowInv, [Next]_vars
  PROVE  FlowInv'
<1>0. exec \in Seq(Nodes) /\ Len(exec) \in Nat /\ Len(order) \in Nat
  BY DEF FlowInv, GraphInv, SortIInv, ScheduleTypeOK
<1> USE DEF schedVars, sortVars, flowVars
<1>1. CASE Plan
  <2>1. kpc = "plan" /\ UNCHANGED <<exec, initialized, kpc, stage, at, up>>
    BY <1>1 DEF Plan
  <2>2. QED
    BY <2>1 DEF FlowInv, Session, UpCount
<1>2. CASE PlanFailed
  BY <1>2 DEF PlanFailed, FlowInv, Session, UpCount
<1>3. CASE PlanAdopted
  BY <1>0, <1>3 DEF PlanAdopted, FlowInv, Session, UpCount
<1>4. CASE InitReturns
  <2>1. /\ kpc = "callback" /\ stage = "init" /\ at \in 1 .. Len(exec)
        /\ exec = order /\ phase = "planned" /\ up = {exec[p] : p \in 1 .. at - 1}
    BY <1>4 DEF InitReturns, FlowInv, Session, UpCount
  <2>2. /\ at' = at + 1 /\ initialized' = (at = Len(exec))
        /\ kpc' = IF at = Len(exec) THEN "idle" ELSE "callback"
        /\ up' = up \cup {exec[at]}
        /\ UNCHANGED <<exec, order, phase, stage>>
    BY <1>4 DEF InitReturns, Current
  <2>3. up' = {exec[p] : p \in 1 .. at}
    <3>1. 1 .. at = (1 .. at - 1) \cup {at}
      BY <2>1
    <3>2. QED
      BY <2>1, <2>2, <3>1
  <2>4. UpCount' = at /\ Session'
    <3>1. CASE at = Len(exec)
      BY <1>0, <2>1, <2>2, <3>1 DEF UpCount, Session
    <3>2. CASE at # Len(exec)
      BY <1>0, <2>1, <2>2, <3>2 DEF UpCount, Session
    <3>3. QED
      BY <3>1, <3>2
  <2>5. kpc' \in {"callback", "crashed"} => at' \in 1 .. Len(exec')
    BY <1>0, <2>1, <2>2
  <2>6. initialized' \in BOOLEAN /\ kpc' \in {"idle", "callback"}
    BY <2>2
  <2>7. QED
    BY <2>1, <2>2, <2>3, <2>4, <2>5, <2>6 DEF FlowInv
<1>5. CASE TickReturns
  BY <1>0, <1>5 DEF TickReturns, FlowInv, Session, UpCount
<1>6. CASE ShutdownReturns
  <2>1. /\ kpc = "callback" /\ stage = "shutdown" /\ at \in 1 .. Len(exec)
        /\ exec = order /\ phase = "planned" /\ up = {exec[p] : p \in 1 .. at}
    BY <1>6 DEF ShutdownReturns, FlowInv, Session, UpCount
  <2>2. /\ at' = at - 1 /\ up' = up \ {exec[at]}
        /\ UNCHANGED <<order, phase, stage>>
    BY <1>6 DEF ShutdownReturns, Current
  <2>3. up' = {exec[p] : p \in 1 .. at - 1}
    <3>1. 1 .. at = (1 .. at - 1) \cup {at} /\ at \notin 1 .. at - 1
      BY <2>1
    <3>2. \A p \in 1 .. at - 1 : exec[p] # exec[at]
      BY <1>0, <2>1, <3>1 DEF GraphInv, SortIInv, ColorInv
    <3>3. QED
      BY <2>1, <2>2, <3>1, <3>2
  <2>4. CASE at = 1
    <3>1. kpc' = "idle" /\ initialized' = FALSE /\ exec' = <<>>
      BY <1>6, <2>4 DEF ShutdownReturns
    <3>2. up' = {}
      BY <2>3, <2>4
    <3>3. ~Session' /\ UpCount' = 0 /\ up' = {exec'[p] : p \in 1 .. 0}
      BY <3>1, <3>2 DEF Session, UpCount
    <3>4. QED
      BY <2>1, <2>2, <3>1, <3>3 DEF FlowInv
  <2>5. CASE at # 1
    <3>1. UNCHANGED <<kpc, initialized, exec>>
      BY <1>6, <2>5 DEF ShutdownReturns
    <3>2. Session' /\ UpCount' = at - 1 /\ at - 1 \in 1 .. Len(exec)
      BY <1>0, <2>1, <2>2, <2>5, <3>1 DEF Session, UpCount
    <3>3. QED
      BY <2>1, <2>2, <2>3, <3>1, <3>2 DEF FlowInv
  <2>6. QED
    BY <2>4, <2>5
<1>7. CASE BeginFrame
  BY <1>0, <1>7 DEF BeginFrame, FlowInv, Session, UpCount
<1>8. CASE EndFrame \/ RunReturns
  <2>1. /\ kpc \in {"between", "frame_end"} /\ kpc' \in {"between", "idle"}
        /\ UNCHANGED <<exec, order, phase, initialized, stage, at, up>>
    BY <1>8 DEF EndFrame, RunReturns
  <2>2. Session /\ Session' /\ UpCount' = UpCount /\ initialized
    BY <2>1 DEF Session, UpCount, FlowInv
  <2>3. QED
    BY <2>1, <2>2 DEF FlowInv
<1>9. CASE ContextCall
  <2>1. ASSUME NEW to \in 1 .. MaxInbox, PublishPanics(to)
        PROVE  FlowInv'
    <3>1. /\ kpc = "callback" /\ kpc' = "crashed"
          /\ UNCHANGED <<exec, order, phase, initialized, stage, at, up>>
      BY <2>1 DEF PublishPanics
    <3>2. (Session' <=> Session) /\ UpCount' = UpCount
      BY <3>1 DEF Session, UpCount
    <3>3. QED
      BY <3>1, <3>2 DEF FlowInv
  <2>2. ASSUME NEW to \in 1 .. MaxInbox, Publish(to)
        PROVE  FlowInv'
    BY <2>2, FlowFrame DEF Publish
  <2>3. ASSUME NEW cmd, Defer(cmd)
        PROVE  FlowInv'
    BY <2>3, FlowFrame DEF Defer
  <2>4. QED
    BY <1>9, <2>1, <2>2, <2>3, FlowFrame DEF ContextCall, Receive, DespawnNow, SpawnNow
<1>10. CASE InitCall
  BY <1>0, <1>10 DEF InitCall, FlowInv, Session, UpCount
<1>11. CASE ShutdownCall
  <2>1. /\ kpc = "idle" /\ initialized /\ stage' = "shutdown" /\ at' = Len(exec)
        /\ exec = order /\ phase = "planned" /\ up = {exec[p] : p \in 1 .. Len(exec)}
        /\ UNCHANGED <<exec, order, phase, up>>
    BY <1>11 DEF ShutdownCall, FlowInv, Session, UpCount
  <2>2. CASE exec = <<>>
    <3>1. kpc' = "idle" /\ initialized' = FALSE
      BY <1>11, <2>2 DEF ShutdownCall
    <3>2. ~Session' /\ UpCount' = Len(exec')
      BY <3>1 DEF Session, UpCount
    <3>3. QED
      BY <2>1, <2>2, <3>1, <3>2 DEF FlowInv
  <2>3. CASE exec # <<>>
    <3>1. kpc' = "callback" /\ initialized' = initialized /\ Len(exec) > 0
      BY <1>0, <1>11, <2>3 DEF ShutdownCall
    <3>2. Session' /\ UpCount' = Len(exec')
      BY <2>1, <3>1 DEF Session, UpCount
    <3>3. QED
      BY <1>0, <2>1, <3>1, <3>2 DEF FlowInv
  <2>4. QED
    BY <2>2, <2>3
<1>12. CASE \E n \in 0 .. scenario.frames : RunCall(n)
  BY <1>12 DEF RunCall, FlowInv, Session, UpCount
<1>13. CASE \E s \in scenario.subsystems : Register(s)
  BY <1>13, FlowFrame DEF Register
<1>14. CASE UNCHANGED vars
  BY <1>14, FlowFrame DEF vars
<1>15. QED
  BY <1>1, <1>2, <1>3, <1>4, <1>5, <1>6, <1>7, <1>8, <1>9, <1>10, <1>11, <1>12, <1>13, <1>14
     DEF Next, KernelStep

-----------------------------------------------------------------------------
(* The bus.                                                                *)

\* A declaration stays when the registry grows.
LEMMA DeclaredStays ==
  ASSUME GraphInv, NEW s \in scenario.subsystems, Register(s), NEW i, NEW j, Declared(i, j)
  PROVE  Declared(i, j)'
<1>1. /\ registry \in Seq(scenario.subsystems) /\ Len(registry) \in Nat
      /\ registry' = Append(registry, s)
  BY DEF GraphInv, RegistryInv, Register
<1>2. /\ Len(registry') = Len(registry) + 1
      /\ \A k \in 1 .. Len(registry) : registry'[k] = registry[k]
  BY <1>1
<1>3. QED
  BY <1>1, <1>2 DEF Declared

\* The fields of a message.
LEMMA MessageFacts ==
  ASSUME NEW q \in Seq(Messages), NEW k \in 1 .. Len(q)
  PROVE  q[k] \in Messages /\ q[k].from \in Nat /\ q[k].to \in Nat /\ q[k].seq \in Nat
<1>1. q[k] \in Messages
  OBVIOUS
<1>2. QED
  BY <1>1 DEF Messages

\* A registration, a plan or a panic leaves the inboxes alone.
LEMMA InboxesFrame ==
  ASSUME InboxesInv, nextSeq \in Nat, nextSeq' \in Nat, nextSeq <= nextSeq',
         UNCHANGED <<inboxes, scenario>>,
         \A i, j : Declared(i, j) => Declared(i, j)'
  PROVE  InboxesInv'
<1>1. SUFFICES ASSUME NEW i \in 1 .. Len(inboxes)
               PROVE  InboxOK(i, inboxes'[i], nextSeq') /\ SentOK(i, inboxes[i])'
  BY DEF InboxesInv
<1>2. inboxes[i] \in Seq(Messages) /\ InboxOK(i, inboxes[i], nextSeq)
  BY DEF InboxesInv
<1> DEFINE q == inboxes[i]
<1> HIDE DEF q
<1>3. InboxOK(i, inboxes'[i], nextSeq')
  <2>1. q \in Seq(Messages) /\ InboxOK(i, q, nextSeq)
    BY <1>2 DEF q
  <2>2. \A k \in 1 .. Len(q) : q[k].seq \in Nat
    BY <2>1, MessageFacts
  <2>3. InboxOK(i, q, nextSeq')
    BY <2>1, <2>2 DEF InboxOK
  <2>4. QED
    BY <2>3 DEF q
<1>4. SentOK(i, inboxes[i])'
  BY DEF InboxesInv, SentOK
<1>5. QED
  BY <1>3, <1>4

\* A message is put at the end of an inbox that is not full.
LEMMA InboxAppend ==
  ASSUME NEW q \in Seq(Messages), NEW m \in Messages, NEW i,
         InboxOK(i, q, m.seq), m.to = i, Len(q) < InboxCapacity
  PROVE  /\ Append(q, m) \in Seq(Messages)
         /\ InboxOK(i, Append(q, m), m.seq + 1)
<1> DEFINE r == Append(q, m)
<1>1. /\ r \in Seq(Messages) /\ Len(q) \in Nat /\ Len(r) = Len(q) + 1
      /\ r[Len(q) + 1] = m
      /\ \A k \in 1 .. Len(q) : r[k] = q[k]
  OBVIOUS
<1> HIDE DEF r
<1>2. m.seq \in Nat
  BY DEF Messages
<1>3. \A k \in 1 .. Len(q) : q[k].seq \in Nat /\ q[k].to = i /\ q[k].seq < m.seq
  BY MessageFacts DEF InboxOK
<1>4. Len(r) <= InboxCapacity
  BY <1>1, KernelAssumption
<1>5. \A k \in 1 .. Len(r) : k \in 1 .. Len(q) \/ k = Len(q) + 1
  BY <1>1
<1>6. \A k \in 1 .. Len(r) : r[k].to = i /\ r[k].seq < m.seq + 1
  BY <1>1, <1>2, <1>3, <1>5
<1>7. \A k, l \in 1 .. Len(r) : k < l => r[k].seq < r[l].seq
  <2>1. SUFFICES ASSUME NEW k \in 1 .. Len(r), NEW l \in 1 .. Len(r), k < l
                 PROVE  r[k].seq < r[l].seq
    OBVIOUS
  <2>2. k \in 1 .. Len(q)
    BY <1>1, <2>1
  <2>3. CASE l \in 1 .. Len(q)
    BY <1>1, <2>1, <2>2, <2>3 DEF InboxOK
  <2>4. CASE l = Len(q) + 1
    BY <1>1, <1>3, <2>2, <2>4
  <2>5. QED
    BY <1>5, <2>3, <2>4
<1>8. QED
  BY <1>1, <1>4, <1>6, <1>7 DEF InboxOK, r

\* MessageBus::publish: the outbox is empty, so what it pops is the message.
LEMMA BusPublish ==
  ASSUME GraphInv, FlowInv, BusInv, NEW to \in 1 .. MaxInbox, Publish(to)
  PROVE  BusInv'
<1> DEFINE m == [from |-> Current, to |-> to, seq |-> nextSeq]
<1>1. /\ nextSeq \in Nat /\ undeclared \in Nat /\ outbox = <<>> /\ InboxesInv
      /\ Session => Len(deps) <= Len(inboxes)
      /\ \A e \in edges : Declared(e[1], e[2])
      /\ (scenario.debug /\ undeclared > 0) => kpc = "crashed"
  BY DEF BusInv
<1>2. kpc = "callback" /\ Session /\ Current \in Nodes /\ Current \in Nat
  BY CurrentFacts DEF Publish
<1>3. m \in Messages /\ m.to = to /\ m.seq = nextSeq /\ m.from = Current
  BY <1>1, <1>2, KernelAssumption DEF Messages
<1>4. /\ Head(Append(outbox, m)) = m /\ Tail(Append(outbox, m)) = <<>>
  BY <1>1
<1>5. /\ ~(scenario.debug /\ ~routing_ok(Current, to))
      /\ nextSeq' = nextSeq + 1
      /\ undeclared' = undeclared + IF routing_ok(Current, to) THEN 0 ELSE 1
      /\ outbox' = <<>>
      /\ inboxes' = IF Fits(inboxes, m) THEN Delivered(inboxes, m) ELSE inboxes
      /\ UNCHANGED <<schedVars, registry, edges, flowVars>>
  BY <1>4 DEF Publish, LeftIn
<1> HIDE DEF m
<1>6. /\ UNCHANGED <<deps, registry, edges, scenario, initialized, kpc>>
      /\ \A i, j : Declared(i, j) => Declared(i, j)'
      /\ Session' <=> Session
  BY <1>5 DEF schedVars, flowVars, Declared, Session
<1>7. nextSeq' \in Nat /\ undeclared' \in Nat /\ nextSeq <= nextSeq'
  BY <1>1, <1>5
<1>8. (scenario.debug /\ undeclared' > 0) => kpc = "crashed"
  BY <1>1, <1>5
<1>9. InboxesInv' /\ Len(inboxes') = Len(inboxes)
  <2>1. CASE ~Fits(inboxes, m)
    <3>1. inboxes' = inboxes
      BY <1>5, <2>1
    <3>2. QED
      BY <1>1, <1>6, <1>7, <3>1, InboxesFrame
  <2>2. CASE Fits(inboxes, m)
    <3> DEFINE q == inboxes[to]
    <3>1. /\ inboxes \in Seq(Seq(Messages)) /\ Len(inboxes) \in Nat /\ to \in 1 .. Len(inboxes)
          /\ q \in Seq(Messages) /\ Len(q) < InboxCapacity
          /\ InboxOK(to, q, nextSeq) /\ SentOK(to, q)
      BY <1>1, <1>3, <2>2, KernelAssumption DEF Fits, InboxesInv
    <3> HIDE DEF q
    <3>2. Append(q, m) \in Seq(Messages) /\ InboxOK(to, Append(q, m), nextSeq + 1)
      BY <1>3, <3>1, InboxAppend
    <3>3. inboxes' = [inboxes EXCEPT ![to] = Append(q, m)]
      BY <1>3, <1>5, <2>2 DEF Delivered, q
    <3>4. /\ inboxes' \in Seq(Seq(Messages)) /\ Len(inboxes') = Len(inboxes)
          /\ inboxes'[to] = Append(q, m)
          /\ \A i \in 1 .. Len(inboxes) : i # to => inboxes'[i] = inboxes[i]
      BY <3>1, <3>2, <3>3
    <3>5. scenario.debug => Current = to \/ Declared(to, Current)
      BY <1>1, <1>5 DEF routing_ok
    <3>6. SentOK(to, Append(q, m))
      <4>1. SUFFICES ASSUME scenario.debug, NEW k \in 1 .. Len(q) + 1
                     PROVE  \/ Append(q, m)[k].from = to
                            \/ Declared(to, Append(q, m)[k].from)
        BY <3>1 DEF SentOK
      <4>2. CASE k = Len(q) + 1
        BY <1>3, <3>1, <3>5, <4>1, <4>2
      <4>3. CASE k # Len(q) + 1
        BY <3>1, <4>1, <4>3 DEF SentOK
      <4>4. QED
        BY <4>2, <4>3
    <3>7. ASSUME NEW i \in 1 .. Len(inboxes)
          PROVE  InboxOK(i, inboxes'[i], nextSeq') /\ SentOK(i, inboxes'[i])
      <4>1. CASE i = to
        BY <1>5, <3>2, <3>4, <3>6, <4>1
      <4>2. CASE i # to
        <5> DEFINE r == inboxes[i]
        <5>1. /\ r \in Seq(Messages) /\ InboxOK(i, r, nextSeq) /\ SentOK(i, r)
              /\ inboxes'[i] = r
          BY <1>1, <3>4, <4>2 DEF InboxesInv
        <5> HIDE DEF r
        <5>2. InboxOK(i, r, nextSeq')
          BY <1>1, <1>7, <5>1, MessageFacts DEF InboxOK
        <5>3. QED
          BY <5>1, <5>2
      <4>3. QED
        BY <4>1, <4>2
    <3>8. \A i \in 1 .. Len(inboxes') : SentOK(i, inboxes[i])'
      BY <1>6, <3>4, <3>7 DEF SentOK
    <3>9. QED
      BY <3>4, <3>7, <3>8 DEF InboxesInv
  <2>3. QED
    BY <2>1, <2>2
<1>10. \A e \in edges' : Declared(e[1], e[2])'
  BY <1>1, <1>6
<1>11. QED
  BY <1>1, <1>5, <1>6, <1>7, <1>8, <1>9, <1>10 DEF BusInv

\* One turn of receive(): the oldest message leaves the inbox of its receiver.
LEMMA BusReceive ==
  ASSUME GraphInv, FlowInv, BusInv, Receive
  PROVE  BusInv'
<1> DEFINE c == Current
           q == inboxes[c]
<1>1. /\ kpc = "callback" /\ inboxes[c] # <<>>
      /\ inboxes' = [inboxes EXCEPT ![c] = Tail(inboxes[c])]
      /\ UNCHANGED <<schedVars, registry, outbox, edges, nextSeq, undeclared, flowVars>>
  BY DEF Receive
<1>2. Session /\ c \in Nodes /\ Len(deps) \in Nat
  BY <1>1, CurrentFacts DEF GraphInv, SortIInv, DepsOK
<1>3. /\ UNCHANGED <<deps, registry, edges, scenario, initialized, kpc>>
      /\ \A i, j : Declared(i, j) => Declared(i, j)'
      /\ Session' <=> Session
  BY <1>1 DEF schedVars, flowVars, Declared, Session
<1> HIDE DEF c
<1>4. /\ inboxes \in Seq(Seq(Messages)) /\ Len(inboxes) \in Nat /\ c \in 1 .. Len(inboxes)
  BY <1>2 DEF BusInv, InboxesInv, Nodes
<1>5. q \in Seq(Messages) /\ q # <<>> /\ InboxOK(c, q, nextSeq) /\ SentOK(c, q)
  BY <1>1, <1>4 DEF BusInv, InboxesInv
<1>6. inboxes' = [inboxes EXCEPT ![c] = Tail(q)]
  BY <1>1
<1> HIDE DEF q
<1>7. /\ Tail(q) \in Seq(Messages) /\ Len(q) \in Nat /\ Len(Tail(q)) = Len(q) - 1
      /\ \A k \in 1 .. Len(q) - 1 : k + 1 \in 1 .. Len(q) /\ Tail(q)[k] = q[k + 1]
  BY <1>5
<1>8. InboxOK(c, Tail(q), nextSeq)
  BY <1>5, <1>7, KernelAssumption DEF InboxOK
<1>9. SentOK(c, Tail(q))
  BY <1>5, <1>7 DEF SentOK
<1>10. /\ inboxes' \in Seq(Seq(Messages)) /\ Len(inboxes') = Len(inboxes)
       /\ inboxes'[c] = Tail(q)
       /\ \A i \in 1 .. Len(inboxes) : i # c => inboxes'[i] = inboxes[i]
  BY <1>4, <1>6, <1>7
<1>11. \A i \in 1 .. Len(inboxes) : InboxOK(i, inboxes'[i], nextSeq) /\ SentOK(i, inboxes'[i])
  BY <1>8, <1>9, <1>10 DEF BusInv, InboxesInv
<1>12. nextSeq' = nextSeq /\ undeclared' = undeclared /\ outbox' = outbox
  BY <1>1
<1>13. InboxesInv'
  <2>1. \A i \in 1 .. Len(inboxes') : SentOK(i, inboxes[i])'
    BY <1>3, <1>10, <1>11 DEF SentOK
  <2>2. QED
    BY <1>10, <1>11, <1>12, <2>1 DEF InboxesInv
<1>14. QED
  BY <1>3, <1>10, <1>12, <1>13 DEF BusInv

\* What a concatenation holds.
LEMMA ConcatFacts ==
  ASSUME NEW S, NEW a \in Seq(S), NEW b \in Seq(S)
  PROVE  /\ a \o b \in Seq(S)
         /\ Len(a \o b) = Len(a) + Len(b)
         /\ \A i \in 1 .. Len(a) : (a \o b)[i] = a[i]
         /\ \A i \in 1 .. Len(b) : (a \o b)[Len(a) + i] = b[i]
  OBVIOUS

\* PlanAdopted: an empty inbox per subsystem, behind the ones there are.
LEMMA AdoptedInboxes ==
  ASSUME GraphInv, BusInv, PlanAdopted
  PROVE  /\ inboxes' \in Seq(Seq(Messages)) /\ Len(inboxes') = Len(inboxes) + Len(deps)
         /\ \A i \in 1 .. Len(inboxes) : inboxes'[i] = inboxes[i]
         /\ \A i \in 1 .. Len(inboxes') : i \notin 1 .. Len(inboxes) => inboxes'[i] = <<>>
<1> DEFINE fresh == [i \in Nodes |-> <<>>]
<1>1. inboxes' = inboxes \o fresh
  BY DEF PlanAdopted
<1>2. /\ Len(deps) \in Nat /\ inboxes \in Seq(Seq(Messages)) /\ Len(inboxes) \in Nat
  BY DEF GraphInv, SortIInv, DepsOK, BusInv, InboxesInv
<1>3. fresh \in Seq(Seq(Messages)) /\ Len(fresh) = Len(deps)
      /\ \A i \in 1 .. Len(deps) : fresh[i] = <<>>
  BY <1>2 DEF Nodes
<1> HIDE DEF fresh
<1>4. QED
  <2>1. /\ inboxes \o fresh \in Seq(Seq(Messages))
        /\ Len(inboxes \o fresh) = Len(inboxes) + Len(fresh)
        /\ \A i \in 1 .. Len(inboxes) : (inboxes \o fresh)[i] = inboxes[i]
        /\ \A i \in 1 .. Len(fresh) : (inboxes \o fresh)[Len(inboxes) + i] = fresh[i]
    <3> DEFINE S == Seq(Messages)
    <3>1. inboxes \in Seq(S) /\ fresh \in Seq(S)
      BY <1>2, <1>3
    <3> HIDE DEF S
    <3>2. /\ inboxes \o fresh \in Seq(S)
          /\ Len(inboxes \o fresh) = Len(inboxes) + Len(fresh)
          /\ \A i \in 1 .. Len(inboxes) : (inboxes \o fresh)[i] = inboxes[i]
          /\ \A i \in 1 .. Len(fresh) : (inboxes \o fresh)[Len(inboxes) + i] = fresh[i]
      BY <3>1, ConcatFacts
    <3>3. QED
      BY <3>2 DEF S
  <2>2. ASSUME NEW i \in 1 .. Len(inboxes'), i \notin 1 .. Len(inboxes)
        PROVE  inboxes'[i] = <<>>
    <3>1. i - Len(inboxes) \in 1 .. Len(deps) /\ Len(inboxes) + (i - Len(inboxes)) = i
      BY <1>1, <1>2, <1>3, <2>1, <2>2
    <3>2. QED
      BY <1>1, <1>3, <2>1, <3>1
  <2>3. QED
    BY <1>1, <1>3, <2>1, <2>2

\* The routing matrix of a fresh plan is what was declared, and every inbox
\* that was there stays as it was.
LEMMA BusAdopt ==
  ASSUME GraphInv, FlowInv, BusInv, PlanAdopted
  PROVE  BusInv'
<1>1. /\ edges' = {e \in Nodes \X Nodes : Edge(e[1], e[2])}
      /\ kpc = "plan"
      /\ UNCHANGED <<deps, registry, scenario, outbox, nextSeq, undeclared>>
  BY DEF PlanAdopted, schedVars
<1>2. /\ Len(deps) \in Nat /\ inboxes \in Seq(Seq(Messages)) /\ Len(inboxes) \in Nat
  BY DEF GraphInv, SortIInv, DepsOK, BusInv, InboxesInv
<1>3. /\ inboxes' \in Seq(Seq(Messages)) /\ Len(inboxes') = Len(inboxes) + Len(deps)
      /\ \A i \in 1 .. Len(inboxes) : inboxes'[i] = inboxes[i]
      /\ \A i \in 1 .. Len(inboxes') : i \notin 1 .. Len(inboxes) => inboxes'[i] = <<>>
  BY AdoptedInboxes
<1>4. \A i : InboxOK(i, <<>>, nextSeq) /\ SentOK(i, <<>>)
  BY KernelAssumption DEF InboxOK, SentOK
<1>5. \A i \in 1 .. Len(inboxes') : InboxOK(i, inboxes'[i], nextSeq) /\ SentOK(i, inboxes'[i])
  BY <1>3, <1>4 DEF BusInv, InboxesInv
<1>6. \A i, j : Declared(i, j)' <=> Declared(i, j)
  BY <1>1 DEF Declared
<1>7. InboxesInv'
  <2>1. \A i \in 1 .. Len(inboxes') : SentOK(i, inboxes[i])'
    BY <1>1, <1>5, <1>6 DEF SentOK
  <2>2. QED
    BY <1>1, <1>3, <1>5, <2>1 DEF InboxesInv
<1>8. \A e \in edges' : Declared(e[1], e[2])
  <2>1. SUFFICES ASSUME NEW i \in Nodes, NEW j \in Nodes, Edge(i, j)
                 PROVE  Declared(i, j)
    BY <1>1
  <2>2. PICK k \in 1 .. Len(deps[i]) : deps[i][k] = j
    BY <2>1 DEF Edge
  <2>3. /\ k \in 1 .. Len(registry[i].needs) /\ j \in 1 .. Len(registry)
        /\ registry[j].name = registry[i].needs[k]
    BY <2>2 DEF GraphInv, DepsMatch
  <2>4. i \in 1 .. Len(registry)
    BY <1>2 DEF Nodes, GraphInv, DepsMatch, RegistryInv
  <2>5. QED
    BY <2>3, <2>4 DEF Declared
<1>9. ~(scenario.debug /\ undeclared > 0)
  BY <1>1 DEF BusInv
<1>10. Len(deps') <= Len(inboxes')
  BY <1>1, <1>2, <1>3
<1>11. \A e \in edges' : Declared(e[1], e[2])'
  BY <1>6, <1>8
<1>12. QED
  BY <1>1, <1>7, <1>9, <1>10, <1>11 DEF BusInv

\* MessageBus::flush finds nothing to do.
LEMMA FlushedNothing ==
  ASSUME outbox = <<>>
  PROVE  Flushed.ib = inboxes /\ Flushed.taken = 0
<1> DEFINE start == [ib |-> inboxes, going |-> TRUE, taken |-> 0]
           Turn(r, k) == IF ~r.going THEN r
                         ELSE IF Fits(r.ib, outbox[k])
                              THEN [ib |-> Delivered(r.ib, outbox[k]), going |-> TRUE, taken |-> k]
                              ELSE [ib |-> r.ib, going |-> FALSE, taken |-> k]
           go[k \in 0 .. Len(outbox)] == IF k = 0 THEN start ELSE Turn(go[k - 1], k)
<1>1. Flushed = go[Len(outbox)]
  BY DEF Flushed
<1> DEFINE f == [k \in 0 .. Len(outbox) |-> start]
<1>2. f = [k \in 0 .. Len(outbox) |-> IF k = 0 THEN start ELSE Turn(f[k - 1], k)]
  <2> HIDE DEF start, Turn
  <2>1. \A k \in 0 .. Len(outbox) : k = 0
    OBVIOUS
  <2>2. QED
    BY <2>1
<1>3. go = [k \in 0 .. Len(outbox) |-> IF k = 0 THEN start ELSE Turn(go[k - 1], k)]
  <2> HIDE DEF start, Turn, f
  <2>1. QED
    BY <1>2
<1>4. go[0] = start
  <2> HIDE DEF go, start, Turn
  <2>1. QED
    BY <1>3
<1>5. QED
  <2> HIDE DEF go
  <2>1. QED
    BY <1>1, <1>4

\* Every step keeps the bus in order.
LEMMA BusStep ==
  ASSUME GraphInv, FlowInv, BusInv, [Next]_vars
  PROVE  BusInv'
<1>1. ASSUME UNCHANGED <<inboxes, outbox, edges, nextSeq, undeclared, registry, scenario>>,
             kpc = "crashed" => kpc' = "crashed",
             Session' => Session /\ deps' = deps
      PROVE  BusInv'
  <2>1. \A i, j : Declared(i, j)' <=> Declared(i, j)
    BY <1>1 DEF Declared
  <2>2. InboxesInv'
    BY <1>1, <2>1, InboxesFrame DEF BusInv
  <2>3. QED
    BY <1>1, <2>1, <2>2 DEF BusInv
<1>2. CASE Plan
  <2>1. kpc = "plan" /\ ~Session
    BY <1>2 DEF Plan, FlowInv, Session
  <2>2. /\ UNCHANGED <<inboxes, outbox, edges, nextSeq, undeclared, registry, scenario>>
        /\ UNCHANGED <<kpc, initialized>>
    BY <1>2 DEF Plan, busVars, flowVars
  <2>3. ~Session'
    BY <2>1, <2>2 DEF Session
  <2>4. QED
    BY <1>1, <2>1, <2>2, <2>3
<1>3. CASE PlanFailed \/ InitCall
  <2>1. /\ ~initialized /\ initialized' = initialized
        /\ kpc \in {"plan", "idle"} /\ kpc' \in {"plan", "idle"}
        /\ UNCHANGED <<inboxes, outbox, edges, nextSeq, undeclared, registry, scenario>>
    BY <1>3 DEF PlanFailed, InitCall, busVars, FlowInv
  <2>2. ~Session'
    BY <2>1 DEF Session
  <2>3. QED
    BY <1>1, <2>1, <2>2
<1>4. CASE PlanAdopted
  BY <1>4, BusAdopt
<1>5. CASE InitReturns \/ TickReturns \/ ShutdownReturns \/ EndFrame
  <2>1. /\ kpc \in {"callback", "frame_end"} /\ deps' = deps
        /\ UNCHANGED <<inboxes, outbox, edges, nextSeq, undeclared, registry, scenario>>
    BY <1>5 DEF InitReturns, TickReturns, ShutdownReturns, EndFrame, busVars, schedVars
  <2>2. Session
    BY <2>1 DEF Session
  <2>3. QED
    BY <1>1, <2>1, <2>2
<1>6. CASE RunReturns \/ ShutdownCall \/ \E n \in 0 .. scenario.frames : RunCall(n)
  <2>1. /\ kpc \in {"between", "idle"} /\ initialized /\ deps' = deps
        /\ UNCHANGED <<inboxes, outbox, edges, nextSeq, undeclared, registry, scenario>>
    BY <1>6 DEF RunReturns, ShutdownCall, RunCall, busVars, schedVars, FlowInv
  <2>2. Session
    BY <2>1 DEF Session
  <2>3. QED
    BY <1>1, <2>1, <2>2
<1>7. CASE BeginFrame
  <2>1. Flushed.ib = inboxes /\ Flushed.taken = 0
    BY FlushedNothing DEF BusInv
  <2>2. inboxes' = inboxes /\ outbox' = SubSeq(outbox, 1, Len(outbox))
    BY <1>7, <2>1 DEF BeginFrame
  <2>3. outbox' = outbox
    BY <2>2 DEF BusInv
  <2>4. /\ kpc = "between" /\ deps' = deps
        /\ UNCHANGED <<edges, nextSeq, undeclared, registry, scenario>>
    BY <1>7 DEF BeginFrame, schedVars
  <2>5. Session
    BY <2>4 DEF Session
  <2>6. QED
    BY <1>1, <2>2, <2>3, <2>4, <2>5
<1>8. ASSUME NEW to \in 1 .. MaxInbox, Publish(to)
      PROVE  BusInv'
  BY <1>8, BusPublish
<1>9. ASSUME NEW to \in 1 .. MaxInbox, PublishPanics(to)
      PROVE  BusInv'
  <2>1. /\ kpc = "callback" /\ kpc' = "crashed" /\ nextSeq' = nextSeq + 1
        /\ undeclared' = undeclared + 1
        /\ UNCHANGED <<inboxes, outbox, edges, registry, scenario, deps>>
    BY <1>9 DEF PublishPanics, schedVars
  <2>2. /\ nextSeq \in Nat /\ nextSeq' \in Nat /\ nextSeq <= nextSeq' /\ undeclared' \in Nat
    BY <2>1 DEF BusInv
  <2>3. \A i, j : Declared(i, j)' <=> Declared(i, j)
    BY <2>1 DEF Declared
  <2>4. InboxesInv'
    BY <2>1, <2>2, <2>3, InboxesFrame DEF BusInv
  <2>5. Session
    BY <2>1 DEF Session
  <2>6. QED
    BY <2>1, <2>2, <2>3, <2>4, <2>5 DEF BusInv
<1>10. CASE Receive
  BY <1>10, BusReceive
<1>11. ASSUME NEW cmd, Defer(cmd) \/ SpawnNow \/ DespawnNow(cmd)
       PROVE  BusInv'
  <2>1. /\ UNCHANGED <<inboxes, outbox, edges, nextSeq, undeclared, registry, scenario>>
        /\ UNCHANGED <<kpc, initialized, deps>>
    BY <1>11 DEF Defer, SpawnNow, DespawnNow, busVars, flowVars, schedVars
  <2>2. QED
    BY <1>1, <2>1 DEF Session
<1>12. ASSUME NEW s \in scenario.subsystems, Register(s)
       PROVE  BusInv'
  <2>1. /\ UNCHANGED <<inboxes, outbox, edges, nextSeq, undeclared, scenario>>
        /\ UNCHANGED <<kpc, initialized, deps>>
    BY <1>12 DEF Register, busVars, flowVars, schedVars
  <2>2. \A i, j : Declared(i, j) => Declared(i, j)'
    BY <1>12, DeclaredStays
  <2>3. InboxesInv'
    BY <2>1, <2>2, InboxesFrame DEF BusInv
  <2>4. Session' <=> Session
    BY <2>1 DEF Session
  <2>5. QED
    BY <2>1, <2>2, <2>3, <2>4 DEF BusInv
<1>13. CASE UNCHANGED vars
  <2>1. /\ UNCHANGED <<inboxes, outbox, edges, nextSeq, undeclared, registry, scenario>>
        /\ UNCHANGED <<kpc, initialized, deps>>
    BY <1>13 DEF vars, busVars, flowVars, schedVars
  <2>2. QED
    BY <1>1, <2>1 DEF Session
<1>14. CASE ContextCall
  BY <1>8, <1>9, <1>10, <1>11, <1>14 DEF ContextCall
<1>15. QED
  BY <1>2, <1>3, <1>4, <1>5, <1>6, <1>7, <1>12, <1>13, <1>14 DEF Next, KernelStep

\* An inbox changes by a message published to it or by its owner's receive,
\* and only the adoption of a plan makes inboxes.
LEMMA InboxesStep ==
  ASSUME GraphInv, FlowInv, BusInv, [Next]_vars
  PROVE  /\ \A i \in 1 .. Len(inboxes') : InboxMove(i)
         /\ PlanAdopted \/ Len(inboxes') = Len(inboxes)
<1>0. /\ inboxes \in Seq(Seq(Messages)) /\ Len(inboxes) \in Nat /\ outbox = <<>>
      /\ nextSeq \in Nat /\ Len(deps) \in Nat
  BY DEF BusInv, InboxesInv, GraphInv, SortIInv, DepsOK
<1>1. ASSUME inboxes' = inboxes
      PROVE  Len(inboxes') = Len(inboxes) /\ \A i \in 1 .. Len(inboxes') : InboxMove(i)
  BY <1>0, <1>1 DEF InboxMove, Box
<1>2. CASE PlanAdopted
  BY <1>0, <1>2, AdoptedInboxes DEF InboxMove, Box
<1>3. CASE BeginFrame
  BY <1>0, <1>1, <1>3, FlushedNothing DEF BeginFrame
<1>4. ASSUME NEW to \in 1 .. MaxInbox, Publish(to)
      PROVE  Len(inboxes') = Len(inboxes) /\ \A i \in 1 .. Len(inboxes') : InboxMove(i)
  <2> DEFINE m == [from |-> Current, to |-> to, seq |-> nextSeq]
  <2>1. Head(Append(outbox, m)) = m
    BY <1>0
  <2>2. /\ kpc = "callback" /\ nextSeq' = nextSeq + 1
        /\ inboxes' = IF Fits(inboxes, m) THEN Delivered(inboxes, m) ELSE inboxes
    BY <1>4, <2>1 DEF Publish
  <2>3. m.to = to
    OBVIOUS
  <2>4. CASE ~Fits(inboxes, m)
    BY <1>1, <2>2, <2>4
  <2>5. CASE Fits(inboxes, m)
    <3> HIDE DEF m
    <3>1. to \in 1 .. Len(inboxes)
      BY <1>0, <2>3, <2>5, KernelAssumption DEF Fits
    <3>2. inboxes' = [inboxes EXCEPT ![to] = Append(inboxes[to], m)]
      BY <2>2, <2>3, <2>5 DEF Delivered
    <3>3. /\ Len(inboxes') = Len(inboxes)
          /\ inboxes'[to] = Append(inboxes[to], m)
          /\ \A i \in 1 .. Len(inboxes) : i # to => inboxes'[i] = inboxes[i]
      BY <1>0, <3>1, <3>2
    <3>4. InboxMove(to)
      BY <2>2, <3>1, <3>3 DEF InboxMove, Box, m
    <3>5. \A i \in 1 .. Len(inboxes) : i # to => InboxMove(i)
      BY <3>3 DEF InboxMove, Box
    <3>6. QED
      BY <3>3, <3>4, <3>5
  <2>6. QED
    BY <2>4, <2>5
<1>5. CASE Receive
  <2> DEFINE c == Current
  <2>1. kpc = "callback" /\ c \in Nodes /\ Session
    BY <1>5, CurrentFacts DEF Receive
  <2>2. inboxes' = [inboxes EXCEPT ![c] = Tail(inboxes[c])] /\ inboxes[c] # <<>>
    BY <1>5 DEF Receive
  <2> HIDE DEF c
  <2>3. c \in 1 .. Len(inboxes)
    BY <1>0, <2>1 DEF BusInv, Nodes
  <2>4. /\ Len(inboxes') = Len(inboxes) /\ inboxes'[c] = Tail(inboxes[c])
        /\ \A i \in 1 .. Len(inboxes) : i # c => inboxes'[i] = inboxes[i]
    BY <1>0, <2>2, <2>3
  <2>5. InboxMove(c)
    BY <2>1, <2>2, <2>3, <2>4 DEF InboxMove, Box, c
  <2>6. \A i \in 1 .. Len(inboxes) : i # c => InboxMove(i)
    BY <2>4 DEF InboxMove, Box
  <2>7. QED
    BY <2>4, <2>5, <2>6
<1>6. CASE Plan \/ PlanFailed \/ InitCall \/ InitReturns \/ TickReturns \/ ShutdownReturns
           \/ EndFrame \/ RunReturns \/ ShutdownCall \/ SpawnNow \/ UNCHANGED vars
  BY <1>1, <1>6 DEF Plan, PlanFailed, InitCall, InitReturns, TickReturns, ShutdownReturns,
                    EndFrame, RunReturns, ShutdownCall, SpawnNow, vars, busVars
<1>7. ASSUME NEW x, Register(x) \/ RunCall(x) \/ Defer(x) \/ DespawnNow(x) \/ PublishPanics(x)
      PROVE  Len(inboxes') = Len(inboxes) /\ \A i \in 1 .. Len(inboxes') : InboxMove(i)
  BY <1>1, <1>7 DEF Register, RunCall, Defer, DespawnNow, PublishPanics, busVars
<1>8. CASE ContextCall
  BY <1>4, <1>5, <1>6, <1>7, <1>8 DEF ContextCall
<1>9. QED
  BY <1>2, <1>3, <1>6, <1>7, <1>8 DEF Next, KernelStep

\* Every step keeps count of the inboxes of the first session.
LEMMA FirstStep ==
  ASSUME GraphInv, FlowInv, BusInv, FirstInboxes, [Next]_vars
  PROVE  FirstInboxes'
<1>1. ASSUME inits' = inits, Len(inboxes') = Len(inboxes), Session' => Session /\ deps' = deps
      PROVE  FirstInboxes'
  BY <1>1 DEF FirstInboxes
<1>2. CASE PlanAdopted
  <2>1. inits' = inits + 1 /\ deps' = deps
    BY <1>2 DEF PlanAdopted, schedVars
  <2>2. Len(inboxes') = Len(inboxes) + Len(deps) /\ Len(deps) \in Nat
    BY <1>2, AdoptedInboxes DEF GraphInv, SortIInv, DepsOK
  <2>3. QED
    BY <2>1, <2>2 DEF FirstInboxes
<1>3. CASE PlanAdopted \/ (/\ inits' = inits
                           /\ Session' => Session /\ deps' = deps)
  BY <1>1, <1>2, <1>3, InboxesStep
<1>4. CASE Plan \/ PlanFailed \/ InitCall
  BY <1>3, <1>4 DEF Plan, PlanFailed, InitCall, Session, FlowInv, flowVars
<1>5. CASE InitReturns \/ TickReturns \/ ShutdownReturns \/ EndFrame \/ BeginFrame
  BY <1>3, <1>5 DEF InitReturns, TickReturns, ShutdownReturns, EndFrame, BeginFrame, Session,
                    schedVars
<1>6. CASE RunReturns \/ ShutdownCall \/ \E n \in 0 .. scenario.frames : RunCall(n)
  BY <1>3, <1>6 DEF RunReturns, ShutdownCall, RunCall, Session, FlowInv, schedVars
<1>7. ASSUME NEW x, \/ Register(x) \/ Defer(x) \/ DespawnNow(x) \/ PublishPanics(x)
                    \/ Publish(x) \/ Receive \/ SpawnNow \/ UNCHANGED vars
      PROVE  FirstInboxes'
  <2>1. inits' = inits /\ deps' = deps /\ initialized' = initialized
        /\ (kpc' = kpc \/ kpc = "callback")
    BY <1>7 DEF Register, Defer, DespawnNow, PublishPanics, Publish, Receive, SpawnNow, vars,
                schedVars, flowVars
  <2>2. QED
    BY <1>3, <2>1 DEF Session
<1>8. CASE ContextCall
  BY <1>7, <1>8 DEF ContextCall
<1>9. QED
  BY <1>2, <1>4, <1>5, <1>6, <1>7, <1>8 DEF Next, KernelStep

-----------------------------------------------------------------------------
(* The entity table and the deferred commands.                             *)

\* The parts of a table.
LEMMA TableFacts ==
  ASSUME NEW t, NEW inc, TableMatches(t, inc)
  PROVE  /\ t.generations \in Seq(0 .. Generations - 1) /\ Len(t.generations) \in Nat
         /\ t.free \in Seq(Slots) /\ Len(t.free) \in Nat /\ t.live \in Int
         /\ inc \in [Slots -> Nat] /\ Len(t.generations) <= MaxSlots
         /\ FreeBelow(t.free, Len(t.generations)) /\ Counts(t.generations, inc)
<1>1. t \in Tables
  BY DEF TableMatches
<1>2. /\ t.generations \in Seq(0 .. Generations - 1)
      /\ t.free \in Seq(Slots) /\ t.live \in Int
  BY <1>1 DEF Tables
<1>3. QED
  BY <1>2 DEF TableMatches

\* A table put together from its parts.
LEMMA TableBuilt ==
  ASSUME NEW H \in Seq(0 .. Generations - 1), NEW E \in Seq(Slots), NEW n \in Int,
         NEW inc \in [Slots -> Nat],
         Len(H) <= MaxSlots, FreeBelow(E, Len(H)), Counts(H, inc)
  PROVE  TableMatches([generations |-> H, free |-> E, live |-> n], inc)
  BY DEF TableMatches, Tables

\* The constants, without the scenarios.
LEMMA Constants ==
  /\ MaxSlots \in Nat /\ Generations \in Nat /\ Generations > 0
  /\ MaxIncarnation \in Nat /\ MaxIncarnation <= Generations
  /\ DeferredCapacity \in Nat
  BY EntitiesAssumption, KernelAssumption

\* The next generation of a slot below the bound does not wrap.
LEMMA NextGeneration ==
  ASSUME NEW g \in 0 .. Generations - 1, g + 1 < MaxIncarnation
  PROVE  (g + 1) % Generations = g + 1 /\ g + 1 \in 0 .. Generations - 1
<1> DEFINE a == g + 1
           b == Generations
<1>1. a \in Nat /\ b \in Nat /\ a < b
  BY Constants
<1>2. a % b = a
  <2> HIDE DEF a, b
  <2>1. QED
    BY <1>1
<1>3. QED
  BY <1>1, <1>2

\* The top of a stack is taken off.
LEMMA PopFacts ==
  ASSUME NEW S, NEW F \in Seq(S), F # <<>>
  PROVE  /\ Len(F) \in Nat /\ Len(F) > 0 /\ F[Len(F)] \in S
         /\ SubSeq(F, 1, Len(F) - 1) \in Seq(S)
         /\ Len(SubSeq(F, 1, Len(F) - 1)) = Len(F) - 1
         /\ \A i \in 1 .. Len(F) - 1 : SubSeq(F, 1, Len(F) - 1)[i] = F[i]
<1>1. Len(F) \in Nat /\ Len(F) > 0 /\ F[Len(F)] \in S
  OBVIOUS
<1> DEFINE n == Len(F) - 1
           E == SubSeq(F, 1, n)
<1>2. n \in Nat /\ n <= Len(F) /\ \A i \in 1 .. n : i \in 1 .. Len(F)
  BY <1>1
<1> HIDE DEF n
<1>3. E \in Seq(S)
  BY <1>1, <1>2
<1>4. Len(E) = n
  BY <1>1, <1>2
<1>5. \A i \in 1 .. n : E[i] = F[i]
  BY <1>1, <1>2
<1>6. QED
  BY <1>1, <1>3, <1>4, <1>5 DEF n

\* A free slot is used again.
LEMMA ReuseMatches ==
  ASSUME NEW S, NEW G \in Seq(S), NEW inc \in [Slots -> Nat], Counts(G, inc),
         NEW slot \in Slots, slot <= Len(G), inc[slot] \in S
  PROVE  /\ [G EXCEPT ![slot] = inc[slot]] \in Seq(S)
         /\ Len([G EXCEPT ![slot] = inc[slot]]) = Len(G)
         /\ [inc EXCEPT ![slot] = @ + 1] \in [Slots -> Nat]
         /\ Counts([G EXCEPT ![slot] = inc[slot]], [inc EXCEPT ![slot] = @ + 1])
<1> DEFINE H == [G EXCEPT ![slot] = inc[slot]]
           inc2 == [inc EXCEPT ![slot] = @ + 1]
<1>0. Len(G) \in Nat
  OBVIOUS
<1>1. \A s \in Slots : s \in Nat /\ s >= 1
  BY Constants DEF Slots
<1>2. slot \in 1 .. Len(G)
  BY <1>0, <1>1
<1>4. /\ H \in Seq(S) /\ Len(H) = Len(G)
      /\ \A i \in 1 .. Len(G) : H[i] = IF i = slot THEN inc[slot] ELSE G[i]
  BY <1>0, <1>2
<1>5. inc2 \in [Slots -> Nat] /\ \A i \in Slots : inc2[i] = IF i = slot THEN inc[slot] + 1 ELSE inc[i]
  OBVIOUS
<1> HIDE DEF H, inc2
<1>6. ASSUME NEW s \in Slots
      PROVE  inc2[s] = IF s <= Len(H) THEN H[s] + 1 ELSE 0
  <2>1. CASE s = slot
    BY <1>2, <1>4, <1>5, <2>1
  <2>2. CASE s # slot
    <3>1. s \in Nat /\ (s <= Len(G) => s \in 1 .. Len(G))
      BY <1>0, <1>1
    <3>2. inc[s] = IF s <= Len(G) THEN G[s] + 1 ELSE 0
      BY DEF Counts
    <3>3. QED
      BY <1>4, <1>5, <2>2, <3>1, <3>2
  <2>3. QED
    BY <2>1, <2>2
<1>7. Counts(H, inc2)
  BY <1>6 DEF Counts
<1>8. QED
  BY <1>4, <1>5, <1>7 DEF H, inc2

\* A slot is used for the first time.
LEMMA GrowMatches ==
  ASSUME NEW S, 0 \in S, NEW G \in Seq(S), NEW inc \in [Slots -> Nat],
         Len(G) < MaxSlots, Counts(G, inc)
  PROVE  /\ Len(G) + 1 \in Slots /\ inc[Len(G) + 1] = 0
         /\ Append(G, 0) \in Seq(S) /\ Len(Append(G, 0)) = Len(G) + 1
         /\ [inc EXCEPT ![Len(G) + 1] = @ + 1] \in [Slots -> Nat]
         /\ Counts(Append(G, 0), [inc EXCEPT ![Len(G) + 1] = @ + 1])
<1> DEFINE H == Append(G, 0)
           slot == Len(G) + 1
           inc2 == [inc EXCEPT ![slot] = @ + 1]
<1>1. Len(G) \in Nat /\ slot \in Slots /\ \A s \in Slots : s \in Nat /\ s >= 1
  BY Constants DEF Slots
<1>2. inc[slot] = 0
  BY <1>1 DEF Counts
<1>3. /\ H \in Seq(S) /\ Len(H) = slot /\ H[slot] = 0
      /\ \A i \in 1 .. Len(G) : H[i] = G[i]
  BY <1>1
<1>4. inc2 \in [Slots -> Nat] /\ \A i \in Slots : inc2[i] = IF i = slot THEN 1 ELSE inc[i]
  BY <1>1, <1>2
<1> HIDE DEF H, inc2
<1>5. ASSUME NEW s \in Slots
      PROVE  inc2[s] = IF s <= Len(H) THEN H[s] + 1 ELSE 0
  <2>1. CASE s = slot
    BY <1>1, <1>3, <1>4, <2>1
  <2>2. CASE s # slot
    <3>1. inc[s] = IF s <= Len(G) THEN G[s] + 1 ELSE 0
      BY DEF Counts
    <3>2. QED
      BY <1>1, <1>3, <1>4, <2>2, <3>1
  <2>3. QED
    BY <2>1, <2>2
<1>6. Counts(H, inc2)
  BY <1>5 DEF Counts
<1>7. QED
  BY <1>1, <1>2, <1>3, <1>4, <1>6 DEF H, inc2

\* try_create: the handle has the generation that counts the allocations of its
\* slot, and the table goes on agreeing with the count.
LEMMA CreateMatches ==
  ASSUME NEW t, NEW inc, TableMatches(t, inc), Room(t, inc)
  PROVE  /\ Created(t).entity.index \in Slots /\ Created(t).entity \in Handles
         /\ Created(t).entity.generation = inc[Created(t).entity.index]
         /\ TableMatches(Created(t).table, [inc EXCEPT ![Created(t).entity.index] = @ + 1])
<1> DEFINE made == Created(t)
           slot == made.entity.index
           G == t.generations
           F == t.free
           S == 0 .. Generations - 1
<1>0. /\ G \in Seq(S) /\ Len(G) \in Nat
      /\ F \in Seq(Slots) /\ Len(F) \in Nat /\ t.live + 1 \in Int
      /\ inc \in [Slots -> Nat] /\ Len(G) <= MaxSlots
      /\ FreeBelow(F, Len(G)) /\ Counts(G, inc)
  BY TableFacts
<1>1. CanCreate(t) /\ inc[slot] < MaxIncarnation
  BY DEF Room
<1>2. 0 \in S
  BY Constants
<1>3. CASE F # <<>>
  <2> DEFINE s == F[Len(F)]
             next == (G[s] + 1) % Generations
             E == SubSeq(F, 1, Len(F) - 1)
             H == [G EXCEPT ![s] = next]
             inc2 == [inc EXCEPT ![s] = @ + 1]
             T == [generations |-> H, free |-> E, live |-> t.live + 1]
             e == [index |-> s, generation |-> next]
  <2>1. made = [table |-> T, entity |-> e]
    BY <1>3 DEF Created
  <2>2. made.table = T /\ made.entity = e /\ slot = s
    BY <2>1
  <2>3. inc[s] < MaxIncarnation
    BY <1>1, <2>2
  <2> HIDE DEF G, F, S, made
  <2>4. Len(F) > 0 /\ s \in Slots /\ E \in Seq(Slots) /\ Len(E) = Len(F) - 1
    <3> DEFINE X == Slots
    <3> HIDE DEF X
    <3>1. F \in Seq(X)
      BY <1>0 DEF X
    <3>2. QED
      BY <1>3, <3>1, PopFacts DEF X
  <2>5. \A i \in 1 .. Len(F) - 1 : E[i] = F[i]
    BY <1>0, <1>3, PopFacts
  <2>6. s <= Len(G)
    BY <1>0, <2>4 DEF FreeBelow
  <2> HIDE DEF s, E
  <2>7. FreeBelow(E, Len(G))
    <3>1. \A i \in 1 .. Len(E) : i \in 1 .. Len(F) /\ i \in 1 .. Len(F) - 1
      BY <1>0, <2>4
    <3>2. QED
      BY <1>0, <2>5, <3>1 DEF FreeBelow
  <2>8. s \in 1 .. Len(G)
    BY <1>0, <2>4, <2>6, Constants DEF Slots
  <2>9. G[s] \in S /\ inc[s] = G[s] + 1
    BY <1>0, <2>4, <2>6, <2>8 DEF Counts
  <2>10. next = inc[s] /\ next \in S
    BY <2>3, <2>9, NextGeneration DEF S
  <2> HIDE DEF next
  <2>11. /\ H \in Seq(S) /\ Len(H) = Len(G) /\ inc2 \in [Slots -> Nat] /\ Counts(H, inc2)
    <3>1. inc[s] \in S /\ H = [G EXCEPT ![s] = inc[s]]
      BY <2>10
    <3> HIDE DEF H
    <3>2. /\ [G EXCEPT ![s] = inc[s]] \in Seq(S)
          /\ Len([G EXCEPT ![s] = inc[s]]) = Len(G)
          /\ inc2 \in [Slots -> Nat]
          /\ Counts([G EXCEPT ![s] = inc[s]], inc2)
      BY <1>0, <2>4, <2>6, <3>1, ReuseMatches
    <3>3. QED
      BY <3>1, <3>2
  <2> HIDE DEF H, inc2
  <2>12. TableMatches(T, inc2)
    BY <1>0, <2>4, <2>7, <2>11, TableBuilt DEF S
  <2>13. e \in Handles
    BY <2>4, <2>10 DEF Handles, S
  <2>14. inc2 = [inc EXCEPT ![slot] = @ + 1]
    BY <2>2 DEF inc2
  <2>15. e.generation = inc[s]
    BY <2>10
  <2> HIDE DEF T, e
  <2>16. QED
    BY <2>2, <2>4, <2>12, <2>13, <2>14, <2>15 DEF made
<1>4. CASE F = <<>>
  <2> DEFINE s == Len(G) + 1
             H == Append(G, 0)
             inc2 == [inc EXCEPT ![s] = @ + 1]
             T == [generations |-> H, free |-> F, live |-> t.live + 1]
             e == [index |-> s, generation |-> 0]
  <2>1. made = [table |-> T, entity |-> e]
    BY <1>4 DEF Created
  <2>2. made.table = T /\ made.entity = e /\ slot = s
    BY <2>1
  <2>3. Len(G) < MaxSlots
    BY <1>1, <1>4 DEF CanCreate
  <2> HIDE DEF G, F, S, made
  <2>4. /\ s \in Slots /\ inc[s] = 0 /\ H \in Seq(S) /\ Len(H) = s
        /\ inc2 \in [Slots -> Nat] /\ Counts(H, inc2)
    BY <1>0, <1>2, <2>3, GrowMatches
  <2>5. Len(H) <= MaxSlots
    BY <1>0, <2>3, <2>4, Constants
  <2>6. FreeBelow(F, Len(H))
    BY <1>4 DEF FreeBelow
  <2> HIDE DEF H, inc2, s
  <2>7. TableMatches(T, inc2)
    BY <1>0, <2>4, <2>5, <2>6, TableBuilt DEF S
  <2>8. e \in Handles
    BY <1>2, <2>4 DEF Handles, S
  <2>9. inc2 = [inc EXCEPT ![slot] = @ + 1]
    BY <2>2 DEF inc2
  <2>10. e.generation = inc[s]
    BY <2>4
  <2> HIDE DEF T, e
  <2>11. QED
    BY <2>2, <2>4, <2>7, <2>8, <2>9, <2>10 DEF made
<1>5. QED
  BY <1>3, <1>4

\* try_destroy of an entity that is alive.
LEMMA DestroyMatches ==
  ASSUME NEW t, NEW inc, TableMatches(t, inc), NEW e \in Handles, is_alive(t, e)
  PROVE  /\ TableMatches(Destroyed(t, e), inc)
         /\ inc[e.index] = e.generation + 1
<1> DEFINE F == Append(t.free, e.index)
           T == [generations |-> t.generations, free |-> F, live |-> t.live - 1]
<1>0. /\ t.generations \in Seq(0 .. Generations - 1) /\ Len(t.generations) \in Nat
      /\ t.free \in Seq(Slots) /\ Len(t.free) \in Nat /\ t.live - 1 \in Int
      /\ inc \in [Slots -> Nat] /\ Len(t.generations) <= MaxSlots
      /\ FreeBelow(t.free, Len(t.generations)) /\ Counts(t.generations, inc)
  BY TableFacts
<1>1. /\ e.index \in Slots /\ e.index <= Len(t.generations)
      /\ t.generations[e.index] = e.generation
  BY DEF Handles, is_alive
<1>2. Destroyed(t, e) = T
  BY DEF Destroyed
<1>3. F \in Seq(Slots) /\ FreeBelow(F, Len(t.generations))
  BY <1>0, <1>1 DEF FreeBelow
<1> HIDE DEF F
<1>5. TableMatches(T, inc)
  BY <1>0, <1>3, TableBuilt
<1> HIDE DEF T
<1>6. inc[e.index] = e.generation + 1
  BY <1>0, <1>1 DEF Counts
<1>7. QED
  BY <1>2, <1>5, <1>6

\* What the deferred commands have done so far.
Outcomes ==
  {r \in [t : Tables, inc : [Slots -> Nat], new : SUBSET Issues,
          killed : SUBSET (Issues \X Nat)] :
     /\ TableMatches(r.t, r.inc) /\ IssuedMatches(r.new)
     /\ \A x \in r.killed : x[1].incarnation = x[2]}

\* One deferred command is carried out on r.
Done(r, c) ==
  LET made == Created(r.t)
  IN IF c.kind = "spawn"
     THEN IF Room(r.t, r.inc)
          THEN [t |-> made.table,
                inc |-> [r.inc EXCEPT ![made.entity.index] = @ + 1],
                new |-> r.new \cup {[handle |-> made.entity,
                            incarnation |-> r.inc[made.entity.index] + 1]},
                killed |-> r.killed]
          ELSE r
     ELSE IF is_alive(r.t, c.target.handle)
          THEN [t |-> Destroyed(r.t, c.target.handle), inc |-> r.inc, new |-> r.new,
                killed |-> r.killed \cup {<<c.target, r.inc[c.target.handle.index]>>}]
          ELSE r

\* An outcome is put together from its parts.
LEMMA OutcomeBuilt ==
  ASSUME NEW t, NEW inc, TableMatches(t, inc),
         NEW new, IssuedMatches(new),
         NEW killed \in SUBSET (Issues \X Nat), \A x \in killed : x[1].incarnation = x[2]
  PROVE  [t |-> t, inc |-> inc, new |-> new, killed |-> killed] \in Outcomes
<1> DEFINE r == [t |-> t, inc |-> inc, new |-> new, killed |-> killed]
<1>1. t \in Tables /\ inc \in [Slots -> Nat] /\ new \in SUBSET Issues
  BY DEF TableMatches, IssuedMatches
<1>2. r \in [t : Tables, inc : [Slots -> Nat], new : SUBSET Issues, killed : SUBSET (Issues \X Nat)]
  BY <1>1
<1>3. r.t = t /\ r.inc = inc /\ r.new = new /\ r.killed = killed
  OBVIOUS
<1> HIDE DEF r
<1>4. QED
  BY <1>2, <1>3 DEF Outcomes, r

\* A fresh handle is issued for the incarnation its generation counts.
LEMMA IssueMatches ==
  ASSUME NEW is, IssuedMatches(is), NEW e \in Handles, NEW n \in Nat, e.generation = n
  PROVE  IssuedMatches(is \cup {[handle |-> e, incarnation |-> n + 1]})
<1> DEFINE x == [handle |-> e, incarnation |-> n + 1]
<1>1. x \in Issues /\ x.handle = e /\ x.incarnation = n + 1
  BY DEF Issues
<1> HIDE DEF x
<1>2. IssuedMatches(is \cup {x})
  BY <1>1 DEF IssuedMatches
<1>3. QED
  BY <1>2 DEF x

\* A command keeps what is known of the outcome: what is killed is the
\* incarnation the handle was issued for.
LEMMA DoneMatches ==
  ASSUME NEW is, IssuedMatches(is), NEW r \in Outcomes, NEW c \in Commands(is)
  PROVE  Done(r, c) \in Outcomes
<1>1. /\ TableMatches(r.t, r.inc) /\ IssuedMatches(r.new)
      /\ r.killed \in SUBSET (Issues \X Nat) /\ \A x \in r.killed : x[1].incarnation = x[2]
  BY DEF Outcomes
<1>2. CASE c.kind = "spawn" /\ Room(r.t, r.inc)
  <2> DEFINE made == Created(r.t)
             inc2 == [r.inc EXCEPT ![made.entity.index] = @ + 1]
             n == r.inc[made.entity.index]
             new2 == r.new \cup {[handle |-> made.entity, incarnation |-> n + 1]}
  <2>1. Done(r, c) = [t |-> made.table, inc |-> inc2, new |-> new2, killed |-> r.killed]
    BY <1>2 DEF Done
  <2>2. /\ made.entity.index \in Slots /\ made.entity \in Handles
        /\ made.entity.generation = n /\ TableMatches(made.table, inc2)
    BY <1>1, <1>2, CreateMatches
  <2>3. n \in Nat
    BY <1>1, <2>2 DEF TableMatches
  <2> HIDE DEF made, inc2, n
  <2>4. IssuedMatches(new2)
    BY <1>1, <2>2, <2>3, IssueMatches
  <2> HIDE DEF new2
  <2>5. QED
    BY <1>1, <2>1, <2>2, <2>4, OutcomeBuilt
<1>3. CASE c.kind # "spawn" /\ is_alive(r.t, c.target.handle)
  <2>1. c.target \in is
    BY <1>3 DEF Commands
  <2>2. c.target \in Issues /\ c.target.incarnation = c.target.handle.generation + 1
    BY <2>1 DEF IssuedMatches
  <2> DEFINE x == c.target
             e == x.handle
             n == r.inc[e.index]
             killed2 == r.killed \cup {<<x, n>>}
  <2>3. e \in Handles
    BY <2>2 DEF Issues
  <2>4. Done(r, c) = [t |-> Destroyed(r.t, e), inc |-> r.inc, new |-> r.new, killed |-> killed2]
    BY <1>3 DEF Done
  <2>5. is_alive(r.t, e) /\ x \in Issues /\ x.incarnation = e.generation + 1
    BY <1>3, <2>2
  <2> HIDE DEF x, e
  <2>6. TableMatches(Destroyed(r.t, e), r.inc) /\ n = e.generation + 1
    BY <1>1, <2>3, <2>5, DestroyMatches
  <2>7. n \in Nat
    BY <2>3, <2>6, Constants DEF Handles
  <2> HIDE DEF n
  <2>8. killed2 \in SUBSET (Issues \X Nat) /\ \A y \in killed2 : y[1].incarnation = y[2]
    BY <1>1, <2>5, <2>6, <2>7
  <2> HIDE DEF killed2
  <2>9. QED
    BY <1>1, <2>4, <2>6, <2>8, OutcomeBuilt
<1>4. CASE Done(r, c) = r
  BY <1>4
<1>5. QED
  BY <1>2, <1>3, <1>4 DEF Done

\* DeferredCommands::apply, however many commands there are.
LEMMA AppliedMatches ==
  ASSUME StructureInv
  PROVE  Applied \in Outcomes
<1> DEFINE N == Len(deferred)
           zero == [t |-> table, inc |-> incarnation, new |-> {}, killed |-> {}]
           Put(r, k) == Done(r, deferred[k])
           V == Outcomes
<1>0. N \in Nat /\ \A k \in 1 .. N : deferred[k] \in Commands(issued)
  <2> DEFINE S == Commands(issued)
  <2> HIDE DEF S
  <2>1. deferred \in Seq(S)
    BY DEF StructureInv, S
  <2>2. QED
    BY <2>1 DEF S
<1>1. ASSUME NEW r \in V, NEW k \in 1 .. N
      PROVE  Put(r, k) \in V
  BY <1>0, DoneMatches DEF StructureInv
<1>2. zero \in V
  <2>1. IssuedMatches({}) /\ {} \in SUBSET (Issues \X Nat)
    BY DEF IssuedMatches
  <2>2. TableMatches(table, incarnation)
    BY DEF StructureInv
  <2>3. QED
    BY <2>1, <2>2, OutcomeBuilt
<1> DEFINE G == [k \in 1 .. N |-> [r \in V |-> Put(r, k)]]
           run[k \in 0 .. N] == IF k = 0 THEN zero ELSE Put(run[k - 1], k)
<1>3. G \in [1 .. N -> [V -> V]]
  <2> HIDE DEF V, Put
  <2>1. QED
    BY <1>1
<1>4. \A k \in 1 .. N : \A r \in V : G[k][r] = Put(r, k)
  <2> HIDE DEF V, Put
  <2>1. QED
    OBVIOUS
<1>5. PICK f \in [0 .. N -> V] : f[0] = zero /\ \A k \in 1 .. N : f[k] = G[k][f[k - 1]]
  <2>1. N \in Nat
    BY <1>0
  <2> HIDE DEF V, G, zero, N
  <2>2. QED
    BY <1>2, <1>3, <2>1, RecursionHasSolution
<1>6. f = [k \in 0 .. N |-> IF k = 0 THEN zero ELSE Put(f[k - 1], k)]
  <2> HIDE DEF V, Put, G, zero
  <2>1. \A k \in 1 .. N : f[k - 1] \in V
    BY <1>0
  <2>2. \A k \in 1 .. N : f[k] = Put(f[k - 1], k)
    BY <1>4, <1>5, <2>1
  <2>3. \A k \in 0 .. N : k # 0 => k \in 1 .. N
    BY <1>0
  <2>4. QED
    BY <1>5, <2>2, <2>3
<1>7. run = [k \in 0 .. N |-> IF k = 0 THEN zero ELSE Put(run[k - 1], k)]
  <2> HIDE DEF Put, zero, V
  <2>1. QED
    BY <1>6
<1>8. Applied = run[N]
  BY DEF Applied, Done
<1> HIDE DEF run, Put
<1>9. \A k \in Nat : k <= N => run[k] \in V
  <2> DEFINE W == {k \in Nat : k <= N => run[k] \in V}
  <2>1. 0 \in W
    BY <1>0, <1>2, <1>7
  <2>2. ASSUME NEW k \in Nat, k \in W PROVE k + 1 \in W
    <3>1. SUFFICES ASSUME k + 1 <= N PROVE run[k + 1] \in V
      OBVIOUS
    <3>2. k + 1 \in 1 .. N /\ k + 1 \in 0 .. N /\ k + 1 # 0 /\ (k + 1) - 1 = k /\ run[k] \in V
      BY <1>0, <2>2, <3>1
    <3>3. run[k + 1] = Put(run[k], k + 1)
      BY <1>7, <3>2
    <3>4. QED
      BY <1>1, <3>2, <3>3
  <2> HIDE DEF W
  <2>3. \A k \in Nat : k \in W
    BY <2>1, <2>2, SetInduction
  <2>4. QED
    BY <2>3 DEF W
<1>10. run[N] \in V
  BY <1>0, <1>9
<1>11. QED
  BY <1>8, <1>10

\* A step that leaves the world alone.
LEMMA StructureFrame ==
  ASSUME StructureInv, UNCHANGED worldVars
  PROVE  StructureInv'
<1>1. table' = table /\ incarnation' = incarnation /\ issued' = issued /\ deferred' = deferred
  BY DEF worldVars
<1>2. QED
  BY <1>1 DEF StructureInv

\* A command that could be queued can still be when more handles are issued.
LEMMA CommandsGrow ==
  ASSUME NEW is, NEW more, is \subseteq more
  PROVE  Seq(Commands(is)) \subseteq Seq(Commands(more))
<1> DEFINE A == Commands(is)
           B == Commands(more)
<1>1. A \subseteq B
  BY DEF Commands
<1> HIDE DEF A, B
<1>2. \A q \in Seq(A) : q \in Seq(B)
  BY <1>1
<1>3. QED
  BY <1>2 DEF A, B

LEMMA StructureStep ==
  ASSUME StructureInv, [Next]_vars
  PROVE  StructureInv'
<1>0. /\ TableMatches(table, incarnation) /\ IssuedMatches(issued)
      /\ deferred \in Seq(Commands(issued)) /\ Len(deferred) <= DeferredCapacity
  BY DEF StructureInv
<1>1. ASSUME UNCHANGED worldVars PROVE StructureInv'
  BY <1>1, StructureFrame
<1>2. CASE SpawnNow
  <2> DEFINE made == Created(table)
             slot == made.entity.index
             n == incarnation[slot]
             x == [handle |-> made.entity, incarnation |-> n + 1]
             inc2 == [incarnation EXCEPT ![slot] = @ + 1]
  <2>1. /\ table' = made.table /\ incarnation' = inc2 /\ issued' = issued \cup {x}
        /\ deferred' = deferred /\ Room(table, incarnation)
    BY <1>2 DEF SpawnNow
  <2>2. /\ slot \in Slots /\ made.entity \in Handles /\ made.entity.generation = n
        /\ TableMatches(made.table, inc2)
    BY <1>0, <2>1, CreateMatches
  <2>3. n \in Nat
    BY <1>0, <2>2 DEF TableMatches
  <2> HIDE DEF made, inc2, n, slot
  <2>4. IssuedMatches(issued \cup {x})
    BY <1>0, <2>2, <2>3, IssueMatches
  <2> HIDE DEF x
  <2>5. deferred \in Seq(Commands(issued \cup {x}))
    BY <1>0, CommandsGrow
  <2>6. QED
    BY <1>0, <2>1, <2>2, <2>4, <2>5 DEF StructureInv
<1>3. ASSUME NEW x \in issued, DespawnNow(x) PROVE StructureInv'
  <2>1. /\ table' = Destroyed(table, x.handle) /\ is_alive(table, x.handle)
        /\ UNCHANGED <<deferred, incarnation, issued>>
    BY <1>3 DEF DespawnNow
  <2>2. x.handle \in Handles
    BY <1>0 DEF IssuedMatches, Issues
  <2>3. TableMatches(table', incarnation)
    BY <1>0, <2>1, <2>2, DestroyMatches
  <2>4. QED
    BY <1>0, <2>1, <2>3 DEF StructureInv
<1>4. ASSUME NEW c \in Commands(issued), Defer(c) PROVE StructureInv'
  <2>1. /\ deferred' = Append(deferred, c) /\ Len(deferred) < DeferredCapacity
        /\ UNCHANGED <<table, incarnation, issued>>
    BY <1>4 DEF Defer
  <2> DEFINE S == Commands(issued)
  <2>2. deferred \in Seq(S) /\ c \in S
    BY <1>0
  <2> HIDE DEF S
  <2>3. deferred' \in Seq(S) /\ Len(deferred') <= DeferredCapacity
    BY <2>1, <2>2, Constants
  <2>4. QED
    BY <1>0, <2>1, <2>3 DEF StructureInv, S
<1>5. CASE EndFrame
  <2>1. /\ table' = Applied.t /\ incarnation' = Applied.inc
        /\ issued' = issued \cup Applied.new /\ deferred' = <<>>
    BY <1>5 DEF EndFrame
  <2>2. TableMatches(Applied.t, Applied.inc) /\ IssuedMatches(Applied.new)
    BY AppliedMatches DEF Outcomes
  <2> DEFINE new == Applied.new
  <2> HIDE DEF new
  <2>3. IssuedMatches(issued \cup new)
    BY <1>0, <2>2 DEF IssuedMatches, new
  <2>4. deferred' \in Seq(Commands(issued')) /\ Len(deferred') <= DeferredCapacity
    BY <2>1, Constants
  <2>5. QED
    BY <2>1, <2>2, <2>3, <2>4 DEF StructureInv, new
<1>6. CASE Plan \/ PlanFailed \/ PlanAdopted \/ InitReturns \/ TickReturns \/ ShutdownReturns
           \/ BeginFrame \/ RunReturns \/ InitCall \/ ShutdownCall \/ Receive
  BY <1>1, <1>6 DEF Plan, PlanFailed, PlanAdopted, InitReturns, TickReturns, ShutdownReturns,
                    BeginFrame, RunReturns, InitCall, ShutdownCall, Receive
<1>7. ASSUME NEW to, Publish(to) \/ PublishPanics(to) PROVE StructureInv'
  BY <1>1, <1>7 DEF Publish, PublishPanics
<1>8. ASSUME NEW x, Register(x) \/ RunCall(x) PROVE StructureInv'
  BY <1>1, <1>8 DEF Register, RunCall
<1>9. CASE UNCHANGED vars
  BY <1>1, <1>9 DEF vars
<1>10. CASE ContextCall
  <2>1. [kind |-> "spawn"] \in Commands(issued)
    BY DEF Commands
  <2>2. \A x \in issued : [kind |-> "despawn", target |-> x] \in Commands(issued)
    BY DEF Commands
  <2>3. QED
    BY <1>2, <1>3, <1>4, <1>6, <1>7, <1>10, <2>1, <2>2 DEF ContextCall
<1>11. QED
  BY <1>5, <1>6, <1>8, <1>9, <1>10 DEF Next, KernelStep

-----------------------------------------------------------------------------
(* The kernel.                                                             *)

\* A kernel that was just made.
LEMMA KernelStarts == Init => KernelIInv
<1>1. SUFFICES ASSUME Init PROVE KernelIInv
  OBVIOUS
<1>2. GraphInv
  <2>1. deps = <<>> /\ DepsOK
    BY <1>1 DEF Init, StartSort, DepsOK, Nodes
  <2>2. StartSort(deps, access)
    BY <1>1 DEF Init, StartSort
  <2>3. SortIInv /\ LevelIInv
    BY <2>1, <2>2, PlanFresh
  <2>4. RegistryInv /\ DepsMatch
    BY <1>1, <2>1 DEF Init, RegistryInv, DepsMatch, Nodes
  <2>5. QED
    BY <2>3, <2>4 DEF GraphInv
<1>3. FlowInv
  <2>1. /\ kpc = "idle" /\ stage = "init" /\ initialized = FALSE /\ exec = <<>> /\ up = {}
    BY <1>1 DEF Init
  <2>2. ~Session /\ UpCount = 0
    BY <2>1 DEF Session, UpCount
  <2>3. up = {exec[p] : p \in 1 .. UpCount}
    BY <2>1, <2>2
  <2>4. QED
    BY <2>1, <2>2, <2>3 DEF FlowInv
<1>4. BusInv
  BY <1>1 DEF Init, BusInv, InboxesInv, Session
<1>5. StructureInv
  <2>1. /\ table = [generations |-> <<>>, free |-> <<>>, live |-> 0]
        /\ incarnation = [s \in Slots |-> 0] /\ issued = {} /\ deferred = <<>>
    BY <1>1 DEF Init, EmptyTable
  <2>2. Counts(<<>>, incarnation)
    BY <2>1, Constants DEF Counts, Slots
  <2>3. FreeBelow(<<>>, 0)
    BY DEF FreeBelow
  <2>4. TableMatches(table, incarnation)
    <3>1. /\ <<>> \in Seq(0 .. Generations - 1) /\ <<>> \in Seq(Slots) /\ 0 \in Int
          /\ incarnation \in [Slots -> Nat] /\ Len(<<>>) = 0 /\ Len(<<>>) <= MaxSlots
      BY <2>1, Constants
    <3>2. FreeBelow(<<>>, Len(<<>>))
      BY <2>3, <3>1
    <3>3. QED
      BY <2>1, <2>2, <3>1, <3>2, TableBuilt
  <2>5. IssuedMatches(issued) /\ deferred \in Seq(Commands(issued)) /\ Len(deferred) <= DeferredCapacity
    BY <2>1, Constants DEF IssuedMatches
  <2>6. QED
    BY <2>4, <2>5 DEF StructureInv
<1>6. FirstInboxes
  BY <1>1 DEF Init, FirstInboxes, Session
<1>7. QED
  BY <1>2, <1>3, <1>4, <1>5, <1>6 DEF KernelIInv

\* The invariant of the whole kernel is inductive.
LEMMA KernelInductive == KernelIInv /\ [Next]_vars => KernelIInv'
  BY GraphStep, FlowStep, BusStep, FirstStep, StructureStep DEF KernelIInv

\* What is in the order is registered, and its dependencies are before it.
LEMMA OrderFacts ==
  ASSUME GraphInv
  PROVE  /\ order \in Seq(Nodes) /\ Len(order) \in Nat
         /\ \A p, q \in 1 .. Len(order) : order[p] = order[q] => p = q
         /\ \A p \in 1 .. Len(order) :
              /\ order[p] \in 1 .. Len(registry)
              /\ \A d \in Needs(order[p]) : \E q \in 1 .. p - 1 : order[q] = d
<1>1. /\ order \in Seq(Nodes) /\ Len(order) \in Nat
      /\ \A p, q \in 1 .. Len(order) : order[p] = order[q] => p = q
  BY DEF GraphInv, SortIInv, ScheduleTypeOK, ColorInv
<1>2. ASSUME NEW p \in 1 .. Len(order)
      PROVE  /\ order[p] \in 1 .. Len(registry)
             /\ \A d \in Needs(order[p]) : \E q \in 1 .. p - 1 : order[q] = d
  <2> DEFINE n == order[p]
  <2>1. n \in Nodes
    BY <1>1
  <2>2. /\ Len(deps) \in Nat /\ Len(registry) \in Nat /\ Len(deps) <= Len(registry)
    BY DEF GraphInv, DepsMatch, RegistryInv, SortIInv, DepsOK
  <2>3. n \in 1 .. Len(registry)
    BY <2>1, <2>2 DEF Nodes
  <2>4. ASSUME NEW d \in Needs(n)
        PROVE  \E q \in 1 .. p - 1 : order[q] = d
    <3>1. PICK k \in 1 .. Len(registry[n].needs) : d = IndexOf(registry[n].needs[k])
      BY DEF Needs
    <3>2. /\ k \in 1 .. Len(deps[n]) /\ deps[n][k] \in 1 .. Len(registry)
          /\ registry[deps[n][k]].name = registry[n].needs[k]
      BY <2>1 DEF GraphInv, DepsMatch
    <3>3. Known(registry[n].needs[k])
      BY <3>2 DEF Known
    <3>4. deps[n][k] = d
      BY <3>1, <3>2, <3>3, IndexFacts DEF GraphInv
    <3>5. QED
      BY <3>2, <3>4 DEF GraphInv, SortIInv, OrderInv
  <2>5. QED
    BY <2>3, <2>4
<1>3. QED
  BY <1>1, <1>2

\* The parts of the kernel fit together.
LEMMA KernelInvFollows == KernelIInv => KernelInv
<1>1. SUFFICES ASSUME KernelIInv PROVE KernelInv
  OBVIOUS
<1>2. GraphInv /\ FlowInv /\ BusInv /\ StructureInv
  BY <1>1 DEF KernelIInv
<1>3. exec \in Seq(Nodes) /\ Len(exec) \in Nat /\ (Session => exec = order) /\ (~Session => exec = <<>>)
  BY <1>2, OrderFacts DEF FlowInv
<1>4. UpCount <= Len(exec) /\ UpCount \in Int
  BY <1>2, <1>3 DEF UpCount, FlowInv
<1>5. up \subseteq 1 .. Len(registry)
  <2>1. SUFFICES ASSUME NEW i \in up PROVE i \in 1 .. Len(registry)
    OBVIOUS
  <2>2. PICK p \in 1 .. UpCount : i = exec[p]
    BY <1>2 DEF FlowInv
  <2>3. p \in 1 .. Len(exec)
    BY <1>3, <1>4
  <2>4. Session
    BY <1>3, <2>3
  <2>5. QED
    BY <1>2, <1>3, <2>2, <2>3, <2>4, OrderFacts
<1>6. Len(inboxes) \in Nat /\ \A i \in 1 .. Len(inboxes) : Len(inboxes[i]) <= InboxCapacity
  BY <1>2 DEF BusInv, InboxesInv, InboxOK
<1>7. Len(exec) <= Len(inboxes)
  <2>1. CASE Session
    <3>1. Len(order) \in Nat /\ Len(order) <= Len(deps) /\ Len(deps) <= Len(inboxes) /\ Len(deps) \in Nat
      BY <1>2, <2>1, OrderFits DEF GraphInv, BusInv, SortIInv, DepsOK
    <3>2. QED
      BY <1>3, <1>6, <2>1, <3>1
  <2>2. CASE ~Session
    BY <1>3, <1>6, <2>2
  <2>3. QED
    BY <2>1, <2>2
<1>8. KernelTypeOK
  BY <1>2, <1>5, <1>6 DEF KernelTypeOK, FlowInv, BusInv, StructureInv
<1>9. inits <= 1 /\ exec # <<>> => Len(inboxes) = Len(exec)
  <2>1. SUFFICES ASSUME inits <= 1, exec # <<>> PROVE Len(inboxes) = Len(exec)
    OBVIOUS
  <2>2. Session /\ phase = "planned"
    BY <1>2, <1>3, <2>1 DEF FlowInv
  <2>3. Len(order) = Len(deps)
    BY <1>2, <2>2, OrderFull DEF GraphInv
  <2>4. QED
    BY <1>1, <1>3, <2>1, <2>2, <2>3 DEF KernelIInv, FirstInboxes
<1>10. QED
  BY <1>7, <1>8, <1>9 DEF KernelInv

\* Callbacks come in dependency order.
LEMMA CallbacksFollow == KernelIInv => CallbacksInOrder
<1>1. SUFFICES ASSUME KernelIInv PROVE CallbacksInOrder
  OBVIOUS
<1>2. GraphInv /\ FlowInv
  BY <1>1 DEF KernelIInv
<1>3. exec \in Seq(Nodes) /\ Len(exec) \in Nat /\ (Session => exec = order) /\ (~Session => exec = <<>>)
  BY <1>2, OrderFacts DEF FlowInv
<1>4. UpCount <= Len(exec) /\ UpCount \in Int /\ up = {exec[p] : p \in 1 .. UpCount}
  BY <1>2, <1>3 DEF UpCount, FlowInv
<1>5. \A p \in 1 .. Len(exec) : Session
  BY <1>3
<1>6. \A p \in 1 .. Len(exec) : \A d \in Needs(exec[p]) : \E q \in 1 .. p - 1 : exec[q] = d
  BY <1>2, <1>3, <1>5, OrderFacts
<1>7. \A p, q \in 1 .. Len(exec) : exec[p] = exec[q] => p = q
  BY <1>2, <1>3, <1>5, OrderFacts
<1>8. UpWithDependencies
  <2>1. SUFFICES ASSUME NEW i \in up, NEW d \in Needs(i) PROVE d \in up
    BY DEF UpWithDependencies
  <2>2. PICK p \in 1 .. UpCount : i = exec[p]
    BY <1>4
  <2>3. p \in 1 .. Len(exec)
    BY <1>3, <1>4
  <2>4. PICK q \in 1 .. p - 1 : exec[q] = d
    BY <1>6, <2>2, <2>3
  <2>5. q \in 1 .. UpCount
    BY <1>4, <2>2, <2>4
  <2>6. QED
    BY <1>4, <2>4, <2>5
<1>9. ASSUME kpc = "callback" PROVE (stage = "init") <=> (Current \notin up)
  <2>1. at \in 1 .. Len(exec) /\ stage \in {"init", "tick", "shutdown"}
    BY <1>2, <1>9 DEF FlowInv
  <2>2. CASE stage = "init"
    <3>1. UpCount = at - 1
      BY <1>9, <2>2 DEF UpCount
    <3>2. ASSUME NEW p \in 1 .. at - 1 PROVE exec[p] # exec[at]
      <4>1. p \in 1 .. Len(exec) /\ p # at
        BY <1>3, <2>1
      <4>2. QED
        BY <1>7, <2>1, <4>1
    <3>3. QED
      BY <1>4, <2>2, <3>1, <3>2 DEF Current
  <2>3. CASE stage # "init"
    <3>1. UpCount \in {at, Len(exec)}
      BY <1>9, <2>3 DEF UpCount
    <3>2. at \in 1 .. UpCount
      BY <1>3, <2>1, <3>1
    <3>3. QED
      BY <1>4, <2>3, <3>2 DEF Current
  <2>4. QED
    BY <2>2, <2>3
<1>10. ASSUME kpc = "callback"
       PROVE  \A d \in Needs(Current) : \E p \in 1 .. at - 1 : exec[p] = d
  <2>1. at \in 1 .. Len(exec)
    BY <1>2, <1>10 DEF FlowInv
  <2>2. QED
    BY <1>6, <2>1 DEF Current
<1>11. CallbackDiscipline
  BY <1>9, <1>10 DEF CallbackDiscipline
<1>12. QED
  BY <1>8, <1>11 DEF CallbacksInOrder

\* Messages are where they belong, in order and allowed.
LEMMA BusFollows == KernelIInv => BusIsOrderly
<1>1. SUFFICES ASSUME KernelIInv PROVE BusIsOrderly
  OBVIOUS
<1>2. GraphInv /\ BusInv
  BY <1>1 DEF KernelIInv
<1>3. InboxesInOrder
  BY <1>2 DEF BusInv, InboxesInv, InboxOK, InboxesInOrder
<1>4. ASSUME NEW i, NEW j, Declared(i, j)
      PROVE  i <= Len(registry) /\ j \in Needs(i)
  <2>1. PICK k \in 1 .. Len(registry[i].needs) : registry[j].name = registry[i].needs[k]
    BY <1>4 DEF Declared
  <2>2. i \in 1 .. Len(registry) /\ j \in 1 .. Len(registry) /\ Len(registry) \in Nat
    BY <1>2, <1>4 DEF Declared, GraphInv, RegistryInv
  <2>3. Known(registry[i].needs[k])
    BY <2>1, <2>2 DEF Known
  <2>4. j = IndexOf(registry[i].needs[k])
    BY <1>2, <2>1, <2>2, <2>3, IndexFacts DEF GraphInv
  <2>5. QED
    BY <2>1, <2>2, <2>4 DEF Needs
<1>5. UndeclaredIsPoliced
  BY <1>2, <1>4 DEF BusInv, InboxesInv, SentOK, UndeclaredIsPoliced
<1>6. QED
  BY <1>3, <1>5 DEF BusIsOrderly

\* What the deferred commands kill is what they were meant for.
LEMMA DespawnFollows == KernelIInv => DespawnHitsTarget
  BY AppliedMatches DEF KernelIInv, Outcomes, DespawnHitsTarget

\* KernelIInv holds in every reachable state.
LEMMA KernelIsInvariant == Spec => []KernelIInv
  BY KernelStarts, KernelInductive, PTL DEF Spec

\* The kernel's parts fit together, for every kernel and every call sequence:
\* a callback runs at a place of the order, queues keep their bounds, every
\* subsystem that may run has an inbox, and in the first session of a kernel
\* there are no others.
THEOREM KernelFitsTogether == Spec => []KernelInv
  BY KernelIsInvariant, KernelInvFollows, PTL

\* The callbacks of init, run_until and shutdown come in dependency order in
\* every session, whatever is registered between sessions.
THEOREM CallbacksAreOrdered == Spec => []CallbacksInOrder
  BY KernelIsInvariant, CallbacksFollow, PTL

\* The inboxes hold messages of their owner in the order they were built, and
\* in a debug build only what a declared dependency sent.
THEOREM BusStaysOrderly == Spec => []BusIsOrderly
  BY KernelIsInvariant, BusFollows, PTL

\* MessageBus::publish and flush never deliver a message that was refused
\* before: an inbox changes only by the message being published to it, or by
\* what its owner takes, for every inbox capacity and number of subsystems.
THEOREM PublishesAreFinal == Spec => PublishIsFinal
<1>1. KernelIInv /\ [Next]_vars => [\A i \in 1 .. Len(inboxes') : InboxMove(i)]_vars
  BY InboxesStep DEF KernelIInv
<1>2. QED
  BY <1>1, KernelIsInvariant, PTL DEF Spec, PublishIsFinal

\* DeferredCommands::apply kills no other entity than the handle's, for every
\* queue of commands and every number of slots and generations.
THEOREM DespawnsAreExact == Spec => []DespawnHitsTarget
  BY KernelIsInvariant, DespawnFollows, PTL
=============================================================================
