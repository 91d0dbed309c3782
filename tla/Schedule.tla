------------------------------ MODULE Schedule ------------------------------
(***************************************************************************)
(* SchedulePlan::build of kernel/scheduler.rs: the depth-first topological *)
(* sort of the subsystems and the grouping of the order into waves.  The   *)
(* recursion of `visit` is the explicit stack, one step per turn of its    *)
(* loop; subsystem i of the registry (0-based there) is node i + 1.        *)
(***************************************************************************)
EXTENDS Naturals, Sequences, FiniteSets

CONSTANT
  Registries   \* what may be registered: [deps, access] records, for each
               \* node its dependency list and its SystemAccess

ASSUME RegistriesAssumption ==
  \A r \in Registries :
    LET n == Len(r.deps) IN
    /\ n \in Nat /\ r.deps \in [1 .. n -> Seq(1 .. n)]
    /\ DOMAIN r.access = 1 .. n

VARIABLES
  deps,      \* for each node, the list of the nodes it depends on
  access,    \* for each node, its SystemAccess
  phase,     \* "sort", "levels", "waves", "planned", or "cycle": an error was
             \* returned
  color,     \* WHITE, GRAY or BLACK
  stack,     \* the nodes `visit` is in, outermost first
  cursor,    \* for each node on the stack, the position in its dependency list
  order,     \* the sorted nodes
  report,    \* the path of the cycle error
  level,     \* the wave of each node, counted from 0
  levelled,  \* how many nodes of the order have their level
  grouped,   \* how many nodes of the order are in their wave
  waves      \* the plan's waves

sortVars == <<color, stack, cursor, order, report>>
schedVars == <<deps, access, phase, sortVars, level, levelled, grouped, waves>>

Nodes == 1 .. Len(deps)

\* SystemAccess::conflicts
conflicts(a, b) ==
  \/ a.exclusive \/ b.exclusive
  \/ a.writes \cap (b.reads \cup b.writes) # {}
  \/ b.writes \cap a.reads # {}

\* What toposort starts from.
StartSort(d, a) ==
  /\ deps = d /\ access = a
  /\ phase = "sort"
  /\ color = [n \in 1 .. Len(d) |-> "WHITE"]
  /\ cursor = [n \in 1 .. Len(d) |-> 1]
  /\ level = [n \in 1 .. Len(d) |-> 0]
  /\ stack = <<>> /\ order = <<>> /\ report = <<>>
  /\ levelled = 0 /\ grouped = 0 /\ waves = <<>>

Top == stack[Len(stack)]
Pop == SubSeq(stack, 1, Len(stack) - 1)
NextDep == deps[Top][cursor[Top]]
AtDep == phase = "sort" /\ stack # <<>> /\ cursor[Top] <= Len(deps[Top])

-----------------------------------------------------------------------------
(* toposort and visit                                                      *)

\* The loop of toposort: the first WHITE node is the next start.
VisitStart(n) ==
  /\ phase = "sort" /\ stack = <<>>
  /\ color[n] = "WHITE" /\ \A m \in 1 .. n - 1 : color[m] # "WHITE"
  /\ color' = [color EXCEPT ![n] = "GRAY"]
  /\ stack' = <<n>>
  /\ UNCHANGED <<deps, access, phase, cursor, order, report, level, levelled, grouped, waves>>

\* A WHITE dependency: the recursive call.
VisitWhite ==
  /\ AtDep /\ color[NextDep] = "WHITE"
  /\ color' = [color EXCEPT ![NextDep] = "GRAY"]
  /\ cursor' = [cursor EXCEPT ![Top] = @ + 1]
  /\ stack' = Append(stack, NextDep)
  /\ UNCHANGED <<deps, access, phase, order, report, level, levelled, grouped, waves>>

\* Mutant: the loop does not go on after a finished dependency.
VisitBlackStuck ==
  /\ AtDep /\ color[NextDep] = "BLACK"
  /\ UNCHANGED schedVars

VisitBlack ==
  /\ AtDep /\ color[NextDep] = "BLACK"
  /\ cursor' = [cursor EXCEPT ![Top] = @ + 1]
  /\ UNCHANGED <<deps, access, phase, color, stack, order, report, level, levelled, grouped, waves>>

\* Mutant: the error names the whole stack, not the cycle.
VisitGrayWholeStack ==
  /\ AtDep /\ color[NextDep] = "GRAY"
  /\ report' = Append(stack, NextDep)
  /\ phase' = "cycle"
  /\ UNCHANGED <<deps, access, color, stack, cursor, order, level, levelled, grouped, waves>>

\* A GRAY dependency closes a cycle: the error unwinds every call.
VisitGray ==
  /\ AtDep /\ color[NextDep] = "GRAY"
  /\ \E pos \in 1 .. Len(stack) :
       /\ stack[pos] = NextDep
       /\ report' = Append(SubSeq(stack, pos, Len(stack)), NextDep)
  /\ phase' = "cycle"
  /\ UNCHANGED <<deps, access, color, stack, cursor, order, level, levelled, grouped, waves>>

\* Every dependency is done: the node is, too.
VisitDone ==
  /\ phase = "sort" /\ stack # <<>> /\ cursor[Top] > Len(deps[Top])
  /\ color' = [color EXCEPT ![Top] = "BLACK"]
  /\ order' = Append(order, Top)
  /\ stack' = Pop
  /\ UNCHANGED <<deps, access, phase, cursor, report, level, levelled, grouped, waves>>

SortDone ==
  /\ phase = "sort" /\ stack = <<>> /\ \A n \in Nodes : color[n] # "WHITE"
  /\ phase' = "levels"
  /\ UNCHANGED <<deps, access, color, stack, cursor, order, report, level, levelled, grouped, waves>>

-----------------------------------------------------------------------------
(* access_waves: nodes are given levels in sorted order.                   *)

\* The least level above every level in a set.
Above(levels) == IF levels = {} THEN 0
                 ELSE 1 + (CHOOSE m \in levels : \A l \in levels : l <= m)

\* Mutant: declared access replaces the dependencies.
AssignLevelAccessOnly ==
  /\ phase = "levels" /\ levelled < Len(order)
  /\ LET node == order[levelled + 1]
         before == {level[order[p]] : p \in
                      {q \in 1 .. levelled :
                         conflicts(access[node], access[order[q]])}}
     IN level' = [level EXCEPT ![node] = Above(before)]
  /\ levelled' = levelled + 1
  /\ UNCHANGED <<deps, access, phase, sortVars, grouped, waves>>

AssignLevel ==
  /\ phase = "levels" /\ levelled < Len(order)
  /\ LET node == order[levelled + 1]
         below == {level[deps[node][k]] : k \in 1 .. Len(deps[node])}
         before == {level[order[p]] : p \in
                      {q \in 1 .. levelled :
                         conflicts(access[node], access[order[q]])}}
     IN level' = [level EXCEPT ![node] = Above(below \cup before)]
  /\ levelled' = levelled + 1
  /\ UNCHANGED <<deps, access, phase, sortVars, grouped, waves>>

\* One empty wave for each level in use.
BuildWaves ==
  /\ phase = "levels" /\ levelled = Len(order)
  /\ waves' = [w \in 1 .. Above({level[n] : n \in Nodes}) |-> <<>>]
  /\ phase' = "waves"
  /\ UNCHANGED <<deps, access, sortVars, level, levelled, grouped>>

\* The nodes go to the waves of their levels, in sorted order.
PushNode ==
  /\ phase = "waves" /\ grouped < Len(order)
  /\ LET node == order[grouped + 1]
     IN waves' = [waves EXCEPT ![level[node] + 1] = Append(@, node)]
  /\ grouped' = grouped + 1
  /\ UNCHANGED <<deps, access, phase, sortVars, level, levelled>>

PlanDone ==
  /\ phase = "waves" /\ grouped = Len(order)
  /\ phase' = "planned"
  /\ UNCHANGED <<deps, access, sortVars, level, levelled, grouped, waves>>

PlanStep ==
  \/ \E n \in Nodes : VisitStart(n)
  \/ VisitWhite \/ VisitBlack \/ VisitGray \/ VisitDone \/ SortDone
  \/ AssignLevel \/ BuildWaves \/ PushNode \/ PlanDone

\* dependency_waves, the public variant that ignores access: its levels.
DependencyLevels ==
  LET lv[k \in 0 .. Len(order)] ==
        IF k = 0 THEN [n \in Nodes |-> 0]
        ELSE [lv[k - 1] EXCEPT ![order[k]] =
                Above({lv[k - 1][deps[order[k]][i]] : i \in 1 .. Len(deps[order[k]])})]
  IN lv[Len(order)]

-----------------------------------------------------------------------------
(* On its own, on any registry.                                            *)

ScheduleInit == \E r \in Registries : StartSort(r.deps, r.access)

ScheduleSpec == ScheduleInit /\ [][PlanStep]_schedVars
LiveScheduleSpec == ScheduleSpec /\ WF_schedVars(PlanStep)

-----------------------------------------------------------------------------
Edge(m, n) == \E k \in 1 .. Len(deps[m]) : deps[m][k] = n
Sorted == phase \in {"levels", "waves", "planned"}
Before(m, n) == \E i, k \in 1 .. Len(order) : i < k /\ order[i] = m /\ order[k] = n

ScheduleTypeOK ==
  /\ phase \in {"sort", "levels", "waves", "planned", "cycle"}
  /\ color \in [Nodes -> {"WHITE", "GRAY", "BLACK"}]
  /\ stack \in Seq(Nodes) /\ order \in Seq(Nodes) /\ report \in Seq(Nodes)
  /\ cursor \in [Nodes -> Nat \ {0}]
  /\ level \in [Nodes -> Nat]

\* The sorted order holds every subsystem once, and every subsystem after all
\* it depends on ("deps-first order - no reversal needed").
OrderIsTopological ==
  Sorted =>
    /\ \A n \in Nodes : \E i \in 1 .. Len(order) : order[i] = n
    /\ \A i, k \in 1 .. Len(order) : order[i] = order[k] => i = k
    /\ \A m, n \in Nodes : Edge(n, m) => Before(m, n)

\* A cycle error names a real cycle of declared dependencies, closed: "a -> b
\* -> a".  With OrderIsTopological: toposort fails exactly on cyclic input.
CycleIsReal ==
  phase = "cycle" =>
    /\ Len(report) >= 2 /\ report[1] = report[Len(report)]
    /\ \A i \in 1 .. Len(report) - 1 : Edge(report[i], report[i + 1])

\* The `expect` of visit cannot fail: a GRAY node is on the stack.
GrayIsOnStack ==
  phase = "sort" =>
    \A n \in Nodes : color[n] = "GRAY" <=> \E i \in 1 .. Len(stack) : stack[i] = n

\* The sort ends with a topological order or with a real cycle, and its own
\* bookkeeping holds at every turn of its loops (toposort, visit).
SortInv == ScheduleTypeOK /\ GrayIsOnStack /\ OrderIsTopological /\ CycleIsReal

\* The waves hold every subsystem once, each wave in sorted order; and running
\* them in turn keeps every pair that depends or conflicts in sorted order: two
\* subsystems of one wave neither depend on one another nor conflict.
WavesAreSafe ==
  phase = "planned" =>
    /\ \A n \in Nodes : Cardinality({w \in 1 .. Len(waves) :
                          \E i \in 1 .. Len(waves[w]) : waves[w][i] = n}) = 1
    /\ \A w \in 1 .. Len(waves) : \A i, k \in 1 .. Len(waves[w]) :
         i < k => Before(waves[w][i], waves[w][k])
    /\ \A m, n \in Nodes : Before(m, n) /\ (Edge(n, m) \/ conflicts(access[m], access[n]))
                             => level[m] < level[n]

\* No wave is empty and no subsystem could run a wave earlier: something it
\* depends on or conflicts with is in the wave just before.  Declared access
\* only delays a subsystem against the plan dependency_waves makes.
WavesAreTight ==
  phase = "planned" =>
    /\ \A w \in 1 .. Len(waves) : waves[w] # <<>>
    /\ \A n \in Nodes : level[n] > 0 =>
         \E m \in Nodes : /\ Before(m, n) /\ level[m] + 1 = level[n]
                          /\ Edge(n, m) \/ conflicts(access[m], access[n])
    /\ \A n \in Nodes : level[n] >= DependencyLevels[n]

\* The waves of access_waves keep every pair apart that must be, and no other.
WavesAreExact == WavesAreSafe /\ WavesAreTight

\* Planning ends, with a plan or with an error.
PlanningEnds == <>(phase \in {"planned", "cycle"})
=============================================================================
