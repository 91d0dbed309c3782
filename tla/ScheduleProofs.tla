--------------------------- MODULE ScheduleProofs ---------------------------
(***************************************************************************)
(* The planner for every registry: every number of subsystems, every graph *)
(* of declared dependencies and every declaration of access.               *)
(***************************************************************************)
EXTENDS Schedule, NatSets, FiniteSetTheorems, TLAPS

-----------------------------------------------------------------------------
(* The inductive invariant of the sort.                                    *)

DepsOK ==
  /\ Len(deps) \in Nat
  /\ deps \in [Nodes -> Seq(Nodes)]

OnStack(n) == \E i \in 1 .. Len(stack) : stack[i] = n
InOrder(n) == \E i \in 1 .. Len(order) : order[i] = n

\* The colours say where a node is, and no node is twice anywhere.
ColorInv ==
  /\ \A n \in Nodes : color[n] = "GRAY" <=> OnStack(n)
  /\ \A n \in Nodes : color[n] = "BLACK" <=> InOrder(n)
  /\ \A i, k \in 1 .. Len(stack) : stack[i] = stack[k] => i = k
  /\ \A i, k \in 1 .. Len(order) : order[i] = order[k] => i = k

\* The stack is a path: each node was entered from the dependency list of the
\* one below it, at the place the cursor has just left.
PathInv ==
  \A i \in 1 .. Len(stack) - 1 :
    /\ cursor[stack[i]] > 1
    /\ deps[stack[i]][cursor[stack[i]] - 1] = stack[i + 1]

CursorInv == \A n \in Nodes : cursor[n] <= Len(deps[n]) + 1

\* Behind the cursor every dependency is finished, except the one being
\* visited from it.
DoneInv ==
  \A n \in Nodes : \A k \in 1 .. cursor[n] - 1 :
    \/ color[deps[n][k]] = "BLACK"
    \/ \E i \in 1 .. Len(stack) - 1 : stack[i] = n /\ stack[i + 1] = deps[n][k]

\* What a finished node depends on was finished before it.
OrderInv ==
  \A i \in 1 .. Len(order) : \A k \in 1 .. Len(deps[order[i]]) :
    \E j \in 1 .. i - 1 : order[j] = deps[order[i]][k]

\* When the sort is over nothing is left to visit.
DoneMeansAll == Sorted => stack = <<>> /\ \A n \in Nodes : color[n] # "WHITE"

SortIInv ==
  /\ DepsOK /\ ScheduleTypeOK
  /\ ColorInv /\ PathInv /\ CursorInv /\ DoneInv /\ OrderInv
  /\ DoneMeansAll /\ CycleIsReal

-----------------------------------------------------------------------------
(* The inductive invariant of access_waves.                                *)

\* Two subsystems that must not share a wave.
Tied(n, m) == Edge(n, m) \/ conflicts(access[n], access[m])

\* The nodes that have a level have it above those of the earlier nodes they
\* are tied to, and right above one of them.
LevelsSafe ==
  \A q \in 1 .. levelled : \A p \in 1 .. q - 1 :
    Tied(order[q], order[p]) => level[order[p]] < level[order[q]]

LevelsTight ==
  \A q \in 1 .. levelled : level[order[q]] > 0 =>
    \E p \in 1 .. q - 1 : /\ Tied(order[q], order[p])
                          /\ level[order[p]] + 1 = level[order[q]]

LevelIInv ==
  /\ levelled \in 0 .. Len(order)
  /\ \A n \in Nodes : level[n] <= levelled
  /\ phase \in {"sort", "cycle"} => levelled = 0
  /\ phase \in {"waves", "planned"} => levelled = Len(order)
  /\ LevelsSafe /\ LevelsTight

\* Each wave holds a part of what was pushed, of its level and in order.
WaveIInv ==
  /\ grouped \in 0 .. Len(order)
  /\ ~(phase \in {"waves", "planned"}) => grouped = 0
  /\ phase = "planned" => grouped = Len(order)
  /\ phase \in {"waves", "planned"} =>
       /\ Len(waves) = Above({level[n] : n \in Nodes})
       /\ waves \in Seq(Seq(Nodes))
       /\ \A w \in 1 .. Len(waves) : \A i \in 1 .. Len(waves[w]) :
            /\ level[waves[w][i]] = w - 1
            /\ \E p \in 1 .. grouped : order[p] = waves[w][i]
       /\ \A w \in 1 .. Len(waves) : \A i, k \in 1 .. Len(waves[w]) :
            i < k => Before(waves[w][i], waves[w][k])
       /\ \A p \in 1 .. grouped : \E i \in 1 .. Len(waves[level[order[p]] + 1]) :
            waves[level[order[p]] + 1][i] = order[p]

-----------------------------------------------------------------------------

\* The top of a stack that is not empty, and what is left without it.
LEMMA StackFacts ==
  ASSUME SortIInv, stack # <<>>
  PROVE  /\ Len(stack) \in Nat \ {0}
         /\ Top \in Nodes
         /\ Pop \in Seq(Nodes)
         /\ Len(Pop) = Len(stack) - 1
         /\ \A i \in 1 .. Len(Pop) : Pop[i] = stack[i]
<1>1. stack \in Seq(Nodes) /\ Len(stack) \in Nat
  BY DEF SortIInv, ScheduleTypeOK
<1>2. Len(stack) # 0 /\ Top \in Nodes
  BY <1>1 DEF Top
<1>3. QED
  BY <1>1, <1>2 DEF Pop

\* Every dependency behind a cursor is a node.
LEMMA BehindFacts ==
  ASSUME SortIInv, NEW n \in Nodes
  PROVE  /\ deps[n] \in Seq(Nodes)
         /\ Len(deps[n]) \in Nat
         /\ cursor[n] \in Nat \ {0}
         /\ \A k \in 1 .. cursor[n] - 1 : k \in 1 .. Len(deps[n]) /\ deps[n][k] \in Nodes
<1>1. deps[n] \in Seq(Nodes) /\ cursor[n] \in Nat \ {0} /\ cursor[n] <= Len(deps[n]) + 1
  BY DEF SortIInv, DepsOK, ScheduleTypeOK, CursorInv
<1>2. QED
  BY <1>1

\* The dependency at the cursor is a node.
LEMMA DepFacts ==
  ASSUME SortIInv, AtDep
  PROVE  /\ Len(stack) \in Nat \ {0}
         /\ Top \in Nodes
         /\ NextDep \in Nodes
         /\ cursor[Top] \in 1 .. Len(deps[Top])
         /\ Len(deps[Top]) \in Nat
<1>1. Len(stack) \in Nat \ {0} /\ Top \in Nodes
  BY StackFacts DEF AtDep
<1>2. deps[Top] \in Seq(Nodes) /\ cursor[Top] \in Nat \ {0}
  BY <1>1 DEF SortIInv, DepsOK, ScheduleTypeOK
<1>3. QED
  BY <1>1, <1>2 DEF AtDep, NextDep

\* The sort starts with its invariant.
LEMMA SortStart ==
  ASSUME NEW d, NEW a, StartSort(d, a),
         Len(d) \in Nat, d \in [1 .. Len(d) -> Seq(1 .. Len(d))]
  PROVE  SortIInv
<1> USE DEF StartSort
<1>1. DepsOK
  BY DEF DepsOK, Nodes
<1>2. ScheduleTypeOK
  BY DEF ScheduleTypeOK, Nodes
<1>3. ColorInv
  BY DEF ColorInv, OnStack, InOrder, Nodes
<1>4. PathInv /\ OrderInv /\ DoneMeansAll /\ CycleIsReal
  BY DEF PathInv, OrderInv, DoneMeansAll, Sorted, CycleIsReal
<1>5. CursorInv /\ DoneInv
  BY DEF CursorInv, DoneInv, Nodes
<1>6. QED
  BY <1>1, <1>2, <1>3, <1>4, <1>5 DEF SortIInv

\* A start of toposort's loop.
LEMMA StepStart ==
  ASSUME SortIInv, NEW n \in Nodes, VisitStart(n)
  PROVE  SortIInv'
<1> USE DEF VisitStart, SortIInv
<1>1. DepsOK' /\ Nodes' = Nodes
  BY DEF DepsOK, Nodes
<1>2. ScheduleTypeOK'
  BY <1>1 DEF ScheduleTypeOK
<1>3. ColorInv'
  BY <1>1 DEF ColorInv, OnStack, InOrder, ScheduleTypeOK
<1>4. PathInv' /\ OrderInv' /\ DoneMeansAll' /\ CycleIsReal'
  BY DEF PathInv, OrderInv, DoneMeansAll, Sorted, CycleIsReal, DepsOK
<1>5. CursorInv'
  BY <1>1 DEF CursorInv
<1>6. DoneInv'
  BY <1>1, BehindFacts, SMTT(30) DEF DoneInv, ScheduleTypeOK
<1>7. QED
  BY <1>1, <1>2, <1>3, <1>4, <1>5, <1>6

\* The recursive call of visit: the dependency goes on the stack.
LEMMA StepWhite ==
  ASSUME SortIInv, VisitWhite
  PROVE  SortIInv'
<1> DEFINE t == Top
           d == NextDep
           L == Len(stack)
<1>0. /\ L \in Nat \ {0} /\ t \in Nodes /\ d \in Nodes /\ t = stack[L]
      /\ cursor[t] \in 1 .. Len(deps[t]) /\ Len(deps[t]) \in Nat
      /\ d = deps[t][cursor[t]]
      /\ color[d] = "WHITE"
      /\ phase = "sort"
  BY DepFacts DEF VisitWhite, AtDep, Top, NextDep
<1>1. /\ color' = [color EXCEPT ![d] = "GRAY"]
      /\ cursor' = [cursor EXCEPT ![t] = @ + 1]
      /\ stack' = Append(stack, d)
      /\ UNCHANGED <<deps, access, phase, order, report, level, levelled, grouped, waves>>
  BY DEF VisitWhite
<1> HIDE DEF t, d
<1>2. DepsOK' /\ Nodes' = Nodes
  BY <1>1 DEF SortIInv, DepsOK, Nodes
<1>3. ScheduleTypeOK'
  BY <1>0, <1>1, <1>2, SMTT(30) DEF SortIInv, ScheduleTypeOK
<1>4. /\ stack \in Seq(Nodes) /\ Len(stack') = L + 1 /\ stack'[L + 1] = d
      /\ \A i \in 1 .. L : stack'[i] = stack[i]
      /\ color \in [Nodes -> {"WHITE", "GRAY", "BLACK"}]
      /\ cursor \in [Nodes -> Nat \ {0}]
  BY <1>0, <1>1, SMTT(30) DEF SortIInv, ScheduleTypeOK
<1>5. color[t] = "GRAY" /\ t # d
  BY <1>0 DEF SortIInv, ColorInv, OnStack
<1>6. ColorInv'
  <2>1. \A n \in Nodes : OnStack(n)' <=> (OnStack(n) \/ n = d)
    <3>1. SUFFICES ASSUME NEW n \in Nodes
                   PROVE  (\E i \in 1 .. Len(stack') : stack'[i] = n)
                            <=> ((\E i \in 1 .. L : stack[i] = n) \/ n = d)
      BY DEF OnStack
    <3>2. 1 .. Len(stack') = 1 .. L \cup {L + 1}
      BY <1>0, <1>4
    <3>3. QED
      BY <1>4, <3>2
  <2>2. ~OnStack(d) /\ ~InOrder(d)
    BY <1>0 DEF SortIInv, ColorInv
  <2>3. \A n \in Nodes : color'[n] = IF n = d THEN "GRAY" ELSE color[n]
    BY <1>0, <1>1, <1>4
  <2>4. \A n \in Nodes : InOrder(n)' <=> InOrder(n)
    BY <1>1 DEF InOrder
  <2>5. \A i, k \in 1 .. Len(stack') : stack'[i] = stack'[k] => i = k
    BY <1>0, <1>4, <2>2, SMTT(30) DEF SortIInv, ColorInv, OnStack
  <2>6. QED
    BY <1>1, <1>2, <2>1, <2>2, <2>3, <2>4, <2>5 DEF SortIInv, ColorInv
<1>7. PathInv'
  <2>1. SUFFICES ASSUME NEW i \in 1 .. Len(stack') - 1
                 PROVE  /\ cursor'[stack'[i]] > 1
                        /\ deps[stack'[i]][cursor'[stack'[i]] - 1] = stack'[i + 1]
    BY <1>1 DEF PathInv
  <2>2. CASE i = L
    BY <1>0, <1>1, <1>4, <2>2
  <2>3. CASE i # L
    <3>1. i \in 1 .. L - 1 /\ stack[i] \in Nodes /\ stack[i] # t
      BY <1>0, <1>4, <2>3 DEF SortIInv, ColorInv
    <3>2. cursor'[stack[i]] = cursor[stack[i]]
      BY <1>1, <1>4, <3>1
    <3>3. QED
      BY <1>0, <1>4, <3>1, <3>2 DEF SortIInv, PathInv
  <2>4. QED
    BY <2>2, <2>3
<1>8. CursorInv'
  BY <1>0, <1>1, <1>2, <1>4 DEF SortIInv, CursorInv
<1>9. DoneInv'
  <2>1. SUFFICES ASSUME NEW n \in Nodes, NEW k \in 1 .. cursor'[n] - 1
                 PROVE  \/ color'[deps[n][k]] = "BLACK"
                        \/ \E i \in 1 .. Len(stack') - 1 :
                             stack'[i] = n /\ stack'[i + 1] = deps[n][k]
    BY <1>1, <1>2 DEF DoneInv
  <2>2. CASE n = t /\ k = cursor[t]
    BY <1>0, <1>4, <2>2
  <2>3. CASE ~(n = t /\ k = cursor[t])
    <3>1. k \in 1 .. cursor[n] - 1
      BY <1>0, <1>1, <1>4, <2>3
    <3>2. deps[n][k] \in Nodes
      BY <3>1, BehindFacts
    <3>3. CASE color[deps[n][k]] = "BLACK"
      BY <1>0, <1>1, <1>4, <3>2, <3>3
    <3>4. CASE \E i \in 1 .. Len(stack) - 1 : stack[i] = n /\ stack[i + 1] = deps[n][k]
      BY <1>0, <1>4, <3>4
    <3>5. QED
      BY <3>1, <3>3, <3>4 DEF SortIInv, DoneInv
  <2>4. QED
    BY <2>2, <2>3
<1>10. OrderInv' /\ DoneMeansAll' /\ CycleIsReal'
  BY <1>0, <1>1 DEF SortIInv, OrderInv, DoneMeansAll, Sorted, CycleIsReal
<1>11. QED
  BY <1>2, <1>3, <1>6, <1>7, <1>8, <1>9, <1>10 DEF SortIInv

\* A finished dependency is passed over.
LEMMA StepBlack ==
  ASSUME SortIInv, VisitBlack
  PROVE  SortIInv'
<1> DEFINE t == Top
<1>0. /\ Len(stack) \in Nat \ {0} /\ t \in Nodes /\ t = stack[Len(stack)]
      /\ cursor[t] \in 1 .. Len(deps[t]) /\ Len(deps[t]) \in Nat
      /\ color[deps[t][cursor[t]]] = "BLACK"
      /\ phase = "sort"
  BY DepFacts DEF VisitBlack, AtDep, Top, NextDep
<1>1. /\ cursor' = [cursor EXCEPT ![t] = @ + 1]
      /\ UNCHANGED <<deps, access, phase, color, stack, order, report, level, levelled,
                     grouped, waves>>
  BY DEF VisitBlack
<1> HIDE DEF t
<1>2. DepsOK' /\ Nodes' = Nodes
  BY <1>1 DEF SortIInv, DepsOK, Nodes
<1>3. ScheduleTypeOK'
  BY <1>0, <1>1, <1>2 DEF SortIInv, ScheduleTypeOK
<1>4. cursor \in [Nodes -> Nat \ {0}] /\ stack \in Seq(Nodes)
  BY DEF SortIInv, ScheduleTypeOK
<1>5. ColorInv'
  BY <1>1, <1>2 DEF SortIInv, ColorInv, OnStack, InOrder
<1>6. PathInv'
  <2>1. SUFFICES ASSUME NEW i \in 1 .. Len(stack) - 1
                 PROVE  cursor'[stack[i]] = cursor[stack[i]]
    BY <1>1 DEF SortIInv, PathInv
  <2>2. stack[i] \in Nodes /\ stack[i] # t
    BY <1>0, <1>4, SMTT(30) DEF SortIInv, ColorInv
  <2>3. QED
    BY <1>1, <1>4, <2>2
<1>7. CursorInv'
  BY <1>0, <1>1, <1>2, <1>4 DEF SortIInv, CursorInv
<1>8. DoneInv'
  <2>1. SUFFICES ASSUME NEW n \in Nodes, NEW k \in 1 .. cursor'[n] - 1
                 PROVE  \/ color[deps[n][k]] = "BLACK"
                        \/ k \in 1 .. cursor[n] - 1
    BY <1>1, <1>2 DEF SortIInv, DoneInv
  <2>2. QED
    BY <1>0, <1>1, <1>4
<1>9. OrderInv' /\ DoneMeansAll' /\ CycleIsReal'
  BY <1>0, <1>1 DEF SortIInv, OrderInv, DoneMeansAll, Sorted, CycleIsReal
<1>10. QED
  BY <1>2, <1>3, <1>5, <1>6, <1>7, <1>8, <1>9 DEF SortIInv

\* A dependency that is being visited closes a cycle: the error's path follows
\* the stack from that node to the top and back.
LEMMA StepGray ==
  ASSUME SortIInv, VisitGray
  PROVE  SortIInv'
<1> DEFINE t == Top
           d == NextDep
           L == Len(stack)
<1>0. /\ L \in Nat \ {0} /\ t \in Nodes /\ d \in Nodes /\ t = stack[L]
      /\ cursor[t] \in 1 .. Len(deps[t]) /\ d = deps[t][cursor[t]]
  BY DepFacts DEF VisitGray, AtDep, Top, NextDep
<1>1. PICK pos \in 1 .. L : stack[pos] = d /\ report' = Append(SubSeq(stack, pos, L), d)
  BY DEF VisitGray
<1>2. /\ phase' = "cycle"
      /\ UNCHANGED <<deps, access, color, stack, cursor, order, level, levelled, grouped, waves>>
  BY DEF VisitGray
<1> HIDE DEF t, d
<1>3. DepsOK' /\ Nodes' = Nodes
  BY <1>2 DEF SortIInv, DepsOK, Nodes
<1>4. stack \in Seq(Nodes)
  BY DEF SortIInv, ScheduleTypeOK
<1> DEFINE s == SubSeq(stack, pos, L)
<1>5. /\ s \in Seq(Nodes) /\ Len(s) = L - pos + 1
      /\ \A i \in 1 .. L - pos + 1 : s[i] = stack[pos + i - 1]
  BY <1>0, <1>4
<1>6. /\ report' \in Seq(Nodes) /\ Len(report') = L - pos + 2
      /\ report'[L - pos + 2] = d
      /\ \A i \in 1 .. L - pos + 1 : report'[i] = stack[pos + i - 1]
  BY <1>0, <1>1, <1>5
<1>7. ScheduleTypeOK'
  BY <1>2, <1>3, <1>6 DEF SortIInv, ScheduleTypeOK
<1>8. /\ ColorInv' /\ PathInv' /\ CursorInv' /\ DoneInv' /\ OrderInv'
      /\ DoneMeansAll'
  BY <1>2, <1>3 DEF SortIInv, ColorInv, OnStack, InOrder, PathInv, CursorInv, DoneInv,
                    OrderInv, DoneMeansAll, Sorted
<1>9. CycleIsReal'
  <2>1. Len(report') >= 2 /\ report'[1] = report'[Len(report')]
    BY <1>0, <1>1, <1>6
  <2>2. ASSUME NEW i \in 1 .. Len(report') - 1
        PROVE  \E k \in 1 .. Len(deps[report'[i]]) : deps[report'[i]][k] = report'[i + 1]
    <3>1. CASE i = L - pos + 1
      BY <1>0, <1>1, <1>6, <3>1
    <3>2. CASE i # L - pos + 1
      <4>1. /\ pos + i - 1 \in 1 .. L - 1
            /\ report'[i] = stack[pos + i - 1] /\ report'[i + 1] = stack[pos + i]
        <5>0. i \in 1 .. (L - pos + 2) - 1 /\ L \in Nat /\ pos \in 1 .. L
          BY <1>0, <1>6
        <5> HIDE DEF L
        <5>1. i \in 1 .. L - pos /\ i + 1 \in 1 .. L - pos + 1
          BY <3>2, <5>0
        <5>2. pos + i - 1 \in 1 .. L - 1 /\ pos + (i + 1) - 1 = pos + i
          BY <5>0, <5>1
        <5>3. report'[i] = stack[pos + i - 1]
          BY <1>6, <5>0, <5>1
        <5>4. report'[i + 1] = stack[pos + (i + 1) - 1]
          BY <1>6, <5>1
        <5>5. QED
          BY <5>2, <5>3, <5>4
      <4>2. cursor[stack[pos + i - 1]] > 1 /\ stack[pos + i - 1] \in Nodes
            /\ deps[stack[pos + i - 1]][cursor[stack[pos + i - 1]] - 1] = stack[pos + i]
        BY <1>4, <4>1 DEF SortIInv, PathInv
      <4>3. cursor[stack[pos + i - 1]] - 1 \in 1 .. Len(deps[stack[pos + i - 1]])
        <5> DEFINE n == stack[pos + i - 1]
        <5>1. n \in Nodes /\ cursor[n] > 1
          BY <4>2
        <5> HIDE DEF n
        <5>2. cursor[n] - 1 \in 1 .. Len(deps[n])
          BY <5>1, BehindFacts
        <5>3. QED
          BY <5>2 DEF n
      <4>4. QED
        BY <4>1, <4>2, <4>3
    <3>3. QED
      BY <3>1, <3>2
  <2>3. QED
    BY <1>2, <2>1, <2>2 DEF CycleIsReal, Edge
<1>10. QED
  BY <1>3, <1>7, <1>8, <1>9 DEF SortIInv

\* A node all of whose dependencies are finished goes to the end of the order.
LEMMA StepDone ==
  ASSUME SortIInv, VisitDone
  PROVE  SortIInv'
<1> DEFINE t == Top
           L == Len(stack)
<1>0. /\ L \in Nat \ {0} /\ t \in Nodes /\ t = stack[L]
      /\ cursor[t] > Len(deps[t]) /\ phase = "sort"
  BY StackFacts DEF VisitDone, Top
<1>1. /\ color' = [color EXCEPT ![t] = "BLACK"]
      /\ order' = Append(order, t)
      /\ UNCHANGED <<deps, access, phase, cursor, report, level, levelled, grouped, waves>>
  BY DEF VisitDone
<1>2. /\ stack' \in Seq(Nodes) /\ Len(stack') = L - 1
      /\ \A i \in 1 .. L - 1 : stack'[i] = stack[i]
  BY StackFacts DEF VisitDone
<1> HIDE DEF t
<1>3. DepsOK' /\ Nodes' = Nodes
  BY <1>1 DEF SortIInv, DepsOK, Nodes
<1>4. ScheduleTypeOK'
  BY <1>0, <1>1, <1>2, <1>3, SMTT(30) DEF SortIInv, ScheduleTypeOK
<1>5. /\ stack \in Seq(Nodes) /\ order \in Seq(Nodes) /\ Len(order) \in Nat
      /\ Len(order') = Len(order) + 1 /\ order'[Len(order) + 1] = t
      /\ \A i \in 1 .. Len(order) : order'[i] = order[i]
      /\ color \in [Nodes -> {"WHITE", "GRAY", "BLACK"}]
  BY <1>0, <1>1 DEF SortIInv, ScheduleTypeOK
<1>6. color[t] = "GRAY" /\ ~InOrder(t)
  BY <1>0 DEF SortIInv, ColorInv, OnStack
<1>7. \A n \in Nodes : InOrder(n)' <=> (InOrder(n) \/ n = t)
  <2>1. SUFFICES ASSUME NEW n \in Nodes
                 PROVE  (\E i \in 1 .. Len(order') : order'[i] = n)
                          <=> ((\E i \in 1 .. Len(order) : order[i] = n) \/ n = t)
    BY DEF InOrder
  <2>2. 1 .. Len(order') = 1 .. Len(order) \cup {Len(order) + 1}
    BY <1>5
  <2>3. QED
    BY <1>5, <2>2
<1>8. \A n \in Nodes : OnStack(n)' <=> (OnStack(n) /\ n # t)
  <2>1. SUFFICES ASSUME NEW n \in Nodes
                 PROVE  (\E i \in 1 .. Len(stack') : stack'[i] = n)
                          <=> ((\E i \in 1 .. L : stack[i] = n) /\ n # t)
    BY DEF OnStack
  <2>2. 1 .. L = 1 .. Len(stack') \cup {L} /\ L \notin 1 .. Len(stack')
    BY <1>0, <1>2
  <2>3. \A i \in 1 .. Len(stack') : stack[i] # t
    BY <1>0, <1>2, <2>2 DEF SortIInv, ColorInv
  <2>4. QED
    BY <1>0, <1>2, <2>2, <2>3
<1>9. \A n \in Nodes : color'[n] = IF n = t THEN "BLACK" ELSE color[n]
  BY <1>0, <1>1, <1>5
<1>10. ColorInv'
  <2>1. \A i, k \in 1 .. Len(stack') : stack'[i] = stack'[k] => i = k
    BY <1>0, <1>2 DEF SortIInv, ColorInv
  <2>2. \A i, k \in 1 .. Len(order') : order'[i] = order'[k] => i = k
    BY <1>5, <1>6, SMTT(30) DEF SortIInv, ColorInv, InOrder
  <2>3. QED
    BY <1>3, <1>6, <1>7, <1>8, <1>9, <2>1, <2>2 DEF SortIInv, ColorInv
<1>11. PathInv'
  BY <1>0, <1>1, <1>2 DEF SortIInv, PathInv
<1>12. CursorInv'
  BY <1>1, <1>3 DEF SortIInv, CursorInv
<1>13. DoneInv'
  <2>0. cursor' = cursor /\ deps' = deps
    BY <1>1
  <2>1. SUFFICES ASSUME NEW n \in Nodes, NEW k \in 1 .. cursor[n] - 1
                 PROVE  \/ color'[deps[n][k]] = "BLACK"
                        \/ \E i \in 1 .. Len(stack') - 1 :
                             stack'[i] = n /\ stack'[i + 1] = deps[n][k]
    BY <1>3, <2>0 DEF DoneInv
  <2>2. deps[n][k] \in Nodes
    BY BehindFacts
  <2>3. CASE color[deps[n][k]] = "BLACK"
    BY <1>9, <2>2, <2>3
  <2>4. ASSUME NEW i \in 1 .. Len(stack) - 1, stack[i] = n, stack[i + 1] = deps[n][k]
        PROVE  \/ color'[deps[n][k]] = "BLACK"
               \/ \E j \in 1 .. Len(stack') - 1 :
                    stack'[j] = n /\ stack'[j + 1] = deps[n][k]
    <3>1. CASE i = L - 1
      BY <1>0, <1>9, <2>2, <2>4, <3>1
    <3>2. CASE i # L - 1
      <4>1. i \in 1 .. Len(stack') - 1 /\ stack'[i] = n /\ stack'[i + 1] = deps[n][k]
        BY <1>0, <1>2, <2>4, <3>2
      <4>2. QED
        BY <4>1
    <3>3. QED
      BY <3>1, <3>2
  <2>5. QED
    BY <2>3, <2>4 DEF SortIInv, DoneInv
<1>14. OrderInv'
  <2>1. SUFFICES ASSUME NEW i \in 1 .. Len(order'), NEW k \in 1 .. Len(deps[order'[i]])
                 PROVE  \E j \in 1 .. i - 1 : order'[j] = deps[order'[i]][k]
    BY <1>1 DEF OrderInv
  <2>2. CASE i = Len(order) + 1
    <3>1. order'[i] = t /\ k \in 1 .. cursor[t] - 1 /\ deps[t][k] \in Nodes
      BY <1>0, <1>5, <2>2, BehindFacts
    <3>2. ~ \E j \in 1 .. Len(stack) - 1 : stack[j] = t
      BY <1>0 DEF SortIInv, ColorInv
    <3>3. color[deps[t][k]] = "BLACK"
      BY <1>0, <3>1, <3>2 DEF SortIInv, DoneInv
    <3>4. InOrder(deps[t][k])
      BY <3>1, <3>3 DEF SortIInv, ColorInv
    <3>5. QED
      BY <1>5, <2>2, <3>1, <3>4 DEF InOrder
  <2>3. CASE i # Len(order) + 1
    <3>1. i \in 1 .. Len(order) /\ order'[i] = order[i]
      BY <1>5, <2>3
    <3>2. PICK j \in 1 .. i - 1 : order[j] = deps[order[i]][k]
      BY <3>1 DEF SortIInv, OrderInv
    <3>3. order'[j] = order[j]
      BY <1>5, <3>1
    <3>4. QED
      BY <3>1, <3>2, <3>3
  <2>4. QED
    BY <2>2, <2>3
<1>15. DoneMeansAll' /\ CycleIsReal'
  BY <1>0, <1>1 DEF SortIInv, DoneMeansAll, Sorted, CycleIsReal
<1>16. QED
  BY <1>3, <1>4, <1>10, <1>11, <1>12, <1>13, <1>14, <1>15 DEF SortIInv

\* The sort does not go on once it has ended: the other steps leave it alone.
LEMMA StepAfterSort ==
  ASSUME SortIInv,
         \/ SortDone \/ BuildWaves \/ PushNode \/ PlanDone \/ UNCHANGED schedVars
  PROVE  SortIInv'
<1>1. /\ UNCHANGED <<deps, color, stack, cursor, order, report, level>>
      /\ Sorted' => stack = <<>> /\ \A n \in Nodes : color[n] # "WHITE"
      /\ phase' = "cycle" => phase = "cycle"
      /\ phase' \in {"sort", "levels", "waves", "planned", "cycle"}
  BY DEF SortIInv, ScheduleTypeOK, DoneMeansAll, SortDone, BuildWaves, PushNode, PlanDone,
         schedVars, sortVars, Sorted
<1>2. DepsOK' /\ Nodes' = Nodes
  BY <1>1 DEF SortIInv, DepsOK, Nodes
<1>3. ScheduleTypeOK' /\ DoneMeansAll'
  BY <1>1, <1>2 DEF SortIInv, ScheduleTypeOK, DoneMeansAll
<1>4. ColorInv' /\ PathInv' /\ CursorInv'
  BY <1>1, <1>2 DEF SortIInv, ColorInv, OnStack, InOrder, PathInv, CursorInv
<1>5. DoneInv'
  BY <1>1, <1>2 DEF SortIInv, DoneInv
<1>6. OrderInv'
  BY <1>1 DEF SortIInv, OrderInv
<1>7. CycleIsReal'
  BY <1>1 DEF SortIInv, CycleIsReal, Edge
<1>8. QED
  BY <1>2, <1>3, <1>4, <1>5, <1>6, <1>7 DEF SortIInv

\* The least level above a finite set of levels: above each, and just above one.
LEMMA AboveFacts ==
  ASSUME NEW S \in SUBSET Nat, NEW b \in Nat, \A x \in S : x <= b
  PROVE  /\ Above(S) \in Nat
         /\ \A x \in S : x < Above(S)
         /\ Above(S) > 0 => Above(S) - 1 \in S
<1>1. CASE S = {}
  BY <1>1 DEF Above
<1>2. CASE S # {}
  <2>1. \E m \in S : \A l \in S : l <= m
    BY <1>2, GreatestNat
  <2> DEFINE m == CHOOSE m \in S : \A l \in S : l <= m
  <2>2. m \in S /\ \A l \in S : l <= m
    BY <2>1
  <2> HIDE DEF m
  <2>3. Above(S) = 1 + m
    BY <1>2 DEF Above, m
  <2>4. QED
    BY <2>2, <2>3
<1>3. QED
  BY <1>1, <1>2

-----------------------------------------------------------------------------
(* Levels.                                                                 *)

\* Conflicts go both ways (SystemAccess::conflicts is symmetric).
LEMMA ConflictsSymmetric ==
  ASSUME NEW a, NEW b
  PROVE  conflicts(a, b) <=> conflicts(b, a)
  BY DEF conflicts

\* One turn of access_waves' first loop.
LEMMA StepLevel ==
  ASSUME SortIInv, LevelIInv, AssignLevel
  PROVE  SortIInv' /\ LevelIInv'
<1> DEFINE q == levelled + 1
           node == order[q]
           below == {level[deps[node][k]] : k \in 1 .. Len(deps[node])}
           before == {level[order[p]] : p \in
                        {r \in 1 .. levelled : conflicts(access[node], access[order[r]])}}
           v == Above(below \cup before)
<1>1. /\ phase = "levels" /\ levelled < Len(order)
      /\ level' = [level EXCEPT ![node] = v]
      /\ levelled' = q
      /\ UNCHANGED <<deps, access, phase, color, stack, cursor, order, report, grouped, waves>>
  BY DEF AssignLevel, sortVars
<1>2. /\ order \in Seq(Nodes) /\ levelled \in Nat /\ Len(order) \in Nat
      /\ q \in 1 .. Len(order) /\ node \in Nodes
      /\ level \in [Nodes -> Nat]
      /\ \A n \in Nodes : level[n] <= levelled
  BY <1>1 DEF SortIInv, ScheduleTypeOK, LevelIInv
<1>3. deps[node] \in Seq(Nodes) /\ \A k \in 1 .. Len(deps[node]) : deps[node][k] \in Nodes
  BY <1>2, SMTT(30) DEF SortIInv, DepsOK
<1>4. \A p \in 1 .. levelled : order[p] \in Nodes /\ order[p] # node
  BY <1>2 DEF SortIInv, ColorInv
<1>5. below \cup before \in SUBSET Nat /\ \A x \in below \cup before : x <= levelled
  BY <1>2, <1>3, <1>4
<1>6. /\ v \in Nat
      /\ \A x \in below \cup before : x < v
      /\ v > 0 => v - 1 \in below \cup before
  <2> HIDE DEF below, before
  <2>1. QED
    BY <1>2, <1>5, AboveFacts
<1>7. v <= q
  <2> HIDE DEF v, below, before
  <2>1. v > 0 => v - 1 <= levelled
    BY <1>5, <1>6
  <2>2. QED
    BY <1>2, <1>6, <2>1
<1> HIDE DEF v
<1>8. level' \in [Nodes -> Nat] /\ \A n \in Nodes : level'[n] = IF n = node THEN v ELSE level[n]
  BY <1>1, <1>2, <1>6
<1>9. DepsOK' /\ Nodes' = Nodes
  BY <1>1 DEF SortIInv, DepsOK, Nodes
<1>10. SortIInv'
  <2>1. ScheduleTypeOK' /\ DoneMeansAll'
    BY <1>1, <1>8, <1>9 DEF SortIInv, ScheduleTypeOK, DoneMeansAll, Sorted
  <2>2. ColorInv' /\ PathInv' /\ CursorInv'
    BY <1>1, <1>9 DEF SortIInv, ColorInv, OnStack, InOrder, PathInv, CursorInv
  <2>3. DoneInv'
    BY <1>1, <1>9 DEF SortIInv, DoneInv
  <2>4. OrderInv'
    BY <1>1 DEF SortIInv, OrderInv
  <2>5. CycleIsReal'
    BY <1>1 DEF CycleIsReal
  <2>6. QED
    BY <1>9, <2>1, <2>2, <2>3, <2>4, <2>5 DEF SortIInv
<1>11. \A n \in Nodes : level'[n] <= levelled'
  <2>1. q \in Nat /\ levelled < q
    BY <1>2
  <2>2. QED
    BY <1>1, <1>2, <1>6, <1>7, <1>8, <2>1
<1>12. \A n, m : Tied(n, m)' <=> Tied(n, m)
  BY <1>1 DEF Tied, Edge
<1>13. \A p \in 1 .. levelled : Tied(node, order[p]) => level[order[p]] \in below \cup before
  BY <1>3 DEF Tied, Edge
<1>14. \A x \in below \cup before : \E p \in 1 .. levelled :
         Tied(node, order[p]) /\ x = level[order[p]]
  <2>1. ASSUME NEW x \in below
        PROVE  \E p \in 1 .. levelled : Tied(node, order[p]) /\ x = level[order[p]]
    <3>1. PICK k \in 1 .. Len(deps[node]) : x = level[deps[node][k]]
      OBVIOUS
    <3>2. PICK p \in 1 .. q - 1 : order[p] = deps[node][k]
      BY <1>2 DEF SortIInv, OrderInv
    <3>3. p \in 1 .. levelled
      BY <1>2, <3>2
    <3>4. Tied(node, order[p])
      BY <3>1, <3>2 DEF Tied, Edge
    <3>5. QED
      BY <3>1, <3>2, <3>3, <3>4
  <2>2. ASSUME NEW x \in before
        PROVE  \E p \in 1 .. levelled : Tied(node, order[p]) /\ x = level[order[p]]
    BY DEF Tied
  <2>3. QED
    BY <2>1, <2>2
<1> HIDE DEF below, before, node
<1>15. \A p \in 1 .. levelled : level'[order[p]] = level[order[p]]
  BY <1>4, <1>8
<1>16. LevelsSafe'
  <2>1. SUFFICES ASSUME NEW r \in 1 .. q, NEW p \in 1 .. r - 1, Tied(order[r], order[p])
                 PROVE  level'[order[p]] < level'[order[r]]
    BY <1>1, <1>12 DEF LevelsSafe
  <2>2. CASE r = q
    BY <1>2, <1>6, <1>8, <1>13, <1>15, <2>1, <2>2, SMTT(30) DEF node
  <2>3. CASE r # q
    BY <1>2, <1>15, <2>1, <2>3 DEF LevelIInv, LevelsSafe
  <2>4. QED
    BY <2>2, <2>3
<1>17. LevelsTight'
  <2>1. SUFFICES ASSUME NEW r \in 1 .. q, level'[order[r]] > 0
                 PROVE  \E p \in 1 .. r - 1 : /\ Tied(order[r], order[p])
                                              /\ level'[order[p]] + 1 = level'[order[r]]
    BY <1>1, <1>12 DEF LevelsTight
  <2>2. CASE r = q
    <3>1. order[r] = node /\ level'[node] = v /\ v > 0
      BY <1>2, <1>8, <2>1, <2>2 DEF node
    <3>2. PICK p \in 1 .. levelled : Tied(node, order[p]) /\ v - 1 = level[order[p]]
      BY <1>6, <1>14, <3>1
    <3>a. p \in 1 .. r - 1
      BY <1>2, <2>2
    <3>b. level'[order[p]] = v - 1
      BY <1>15, <3>2
    <3>3. p \in 1 .. r - 1 /\ level'[order[p]] + 1 = v
      BY <1>6, <3>a, <3>b
    <3>4. QED
      BY <3>1, <3>2, <3>3
  <2>3. CASE r # q
    <3>1. r \in 1 .. levelled /\ level[order[r]] > 0
      BY <1>2, <1>15, <2>1, <2>3
    <3>2. PICK p \in 1 .. r - 1 : Tied(order[r], order[p]) /\ level[order[p]] + 1 = level[order[r]]
      BY <3>1 DEF LevelIInv, LevelsTight
    <3>3. p \in 1 .. levelled
      BY <1>2, <3>1
    <3>4. level'[order[p]] = level[order[p]] /\ level'[order[r]] = level[order[r]]
      BY <1>15, <3>1, <3>3
    <3>5. QED
      BY <3>2, <3>4
  <2>4. QED
    BY <2>2, <2>3
<1>18. levelled' \in 0 .. Len(order')
  BY <1>1, <1>2
<1>19. phase' = "levels"
  BY <1>1
<1>20. QED
  BY <1>9, <1>10, <1>11, <1>16, <1>17, <1>18, <1>19 DEF LevelIInv

\* The sort's steps come before any level is given.
LEMMA LevelsDuringSort ==
  ASSUME SortIInv, LevelIInv,
         phase = "sort", phase' \in {"sort", "cycle", "levels"},
         UNCHANGED <<deps, access, level, levelled>>,
         Len(order') \in Nat
  PROVE  LevelIInv'
<1>1. levelled = 0 /\ levelled' = 0 /\ Nodes' = Nodes
  BY DEF LevelIInv, Nodes
<1>2. LevelsSafe' /\ LevelsTight'
  BY <1>1 DEF LevelsSafe, LevelsTight
<1>3. \A n \in Nodes : level'[n] <= levelled'
  BY DEF LevelIInv
<1>4. QED
  BY <1>1, <1>2, <1>3 DEF LevelIInv

\* And no later step changes one.
LEMMA LevelsAfterwards ==
  ASSUME SortIInv, LevelIInv, BuildWaves \/ PushNode \/ PlanDone \/ UNCHANGED schedVars
  PROVE  LevelIInv'
<1>1. /\ UNCHANGED <<deps, access, order, level, levelled>>
      /\ phase' \in {"sort", "cycle"} => phase \in {"sort", "cycle"}
      /\ phase' \in {"waves", "planned"} => levelled = Len(order)
  BY DEF BuildWaves, PushNode, PlanDone, schedVars, sortVars, LevelIInv
<1>2. Nodes' = Nodes
  BY <1>1 DEF Nodes
<1>3. LevelsSafe' /\ LevelsTight'
  BY <1>1 DEF LevelIInv, LevelsSafe, LevelsTight, Tied, Edge
<1>4. QED
  BY <1>1, <1>2, <1>3 DEF LevelIInv

\* The invariant of the sort and of the levels is inductive.
LEMMA PlanInductive ==
  ASSUME SortIInv, LevelIInv, [PlanStep]_schedVars
  PROVE  SortIInv' /\ LevelIInv'
<1>1. ASSUME NEW n \in Nodes, VisitStart(n)
      PROVE  SortIInv' /\ LevelIInv'
  <2>1. SortIInv'
    BY <1>1, StepStart
  <2>2. QED
    BY <1>1, <2>1, LevelsDuringSort DEF VisitStart, SortIInv, ScheduleTypeOK
<1>2. CASE VisitWhite
  <2>1. SortIInv'
    BY <1>2, StepWhite
  <2>2. QED
    BY <1>2, <2>1, LevelsDuringSort, SMTT(30) DEF VisitWhite, AtDep, SortIInv, ScheduleTypeOK
<1>3. CASE VisitBlack
  <2>1. SortIInv'
    BY <1>3, StepBlack
  <2>2. QED
    BY <1>3, <2>1, LevelsDuringSort, SMTT(30) DEF VisitBlack, AtDep, SortIInv, ScheduleTypeOK
<1>4. CASE VisitGray
  <2>1. SortIInv'
    BY <1>4, StepGray
  <2>2. QED
    BY <1>4, <2>1, LevelsDuringSort, SMTT(30) DEF VisitGray, AtDep, SortIInv, ScheduleTypeOK
<1>5. CASE VisitDone
  <2>1. SortIInv'
    BY <1>5, StepDone
  <2>2. Len(order') \in Nat
    BY <2>1 DEF SortIInv, ScheduleTypeOK
  <2>3. phase' \in {"sort", "cycle", "levels"}
    BY <1>5 DEF VisitDone
  <2>4. QED
    BY <1>5, <2>1, <2>2, <2>3, LevelsDuringSort DEF VisitDone
<1>6. CASE SortDone
  <2>1. SortIInv'
    BY <1>6, StepAfterSort
  <2>2. QED
    BY <1>6, <2>1, LevelsDuringSort DEF SortDone, SortIInv, ScheduleTypeOK
<1>7. CASE AssignLevel
  BY <1>7, StepLevel
<1>8. CASE BuildWaves \/ PushNode \/ PlanDone \/ UNCHANGED schedVars
  BY <1>8, StepAfterSort, LevelsAfterwards
<1>9. QED
  BY <1>1, <1>2, <1>3, <1>4, <1>5, <1>6, <1>7, <1>8 DEF PlanStep

\* Planning starts with both.
LEMMA PlanStarts ==
  ASSUME NEW d, NEW a, StartSort(d, a),
         Len(d) \in Nat, d \in [1 .. Len(d) -> Seq(1 .. Len(d))]
  PROVE  SortIInv /\ LevelIInv
<1>1. SortIInv
  BY SortStart
<1>2. LevelIInv
  BY DEF StartSort, LevelIInv, LevelsSafe, LevelsTight, Nodes
<1>3. QED
  BY <1>1, <1>2

\* What the property says of the sort follows.
LEMMA SortInvFollows ==
  ASSUME SortIInv
  PROVE  SortInv
<1>1. GrayIsOnStack
  BY DEF SortIInv, ColorInv, OnStack, GrayIsOnStack
<1>2. ASSUME Sorted
      PROVE  /\ \A n \in Nodes : \E i \in 1 .. Len(order) : order[i] = n
             /\ \A m, n \in Nodes : Edge(n, m) => Before(m, n)
  <2>1. \A n \in Nodes : InOrder(n)
    <3>1. SUFFICES ASSUME NEW n \in Nodes PROVE InOrder(n)
      OBVIOUS
    <3>2. color[n] # "WHITE" /\ ~OnStack(n)
      BY <1>2 DEF SortIInv, DoneMeansAll, OnStack
    <3>3. color[n] = "BLACK"
      BY <3>2 DEF SortIInv, ScheduleTypeOK, ColorInv
    <3>4. QED
      BY <3>3 DEF SortIInv, ColorInv
  <2>2. ASSUME NEW m \in Nodes, NEW n \in Nodes, Edge(n, m)
        PROVE  Before(m, n)
    <3>1. PICK i \in 1 .. Len(order) : order[i] = n
      BY <2>1 DEF InOrder
    <3>2. PICK k \in 1 .. Len(deps[n]) : deps[n][k] = m
      BY <2>2 DEF Edge
    <3>3. PICK j \in 1 .. i - 1 : order[j] = m
      BY <3>1, <3>2 DEF SortIInv, OrderInv
    <3>4. j \in 1 .. Len(order) /\ j < i
      BY <3>1 DEF SortIInv, ScheduleTypeOK
    <3>5. QED
      BY <3>1, <3>3, <3>4 DEF Before
  <2>3. QED
    BY <2>1, <2>2 DEF InOrder
<1>3. OrderIsTopological
  BY <1>2 DEF OrderIsTopological, SortIInv, ColorInv
<1>4. QED
  BY <1>1, <1>3 DEF SortInv, SortIInv

\* toposort, for every registry: the order is topological, an error names a
\* real cycle, and the `expect` of visit cannot fail.
THEOREM SortIsCorrect == ScheduleSpec => []SortInv
<1>1. ScheduleInit => SortIInv /\ LevelIInv
  BY RegistriesAssumption, PlanStarts DEF ScheduleInit
<1>2. SortIInv /\ LevelIInv /\ [PlanStep]_schedVars => SortIInv' /\ LevelIInv'
  BY PlanInductive
<1>3. SortIInv => SortInv
  BY SortInvFollows
<1>4. QED
  BY <1>1, <1>2, <1>3, PTL DEF ScheduleSpec

-----------------------------------------------------------------------------
(* Waves.                                                                  *)

\* The number of waves: above every level, and right above one if any.
LEMMA WaveCount ==
  ASSUME SortIInv, LevelIInv
  PROVE  LET c == Above({level[n] : n \in Nodes}) IN
         /\ c \in Nat
         /\ \A n \in Nodes : level[n] \in Nat /\ level[n] < c
         /\ c > 0 => \E n \in Nodes : level[n] = c - 1
<1> DEFINE S == {level[n] : n \in Nodes}
<1>1. level \in [Nodes -> Nat] /\ levelled \in Nat /\ \A n \in Nodes : level[n] <= levelled
  BY DEF SortIInv, ScheduleTypeOK, LevelIInv
<1>2. S \in SUBSET Nat /\ \A x \in S : x <= levelled
  BY <1>1
<1> HIDE DEF S
<1>3. Above(S) \in Nat /\ (\A x \in S : x < Above(S)) /\ (Above(S) > 0 => Above(S) - 1 \in S)
  BY <1>1, <1>2, AboveFacts
<1>4. QED
  BY <1>1, <1>3 DEF S

\* One empty wave for each level.
LEMMA StepBuild ==
  ASSUME SortIInv, LevelIInv, WaveIInv, BuildWaves
  PROVE  WaveIInv'
<1> DEFINE c == Above({level[n] : n \in Nodes})
<1>1. c \in Nat
  BY WaveCount
<1>2. /\ waves' = [w \in 1 .. c |-> <<>>]
      /\ phase' = "waves" /\ grouped' = 0
      /\ UNCHANGED <<deps, order, level>>
  BY DEF BuildWaves, WaveIInv, sortVars
<1>3. Nodes' = Nodes /\ c' = c
  BY <1>2 DEF Nodes
<1> HIDE DEF c
<1>4. waves' \in Seq(Seq(Nodes)) /\ Len(waves') = c /\ \A w \in 1 .. c : waves'[w] = <<>>
  BY <1>1, <1>2
<1>5. Len(order) \in Nat
  BY DEF SortIInv, ScheduleTypeOK
<1>6. Len(waves') = Above({level'[n] : n \in Nodes'})
  BY <1>3, <1>4 DEF c
<1>7. grouped' = 0 /\ phase' = "waves" /\ 0 \in 0 .. Len(order')
  BY <1>2, <1>5
<1>8. \A w \in 1 .. Len(waves') : Len(waves'[w]) = 0
  BY <1>4
<1>9. waves' \in Seq(Seq(Nodes'))
  BY <1>3, <1>4
<1>10. /\ \A w \in 1 .. Len(waves') : 1 .. Len(waves'[w]) = {}
       /\ 1 .. grouped' = {}
  BY <1>7, <1>8
<1>11. /\ \A w \in 1 .. Len(waves') : \A i \in 1 .. Len(waves'[w]) :
            /\ level'[waves'[w][i]] = w - 1
            /\ \E p \in 1 .. grouped' : order'[p] = waves'[w][i]
       /\ \A w \in 1 .. Len(waves') : \A i, k \in 1 .. Len(waves'[w]) :
            i < k => Before(waves[w][i], waves[w][k])'
       /\ \A p \in 1 .. grouped' : \E i \in 1 .. Len(waves'[level'[order'[p]] + 1]) :
            waves'[level'[order'[p]] + 1][i] = order'[p]
  BY <1>10
<1>12. QED
  BY <1>6, <1>7, <1>9, <1>11 DEF WaveIInv

\* A node goes to the end of the wave of its level.
LEMMA StepPush ==
  ASSUME SortIInv, LevelIInv, WaveIInv, PushNode
  PROVE  WaveIInv'
<1> DEFINE c == Above({level[n] : n \in Nodes})
           g == grouped + 1
           node == order[g]
           x == level[node] + 1
<1>1. /\ phase = "waves" /\ phase' = "waves" /\ grouped < Len(order) /\ grouped' = g
      /\ waves' = [waves EXCEPT ![x] = Append(@, node)]
      /\ UNCHANGED <<deps, order, level>>
  BY DEF PushNode, sortVars
<1>2. /\ grouped \in Nat /\ order \in Seq(Nodes) /\ Len(order) \in Nat
      /\ g \in 1 .. Len(order) /\ node \in Nodes
      /\ Len(waves) = c /\ waves \in Seq(Seq(Nodes))
  BY <1>1 DEF WaveIInv, SortIInv, ScheduleTypeOK
<1>3. x \in 1 .. c
  BY <1>2, WaveCount
<1>4. Nodes' = Nodes /\ c' = c
  BY <1>1 DEF Nodes
<1> HIDE DEF c, node, x
<1>5. /\ waves[x] \in Seq(Nodes) /\ Len(waves[x]) \in Nat
      /\ Append(waves[x], node) \in Seq(Nodes)
      /\ Len(Append(waves[x], node)) = Len(waves[x]) + 1
      /\ Append(waves[x], node)[Len(waves[x]) + 1] = node
      /\ \A i \in 1 .. Len(waves[x]) : Append(waves[x], node)[i] = waves[x][i]
  BY <1>2, <1>3
<1>6. /\ waves' \in Seq(Seq(Nodes)) /\ Len(waves') = c
      /\ waves'[x] = Append(waves[x], node)
      /\ \A w \in 1 .. c : w # x => waves'[w] = waves[w]
  BY <1>1, <1>2, <1>3, <1>5
<1>7. ASSUME NEW w \in 1 .. c
      PROVE  /\ Len(waves[w]) \in Nat
             /\ \A i \in 1 .. Len(waves[w]) :
                  i \in 1 .. Len(waves'[w]) /\ waves'[w][i] = waves[w][i]
             /\ \A i \in 1 .. Len(waves'[w]) :
                  \/ i \in 1 .. Len(waves[w]) /\ waves'[w][i] = waves[w][i]
                  \/ w = x /\ i = Len(waves[w]) + 1 /\ waves'[w][i] = node
  <2>1. CASE w = x
    BY <1>5, <1>6, <2>1, SMTT(30)
  <2>2. CASE w # x
    BY <1>2, <1>6, <2>2
  <2>3. QED
    BY <2>1, <2>2
<1>8. \A w \in 1 .. c : \A i \in 1 .. Len(waves'[w]) :
        level[waves'[w][i]] = w - 1 /\ \E p \in 1 .. g : order[p] = waves'[w][i]
  <2>1. SUFFICES ASSUME NEW w \in 1 .. c, NEW i \in 1 .. Len(waves'[w])
                 PROVE  level[waves'[w][i]] = w - 1 /\ \E p \in 1 .. g : order[p] = waves'[w][i]
    OBVIOUS
  <2>2. CASE i \in 1 .. Len(waves[w]) /\ waves'[w][i] = waves[w][i]
    <3>1. level[waves[w][i]] = w - 1 /\ \E p \in 1 .. grouped : order[p] = waves[w][i]
      BY <1>1, <1>2, <2>2 DEF WaveIInv
    <3>2. 1 .. grouped \subseteq 1 .. g
      BY <1>2
    <3>3. QED
      BY <2>2, <3>1, <3>2
  <2>3. CASE w = x /\ waves'[w][i] = node
    <3>1. level[node] = x - 1
      BY <1>2 DEF x, SortIInv, ScheduleTypeOK
    <3>2. g \in 1 .. g /\ order[g] = node
      BY <1>2 DEF node
    <3>3. QED
      BY <2>3, <3>1, <3>2
  <2>4. QED
    BY <1>7, <2>2, <2>3
<1>10. \A w \in 1 .. c : \A i, k \in 1 .. Len(waves'[w]) :
         i < k => Before(waves'[w][i], waves'[w][k])
  <2>1. SUFFICES ASSUME NEW w \in 1 .. c, NEW i \in 1 .. Len(waves'[w]),
                        NEW k \in 1 .. Len(waves'[w]), i < k
                 PROVE  Before(waves'[w][i], waves'[w][k])
    OBVIOUS
  <2>2. CASE k \in 1 .. Len(waves[w]) /\ waves'[w][k] = waves[w][k]
    <3>1. i \in 1 .. Len(waves[w]) /\ waves'[w][i] = waves[w][i]
      BY <1>7, <2>1, <2>2
    <3>2. QED
      BY <1>1, <1>2, <2>1, <2>2, <3>1 DEF WaveIInv
  <2>3. CASE w = x /\ k = Len(waves[w]) + 1 /\ waves'[w][k] = node
    <3>1. i \in 1 .. Len(waves[w]) /\ waves'[w][i] = waves[w][i]
      BY <1>7, <2>1, <2>3
    <3>2. PICK p \in 1 .. grouped : order[p] = waves[w][i]
      BY <1>1, <1>2, <3>1 DEF WaveIInv
    <3>3. p \in 1 .. Len(order) /\ p < g /\ order[g] = node
      BY <1>2 DEF node
    <3>4. QED
      BY <1>2, <2>3, <3>1, <3>2, <3>3 DEF Before
  <2>4. QED
    BY <1>7, <2>2, <2>3
<1>11. \A p \in 1 .. g : \E i \in 1 .. Len(waves'[level[order[p]] + 1]) :
         waves'[level[order[p]] + 1][i] = order[p]
  <2>1. SUFFICES ASSUME NEW p \in 1 .. g
                 PROVE  \E i \in 1 .. Len(waves'[level[order[p]] + 1]) :
                          waves'[level[order[p]] + 1][i] = order[p]
    OBVIOUS
  <2>2. CASE p = g
    <3>1. level[order[p]] + 1 = x /\ order[p] = node
      BY <2>2 DEF x, node
    <3>2. QED
      BY <1>5, <1>6, <3>1
  <2>3. CASE p # g
    <3>1. p \in 1 .. grouped /\ order[p] \in Nodes
      BY <1>2, <2>3
    <3>2. level[order[p]] + 1 \in 1 .. c
      BY <3>1, WaveCount DEF c
    <3>3. \E i \in 1 .. Len(waves[level[order[p]] + 1]) : waves[level[order[p]] + 1][i] = order[p]
      BY <1>1, <3>1 DEF WaveIInv
    <3>4. QED
      BY <1>7, <3>2, <3>3
  <2>4. QED
    BY <2>2, <2>3
<1>12. g \in 0 .. Len(order)
  BY <1>2
<1>13. Len(waves') = Above({level'[n] : n \in Nodes'}) /\ waves' \in Seq(Seq(Nodes'))
  BY <1>4, <1>6 DEF c
<1>14. /\ grouped' = g /\ order' = order /\ level' = level /\ Len(waves') = c
       /\ phase' = "waves"
  BY <1>1, <1>6
<1> HIDE DEF g
<1>15. \A w \in 1 .. Len(waves') : \A i, k \in 1 .. Len(waves'[w]) :
         i < k => Before(waves[w][i], waves[w][k])'
  BY <1>10, <1>14 DEF Before
<1>16. \A w \in 1 .. Len(waves') : \A i \in 1 .. Len(waves'[w]) :
         /\ level'[waves'[w][i]] = w - 1
         /\ \E p \in 1 .. grouped' : order'[p] = waves'[w][i]
  BY <1>8, <1>14
<1>17. \A p \in 1 .. grouped' : \E i \in 1 .. Len(waves'[level'[order'[p]] + 1]) :
            waves'[level'[order'[p]] + 1][i] = order'[p]
  BY <1>11, <1>14
<1>18. grouped' \in 0 .. Len(order')
  BY <1>12, <1>14
<1>19. QED
  BY <1>13, <1>14, <1>15, <1>16, <1>17, <1>18 DEF WaveIInv

\* No other step touches the waves.
LEMMA WavesOtherwise ==
  ASSUME SortIInv, LevelIInv, WaveIInv, [PlanStep]_schedVars, ~BuildWaves, ~PushNode
  PROVE  WaveIInv'
<1>1. CASE phase \in {"waves", "planned"}
  <2>1. /\ UNCHANGED <<deps, order, level, grouped, waves>>
        /\ phase' \in {"waves", "planned"}
        /\ phase' = "planned" => grouped = Len(order)
    BY <1>1 DEF PlanStep, VisitStart, VisitWhite, VisitBlack, VisitGray, AtDep, VisitDone,
                SortDone, AssignLevel, PlanDone, schedVars, sortVars, WaveIInv
  <2>2. Nodes' = Nodes
    BY <2>1 DEF Nodes
  <2>3. Len(waves') = Above({level'[n] : n \in Nodes'}) /\ waves' \in Seq(Seq(Nodes'))
    BY <1>1, <2>1, <2>2 DEF WaveIInv
  <2>4. \A w \in 1 .. Len(waves') : \A i, k \in 1 .. Len(waves'[w]) :
          i < k => Before(waves[w][i], waves[w][k])'
    <3>1. \A w \in 1 .. Len(waves) : \A i, k \in 1 .. Len(waves[w]) :
            i < k => Before(waves[w][i], waves[w][k])
      BY <1>1 DEF WaveIInv
    <3>2. waves' = waves /\ order' = order
      BY <2>1
    <3>3. ASSUME NEW w \in 1 .. Len(waves'), NEW i \in 1 .. Len(waves'[w]),
                 NEW k \in 1 .. Len(waves'[w]), i < k
          PROVE  Before(waves[w][i], waves[w][k])'
      <4>1. Before(waves[w][i], waves[w][k])
        BY <3>1, <3>2, <3>3
      <4>2. PICK p \in 1 .. Len(order), q \in 1 .. Len(order) :
              p < q /\ order[p] = waves[w][i] /\ order[q] = waves[w][k]
        BY <4>1 DEF Before
      <4>3. QED
        BY <3>2, <4>2 DEF Before
    <3>4. QED
      BY <3>3
  <2>5. /\ \A w \in 1 .. Len(waves') : \A i \in 1 .. Len(waves'[w]) :
             /\ level'[waves'[w][i]] = w - 1
             /\ \E p \in 1 .. grouped' : order'[p] = waves'[w][i]
        /\ \A p \in 1 .. grouped' : \E i \in 1 .. Len(waves'[level'[order'[p]] + 1]) :
             waves'[level'[order'[p]] + 1][i] = order'[p]
    <3>1. /\ \A w \in 1 .. Len(waves) : \A i \in 1 .. Len(waves[w]) :
               /\ level[waves[w][i]] = w - 1
               /\ \E p \in 1 .. grouped : order[p] = waves[w][i]
          /\ \A p \in 1 .. grouped : \E i \in 1 .. Len(waves[level[order[p]] + 1]) :
               waves[level[order[p]] + 1][i] = order[p]
      BY <1>1 DEF WaveIInv
    <3>2. waves' = waves /\ order' = order /\ level' = level /\ grouped' = grouped
      BY <2>1
    <3>3. ASSUME NEW w \in 1 .. Len(waves'), NEW i \in 1 .. Len(waves'[w])
          PROVE  /\ level'[waves'[w][i]] = w - 1
                 /\ \E p \in 1 .. grouped' : order'[p] = waves'[w][i]
      <4>1. /\ level[waves[w][i]] = w - 1
            /\ \E p \in 1 .. grouped : order[p] = waves[w][i]
        BY <3>1, <3>2
      <4>2. QED
        BY <3>2, <4>1
    <3>4. ASSUME NEW p \in 1 .. grouped'
          PROVE  \E i \in 1 .. Len(waves'[level'[order'[p]] + 1]) :
                   waves'[level'[order'[p]] + 1][i] = order'[p]
      <4>1. \E i \in 1 .. Len(waves[level[order[p]] + 1]) : waves[level[order[p]] + 1][i] = order[p]
        BY <3>1, <3>2
      <4>2. QED
        BY <3>2, <4>1
    <3>5. QED
      BY <3>3, <3>4
  <2>6. grouped' \in 0 .. Len(order') /\ (phase' = "planned" => grouped' = Len(order'))
    BY <2>1 DEF WaveIInv
  <2>7. QED
    BY <2>1, <2>3, <2>4, <2>5, <2>6 DEF WaveIInv
<1>2. CASE ~(phase \in {"waves", "planned"})
  <2>1. SortIInv' /\ Len(order') \in Nat
    BY PlanInductive DEF SortIInv, ScheduleTypeOK
  <2>2. grouped' = grouped /\ ~(phase' \in {"waves", "planned"})
    BY <1>2 DEF PlanStep, VisitStart, VisitWhite, VisitBlack, VisitGray, VisitDone, AtDep,
                SortDone, AssignLevel, PlanDone, schedVars
  <2>3. grouped' = 0 /\ 0 \in 0 .. Len(order')
    BY <1>2, <2>1, <2>2 DEF WaveIInv
  <2>4. QED
    BY <2>2, <2>3 DEF WaveIInv
<1>3. QED
  BY <1>1, <1>2

\* Every level below one that is used is used, so no wave is empty.
LEMMA LevelsHaveNoGap ==
  ASSUME SortIInv, LevelIInv, phase = "planned",
         NEW n \in Nodes
  PROVE  \A l \in Nat : l <= level[n] => \E m \in Nodes : level[m] = l
<1> DEFINE U == {j \in Nat : j <= level[n] => \E m \in Nodes : level[m] = level[n] - j}
<1>0. level \in [Nodes -> Nat]
  BY DEF SortIInv, ScheduleTypeOK
<1>1. 0 \in U
  BY <1>0
<1>2. ASSUME NEW j \in Nat, j \in U
      PROVE  j + 1 \in U
  <2>1. SUFFICES ASSUME j + 1 <= level[n]
                 PROVE  \E m \in Nodes : level[m] = level[n] - (j + 1)
    OBVIOUS
  <2>2. PICK m \in Nodes : level[m] = level[n] - j
    BY <1>0, <1>2, <2>1
  <2>3. PICK q \in 1 .. levelled : order[q] = m
    BY SortInvFollows DEF SortInv, OrderIsTopological, Sorted, LevelIInv
  <2>4. level[order[q]] > 0
    BY <1>0, <2>1, <2>2, <2>3
  <2>5. PICK p \in 1 .. q - 1 : level[order[p]] + 1 = level[order[q]]
    BY <2>4 DEF LevelIInv, LevelsTight
  <2>6. order[p] \in Nodes
    BY <2>3 DEF LevelIInv, SortIInv, ScheduleTypeOK
  <2>7. level[order[p]] = level[n] - (j + 1)
    BY <1>0, <2>2, <2>3, <2>5, <2>6
  <2>8. QED
    BY <2>6, <2>7
<1>3. \A j \in Nat : j \in U
  <2> HIDE DEF U
  <2>1. QED
    BY <1>1, <1>2, SetInduction
<1>4. ASSUME NEW l \in Nat, l <= level[n]
      PROVE  \E m \in Nodes : level[m] = l
  <2>1. level[n] - l \in Nat /\ level[n] - (level[n] - l) = l /\ level[n] - l <= level[n]
    BY <1>0, <1>4
  <2>2. level[n] - l \in U
    BY <1>3, <2>1
  <2>3. QED
    BY <2>1, <2>2
<1>5. QED
  BY <1>4

\* The plan by dependencies alone, computed in sorted order, is nowhere later.
LEMMA DependencyLevelsBelow ==
  ASSUME SortIInv, LevelIInv, phase = "planned"
  PROVE  \A n \in Nodes : DependencyLevels[n] <= level[n]
<1> DEFINE N == Len(order)
           V == {f \in [Nodes -> Nat] : \A n \in Nodes : f[n] <= level[n]}
           Below(f, k) == {f[deps[order[k]][i]] : i \in 1 .. Len(deps[order[k]])}
           Put(f, k) == [f EXCEPT ![order[k]] = Above(Below(f, k))]
           zero == [n \in Nodes |-> 0]
<1>0. /\ N \in Nat /\ level \in [Nodes -> Nat] /\ levelled = N
      /\ \A n \in Nodes : level[n] <= N
      /\ \A k \in 1 .. N : order[k] \in Nodes
  BY DEF SortIInv, ScheduleTypeOK, LevelIInv
<1>1. ASSUME NEW f \in V, NEW k \in 1 .. N
      PROVE  Put(f, k) \in V
  <2> DEFINE node == order[k]
  <2>1. node \in Nodes /\ \A i \in 1 .. Len(deps[node]) : deps[node][i] \in Nodes
    BY <1>0 DEF SortIInv, DepsOK
  <2>2. Below(f, k) \in SUBSET Nat /\ \A x \in Below(f, k) : x <= N
    BY <1>0, <2>1
  <2> DEFINE B == Below(f, k)
  <2>3. Above(B) \in Nat /\ (Above(B) > 0 => Above(B) - 1 \in B)
    <3> HIDE DEF B
    <3>1. B \in SUBSET Nat /\ \A x \in B : x <= N
      BY <2>2 DEF B
    <3>2. QED
      BY <1>0, <3>1, AboveFacts
  <2>4. Above(B) <= level[node]
    <3>1. SUFFICES ASSUME Above(B) > 0 PROVE Above(B) <= level[node]
      BY <1>0, <2>1, <2>3
    <3>2. PICK i \in 1 .. Len(deps[node]) : Above(B) - 1 = f[deps[node][i]]
      BY <2>3, <3>1
    <3>3. PICK j \in 1 .. k - 1 : order[j] = deps[node][i]
      BY DEF SortIInv, OrderInv
    <3>4. level[order[j]] < level[node]
      BY <1>0, <3>3 DEF LevelIInv, LevelsSafe, Tied, Edge
    <3>5. f[order[j]] <= level[order[j]] /\ order[j] \in Nodes /\ f[order[j]] \in Nat
      BY <2>1, <3>3
    <3>6. QED
      BY <1>0, <2>1, <2>3, <3>2, <3>3, <3>4, <3>5
  <2>5. QED
    <3> HIDE DEF B
    <3>1. Put(f, k) = [f EXCEPT ![node] = Above(B)]
      BY DEF B
    <3>2. QED
      BY <2>1, <2>3, <2>4, <3>1
<1> DEFINE G == [k \in 1 .. N |-> [f \in V |-> Put(f, k)]]
           lv[k \in 0 .. N] == IF k = 0 THEN zero ELSE Put(lv[k - 1], k)
<1>2. zero \in V
  BY <1>0
<1>3. G \in [1 .. N -> [V -> V]]
  <2> HIDE DEF V, Put
  <2>1. QED
    BY <1>1
<1>4. \A k \in 1 .. N : \A f \in V : G[k][f] = Put(f, k)
  <2> HIDE DEF V, Put
  <2>1. QED
    OBVIOUS
<1>5. PICK f \in [0 .. N -> V] : f[0] = zero /\ \A k \in 1 .. N : f[k] = G[k][f[k - 1]]
  <2>1. N \in Nat
    BY <1>0
  <2> HIDE DEF V, G, zero, N
  <2>2. QED
    BY <1>2, <1>3, <2>1, RecursionHasSolution
<1>6. f = [k \in 0 .. N |-> IF k = 0 THEN zero ELSE Put(f[k - 1], k)]
  <2> HIDE DEF V, Put, G, zero
  <2>1. \A k \in 1 .. N : f[k - 1] \in V
    BY <1>0, SMTT(30)
  <2>2. \A k \in 1 .. N : f[k] = Put(f[k - 1], k)
    BY <1>4, <1>5, <2>1
  <2>3. \A k \in 0 .. N : k # 0 => k \in 1 .. N
    BY <1>0
  <2>4. QED
    BY <1>5, <2>2, <2>3
<1>7. lv = [k \in 0 .. N |-> IF k = 0 THEN zero ELSE Put(lv[k - 1], k)]
  <2> HIDE DEF Put, zero, V
  <2>1. QED
    BY <1>6
<1>8. DependencyLevels = lv[N]
  BY DEF DependencyLevels
<1> HIDE DEF lv, Put
<1>9. \A k \in Nat : k <= N => lv[k] \in V
  <2> DEFINE W == {k \in Nat : k <= N => lv[k] \in V}
  <2>1. 0 \in W
    BY <1>0, <1>2, <1>7
  <2>2. ASSUME NEW k \in Nat, k \in W PROVE k + 1 \in W
    <3>1. SUFFICES ASSUME k + 1 <= N PROVE lv[k + 1] \in V
      OBVIOUS
    <3>2. k + 1 \in 1 .. N /\ k + 1 \in 0 .. N /\ k + 1 # 0 /\ (k + 1) - 1 = k /\ lv[k] \in V
      BY <1>0, <2>2, <3>1
    <3>3. lv[k + 1] = Put(lv[k], k + 1)
      BY <1>7, <3>2
    <3>4. QED
      BY <1>1, <3>2, <3>3
  <2> HIDE DEF W
  <2>3. \A k \in Nat : k \in W
    BY <2>1, <2>2, SetInduction
  <2>4. QED
    BY <2>3 DEF W
<1>10. lv[N] \in V
  BY <1>0, <1>9
<1>11. QED
  BY <1>8, <1>10

\* What the property says of the waves follows.
LEMMA WavesFollow ==
  ASSUME SortIInv, LevelIInv, WaveIInv
  PROVE  WavesAreExact
<1>1. SUFFICES ASSUME phase = "planned"
               PROVE  WavesAreExact
  BY DEF WavesAreExact, WavesAreSafe, WavesAreTight
<1> DEFINE c == Above({level[n] : n \in Nodes})
<1>2. /\ c \in Nat
      /\ \A n \in Nodes : level[n] \in Nat /\ level[n] < c
      /\ c > 0 => \E n \in Nodes : level[n] = c - 1
  BY WaveCount
<1>3. /\ levelled = Len(order) /\ grouped = Len(order) /\ Len(order) \in Nat
      /\ Len(waves) = c
      /\ \A i \in 1 .. Len(order) : order[i] \in Nodes
  BY <1>1 DEF LevelIInv, WaveIInv, SortIInv, ScheduleTypeOK
<1>4. \A n \in Nodes : \E i \in 1 .. Len(order) : order[i] = n
  BY <1>1, SortInvFollows DEF SortInv, OrderIsTopological, Sorted
<1> HIDE DEF c
<1>5. \A n \in Nodes : level[n] + 1 \in 1 .. c
  BY <1>2
<1>6. \A n \in Nodes : \E i \in 1 .. Len(waves[level[n] + 1]) : waves[level[n] + 1][i] = n
  <2>1. \A p \in 1 .. Len(order) : \E i \in 1 .. Len(waves[level[order[p]] + 1]) :
          waves[level[order[p]] + 1][i] = order[p]
    BY <1>1, <1>3 DEF WaveIInv
  <2>2. QED
    BY <1>4, <2>1
<1>7. ASSUME NEW n \in Nodes
      PROVE  Cardinality({w \in 1 .. Len(waves) :
                            \E i \in 1 .. Len(waves[w]) : waves[w][i] = n}) = 1
  <2>1. \A w \in 1 .. Len(waves) : (\E i \in 1 .. Len(waves[w]) : waves[w][i] = n)
          <=> w = level[n] + 1
    <3>1. \A w \in 1 .. Len(waves) : \A i \in 1 .. Len(waves[w]) :
            waves[w][i] = n => level[n] = w - 1
      BY <1>1 DEF WaveIInv
    <3>2. \A w \in 1 .. Len(waves) : level[n] = w - 1 => w = level[n] + 1
      BY <1>2
    <3>3. \E i \in 1 .. Len(waves[level[n] + 1]) : waves[level[n] + 1][i] = n
      BY <1>6
    <3>4. QED
      BY <3>1, <3>2, <3>3
  <2>2. {w \in 1 .. Len(waves) : \E i \in 1 .. Len(waves[w]) : waves[w][i] = n} = {level[n] + 1}
    BY <1>3, <1>5, <2>1
  <2>3. QED
    BY <2>2, FS_Singleton
<1>8. \A w \in 1 .. Len(waves) : \A i, k \in 1 .. Len(waves[w]) :
        i < k => Before(waves[w][i], waves[w][k])
  BY <1>1 DEF WaveIInv
<1>9. ASSUME NEW m \in Nodes, NEW n \in Nodes, Before(m, n),
             Edge(n, m) \/ conflicts(access[m], access[n])
      PROVE  level[m] < level[n]
  <2>1. PICK p, q \in 1 .. Len(order) : p < q /\ order[p] = m /\ order[q] = n
    BY <1>9 DEF Before
  <2>2. q \in 1 .. levelled /\ p \in 1 .. q - 1
    BY <1>3, <2>1
  <2>3. Tied(order[q], order[p])
    BY <1>9, <2>1, ConflictsSymmetric DEF Tied
  <2>4. QED
    BY <2>1, <2>2, <2>3 DEF LevelIInv, LevelsSafe
<1>10. ASSUME NEW w \in 1 .. Len(waves)
       PROVE  waves[w] # <<>>
  <2>1. PICK n \in Nodes : level[n] = c - 1
    BY <1>2, <1>3
  <2>2. w - 1 \in Nat /\ w - 1 <= level[n]
    BY <1>2, <1>3, <2>1
  <2>3. PICK m \in Nodes : level[m] = w - 1
    BY <1>1, <2>2, LevelsHaveNoGap
  <2>4. level[m] + 1 = w
    BY <1>2, <1>3, <2>3
  <2>5. QED
    BY <1>6, <2>4
<1>11. ASSUME NEW n \in Nodes, level[n] > 0
       PROVE  \E m \in Nodes : /\ Before(m, n) /\ level[m] + 1 = level[n]
                               /\ Edge(n, m) \/ conflicts(access[m], access[n])
  <2>1. PICK q \in 1 .. Len(order) : order[q] = n
    BY <1>4
  <2>2. PICK p \in 1 .. q - 1 : /\ Tied(order[q], order[p])
                                /\ level[order[p]] + 1 = level[order[q]]
    BY <1>3, <1>11, <2>1 DEF LevelIInv, LevelsTight
  <2>3. p \in 1 .. Len(order) /\ p < q
    BY <1>3, <2>1
  <2>4. Before(order[p], n) /\ order[p] \in Nodes
    BY <1>3, <2>1, <2>3 DEF Before
  <2>5. Edge(n, order[p]) \/ conflicts(access[order[p]], access[n])
    BY <2>1, <2>2, ConflictsSymmetric DEF Tied
  <2>6. QED
    BY <2>1, <2>2, <2>4, <2>5
<1>12. \A n \in Nodes : level[n] >= DependencyLevels[n]
  BY <1>1, DependencyLevelsBelow
<1>13. WavesAreSafe
  BY <1>7, <1>8, <1>9 DEF WavesAreSafe
<1>14. WavesAreTight
  BY <1>10, <1>11, <1>12 DEF WavesAreTight
<1>15. QED
  BY <1>13, <1>14 DEF WavesAreExact

\* access_waves, for every registry: the waves hold every subsystem once and in
\* order, keep apart every pair that depends or conflicts, and no subsystem
\* could run a wave earlier.
THEOREM WavesAreCorrect == ScheduleSpec => []WavesAreExact
<1> DEFINE I == SortIInv /\ LevelIInv /\ WaveIInv
<1>1. ScheduleInit => I
  <2>1. ScheduleInit => SortIInv /\ LevelIInv
    BY RegistriesAssumption, PlanStarts DEF ScheduleInit
  <2>2. ScheduleInit => WaveIInv
    BY DEF ScheduleInit, StartSort, WaveIInv
  <2>3. QED
    BY <2>1, <2>2
<1>2. I /\ [PlanStep]_schedVars => I'
  <2>1. I /\ [PlanStep]_schedVars => SortIInv' /\ LevelIInv'
    BY PlanInductive
  <2>2. I /\ [PlanStep]_schedVars => WaveIInv'
    BY StepBuild, StepPush, WavesOtherwise
  <2>3. QED
    BY <2>1, <2>2
<1>3. I => WavesAreExact
  BY WavesFollow
<1>4. QED
  BY <1>1, <1>2, <1>3, PTL DEF ScheduleSpec
=============================================================================
