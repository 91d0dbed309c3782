------------------------------ MODULE EcsWorld ------------------------------
(***************************************************************************)
(* The ECS world of kernel/ecs: the entity table, the bit mask of live     *)
(* slots, one sparse-set storage per component type, and the two-phase     *)
(* queries (collect candidate indices, then visit them).  A component      *)
(* value is abstracted to the entity it was inserted for: the slot and how *)
(* many times the slot had been allocated (its incarnation), which, unlike *)
(* the generation, does not wrap.  A storage's vectors are indexed by slot *)
(* and read as absent beyond their length.  Slot s is index s - 1 of the    *)
(* bit masks.                                                              *)
(***************************************************************************)
EXTENDS Entities, Bitset, Ordered

CONSTANTS
  Components,      \* component types
  MaxSpawns,       \* bound: entities spawned in a behaviour
  None             \* no position in dense

ASSUME EcsAssumption == None \notin Nat

VARIABLES
  table,       \* World.entities
  alive,       \* World.alive: the mask of living slots
  storage,     \* for each registered component type, its storage
  candidates,  \* the caller's scratch list of a pair query
  visited,     \* what a for_each handed to its closure, if that was the last call
  incarnation, \* history: how many times each slot was allocated
  issued       \* history: every handle returned, with its incarnation

vars == <<table, alive, storage, candidates, visited, incarnation, issued>>

EmptyStorage == [sparse |-> [s \in Slots |-> None],
                 generations |-> [s \in Slots |-> 0],
                 dense |-> <<>>, presence |-> <<>>]

Init ==
  /\ table = EmptyTable
  /\ alive = <<>>
  /\ storage = [c \in {} |-> EmptyStorage]
  /\ candidates = <<>> /\ visited = <<>>
  /\ incarnation = [s \in Slots |-> 0]
  /\ issued = {}

-----------------------------------------------------------------------------
(* ComponentStorage                                                        *)

contains(st, e) ==
  st.generations[e.index] = e.generation /\ st.sparse[e.index] # None

\* try_insert: replaces in place, or appends to dense.
Inserted(st, e, value) ==
  LET i == e.index IN
  [sparse |-> IF st.sparse[i] # None THEN st.sparse
              ELSE [st.sparse EXCEPT ![i] = Len(st.dense) + 1],
   generations |-> [st.generations EXCEPT ![i] = e.generation],
   dense |-> IF st.sparse[i] # None THEN [st.dense EXCEPT ![st.sparse[i]] = value]
             ELSE Append(st.dense, value),
   presence |-> SetBit(st.presence, i - 1)]

\* What try_insert has written when it finds no room in dense.
Prepared(st, e) ==
  [sparse |-> st.sparse,
   generations |-> [st.generations EXCEPT ![e.index] = e.generation],
   dense |-> st.dense,
   presence |-> Reserved(st.presence, e.index - 1)]

\* Mutant: the moved element's slot still points past the end.
RemovedNoFixup(st, e) ==
  LET pos == st.sparse[e.index]
      last == Len(st.dense)
  IN IF ~contains(st, e) THEN st
     ELSE [st EXCEPT !.sparse[e.index] = None,
                     !.dense = [p \in 1 .. last - 1 |-> IF p = pos THEN @[last] ELSE @[p]],
                     !.presence = ClearBit(@, e.index - 1)]

\* remove: the last element of dense moves into the hole, and the slot that
\* pointed to it follows.
Removed(st, e) ==
  LET pos == st.sparse[e.index]
      last == Len(st.dense)
  IN IF ~contains(st, e) THEN st
     ELSE [sparse |-> [s \in Slots |->
                         IF s = e.index THEN None
                         ELSE IF st.sparse[s] = last THEN pos ELSE st.sparse[s]],
           generations |-> st.generations,
           dense |-> [p \in 1 .. last - 1 |->
                        IF p = pos THEN st.dense[last] ELSE st.dense[p]],
           presence |-> ClearBit(st.presence, e.index - 1)]

-----------------------------------------------------------------------------
(* World                                                                   *)

Spawn ==
  /\ CanCreate(table)
  /\ LET made == Created(table)
         slot == made.entity.index
     IN /\ Cardinality(issued) < MaxSpawns
        /\ table' = made.table
        /\ alive' = SetBit(Reserved(alive, Len(table.generations) + 1), slot - 1)
        /\ incarnation' = [incarnation EXCEPT ![slot] = @ + 1]
        /\ issued' = issued \cup {[handle |-> made.entity,
                                   incarnation |-> incarnation[slot] + 1]}
  /\ visited' = <<>>
  /\ UNCHANGED <<storage, candidates>>

\* Mutant: the components of the entity stay behind.
DespawnKeepsComponents(h) ==
  /\ is_alive(table, h)
  /\ table' = Destroyed(table, h)
  /\ alive' = ClearBit(alive, h.index - 1)
  /\ visited' = <<>>
  /\ UNCHANGED <<storage, candidates, incarnation, issued>>

\* try_despawn with any handle somebody still has: a dead one changes nothing.
Despawn(h) ==
  /\ is_alive(table, h)
  /\ table' = Destroyed(table, h)
  /\ alive' = ClearBit(alive, h.index - 1)
  /\ storage' = [c \in DOMAIN storage |-> Removed(storage[c], h)]
  /\ visited' = <<>>
  /\ UNCHANGED <<candidates, incarnation, issued>>

\* register_component: a known type keeps its storage.
Registered(c) == IF c \in DOMAIN storage THEN storage[c] ELSE EmptyStorage

RegisterComponent(c) ==
  /\ storage' = [d \in DOMAIN storage \cup {c} |-> Registered(d)]
  /\ visited' = <<>>
  /\ UNCHANGED <<table, alive, candidates, incarnation, issued>>

\* try_insert: a dead handle is refused before the type is registered.
Insert(c, h) ==
  /\ is_alive(table, h)
  /\ storage' = [d \in DOMAIN storage \cup {c} |->
                   IF d = c THEN Inserted(Registered(c), h, <<h.index, incarnation[h.index]>>)
                   ELSE storage[d]]
  /\ visited' = <<>>
  /\ UNCHANGED <<table, alive, candidates, incarnation, issued>>

\* dense.try_reserve fails after the generation has been written.
InsertFails(c, h) ==
  /\ is_alive(table, h)
  /\ Registered(c).sparse[h.index] = None
  /\ storage' = [d \in DOMAIN storage \cup {c} |->
                   IF d = c THEN Prepared(Registered(c), h) ELSE storage[d]]
  /\ visited' = <<>>
  /\ UNCHANGED <<table, alive, candidates, incarnation, issued>>

Remove(c, h) ==
  /\ c \in DOMAIN storage
  /\ storage' = [storage EXCEPT ![c] = Removed(@, h)]
  /\ visited' = <<>>
  /\ UNCHANGED <<table, alive, candidates, incarnation, issued>>

\* The slots of a mask.
Marked(mask) == {i + 1 : i \in Walk(mask)}

CollectIntersection(a, b) ==
  /\ candidates' = IF {a, b} \subseteq DOMAIN storage
                   THEN Ascending(Marked(Intersection(storage[a].presence, storage[b].presence)))
                   ELSE <<>>
  /\ visited' = <<>>
  /\ UNCHANGED <<table, alive, storage, incarnation, issued>>

\* for_each over the candidates, which may be old: the handle is rebuilt from
\* the first storage, and every storage must hold it.  The world is borrowed
\* for the whole walk, so it is one step.
ForEach(cs) ==
  LET A == storage[cs[1]]
      Handle(i) == [index |-> i, generation |-> A.generations[i]]
      Holds(i) == /\ A.sparse[i] # None
                  /\ \A k \in DOMAIN cs : contains(storage[cs[k]], Handle(i))
      met == Ascending({n \in 1 .. Len(candidates) : Holds(candidates[n])})
      Value(c, i) == storage[c].dense[storage[c].sparse[i]]
  IN [n \in 1 .. Len(met) |->
        [handle |-> Handle(candidates[met[n]]),
         values |-> [k \in DOMAIN cs |-> Value(cs[k], candidates[met[n]])]]]

ForEachPair(a, b) ==
  /\ a # b /\ {a, b} \subseteq DOMAIN storage
  /\ visited' = ForEach(<<a, b>>)
  /\ UNCHANGED <<table, alive, storage, candidates, incarnation, issued>>

ForEachSingle(c) ==
  /\ c \in DOMAIN storage
  /\ visited' = ForEach(<<c>>)
  /\ UNCHANGED <<table, alive, storage, candidates, incarnation, issued>>

\* for_each_entity walks the bits and takes the generation from the table.
ForEachEntity ==
  /\ visited' = LET live == Ascending(Marked(alive) \cap 1 .. Len(table.generations))
                IN [k \in 1 .. Len(live) |->
                      [handle |-> [index |-> live[k], generation |-> table.generations[live[k]]],
                       values |-> <<>>]]
  /\ UNCHANGED <<table, alive, storage, candidates, incarnation, issued>>

IssuedHandles == {x.handle : x \in issued}

Next ==
  \/ Spawn
  \/ \E h \in IssuedHandles : Despawn(h)
  \/ \E c \in Components, h \in IssuedHandles :
       Insert(c, h) \/ InsertFails(c, h) \/ Remove(c, h)
  \/ \E c \in Components : RegisterComponent(c) \/ ForEachSingle(c)
  \/ \E a, b \in Components : CollectIntersection(a, b) \/ ForEachPair(a, b)
  \/ ForEachEntity

Spec == Init /\ [][Next]_vars

-----------------------------------------------------------------------------
Values == Slots \X Nat

TypeOK ==
  /\ table.generations \in Seq(0 .. Generations - 1)
  /\ table.free \in Seq(Slots) /\ table.live \in Nat
  /\ alive \in Seq(SUBSET (0 .. WordBits - 1))
  /\ candidates \in Seq(Slots)
  /\ DOMAIN storage \subseteq Components
  /\ \A c \in DOMAIN storage :
       /\ storage[c].sparse \in [Slots -> Nat \cup {None}]
       /\ storage[c].generations \in [Slots -> 0 .. Generations - 1]
       /\ storage[c].dense \in Seq(Values)
       /\ storage[c].presence \in Seq(SUBSET (0 .. WordBits - 1))

\* The three accounts of what is alive agree: the bits, the slots that are not
\* on the free stack, and the live counter; no slot is free twice.
TableCoherent ==
  /\ Marked(alive) = {s \in 1 .. Len(table.generations) : ~IsFree(table, s)}
  /\ table.live = Cardinality(Marked(alive))
  /\ \A i, k \in 1 .. Len(table.free) : table.free[i] = table.free[k] => i = k

\* Sparse and dense point at each other after any sequence of inserts and
\* swap-removes: positions are distinct and cover dense, the presence mask
\* marks the slots that have one, and two masks of different lengths intersect
\* in the slots that have both.
Owners(c) == {s \in Slots : storage[c].sparse[s] # None}

StorageCoherent ==
  \A c \in DOMAIN storage :
    /\ Marked(storage[c].presence) = Owners(c)
    /\ {storage[c].sparse[s] : s \in Owners(c)} = 1 .. Len(storage[c].dense)
    /\ Cardinality(Owners(c)) = Len(storage[c].dense)
    /\ \A d \in DOMAIN storage :
         Marked(Intersection(storage[c].presence, storage[d].presence)) = Owners(c) \cap Owners(d)

\* The tables of a world agree with each other in every state.
WorldInv == TypeOK /\ TableCoherent /\ StorageCoherent

\* "a recycled entity slot never aliases the previous owner's component": what
\* is stored under a slot belongs to the slot's present, living owner, also
\* when the generation counter wraps.
NoAliasing ==
  \A c \in DOMAIN storage : \A s \in Owners(c) :
    /\ s \in Marked(alive)
    /\ storage[c].dense[storage[c].sparse[s]] = <<s, incarnation[s]>>
    /\ storage[c].generations[s] = table.generations[s]

\* A query, even on a list collected before entities were despawned and slots
\* recycled, visits living entities only and gives each its own values.
QueryVisitsOwners ==
  \A n \in 1 .. Len(visited) :
    LET v == visited[n] IN
    /\ is_alive(table, v.handle)
    /\ \A k \in DOMAIN v.values : v.values[k] = <<v.handle.index, incarnation[v.handle.index]>>

\* "a stale PID never refers to the wrong process": a handle whose slot has
\* been allocated again is dead, except when the number of allocations since
\* is a multiple of 2^32, the turn of the generation counter.
StaleHandleIsDead ==
  \A x \in issued :
    is_alive(table, x.handle) => (incarnation[x.handle.index] - x.incarnation) % Generations = 0

\* Recycling a slot (try_destroy, try_create, try_despawn, try_insert) never
\* leads from an old handle or an old component to another entity's.
RecyclingIsSafe == NoAliasing /\ StaleHandleIsDead
=============================================================================
