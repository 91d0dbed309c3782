------------------------------ MODULE Entities ------------------------------
(***************************************************************************)
(* The entity table of kernel/ecs/entity.rs, as operators on a table: the  *)
(* generation of every slot ever allocated, and the stack of free slots.   *)
(* Slots are numbered from 1 here (0 in the code).                         *)
(***************************************************************************)
EXTENDS Naturals, Sequences

CONSTANTS
  MaxSlots,     \* slots the table can address (u32::MAX in the code)
  Generations   \* number of values of a generation (2^32 in the code)

ASSUME EntitiesAssumption == MaxSlots \in Nat /\ Generations \in Nat \ {0}

Slots == 1 .. MaxSlots
Handles == [index : Slots, generation : 0 .. Generations - 1]

EmptyTable == [generations |-> <<>>, free |-> <<>>, live |-> 0]

IsFree(t, slot) == \E i \in 1 .. Len(t.free) : t.free[i] = slot

\* Mutant: the generation is not compared.
is_aliveByIndex(t, e) == e.index <= Len(t.generations) /\ ~IsFree(t, e.index)

is_alive(t, e) ==
  /\ e.index <= Len(t.generations)
  /\ t.generations[e.index] = e.generation
  /\ ~IsFree(t, e.index)

\* try_create: the slot freed last is reused with the next generation, which
\* wraps to 0; a table with no free slot grows until the index overflows.
CanCreate(t) == t.free # <<>> \/ Len(t.generations) < MaxSlots

\* Mutant: a reused slot keeps its generation.
CreatedSameGeneration(t) ==
  IF t.free # <<>>
  THEN LET slot == t.free[Len(t.free)]
       IN [table |-> [t EXCEPT !.free = SubSeq(@, 1, Len(@) - 1), !.live = @ + 1],
           entity |-> [index |-> slot, generation |-> t.generations[slot]]]
  ELSE [table |-> [t EXCEPT !.generations = Append(@, 0), !.live = @ + 1],
        entity |-> [index |-> Len(t.generations) + 1, generation |-> 0]]

Created(t) ==
  IF t.free # <<>>
  THEN LET slot == t.free[Len(t.free)]
           next == (t.generations[slot] + 1) % Generations
       IN [table |-> [generations |-> [t.generations EXCEPT ![slot] = next],
                      free |-> SubSeq(t.free, 1, Len(t.free) - 1),
                      live |-> t.live + 1],
           entity |-> [index |-> slot, generation |-> next]]
  ELSE [table |-> [generations |-> Append(t.generations, 0), free |-> t.free,
                   live |-> t.live + 1],
        entity |-> [index |-> Len(t.generations) + 1, generation |-> 0]]

\* try_destroy of an entity that is alive.
Destroyed(t, e) == [generations |-> t.generations, free |-> Append(t.free, e.index),
                    live |-> t.live - 1]
=============================================================================
