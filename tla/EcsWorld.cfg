\* Three slots with one reuse, or one slot over more than two turns of its
\* generation.
SPECIFICATION Spec
SYMMETRY ComponentSymmetry
CONSTANTS
  MaxSlots = 3
  Generations = 2
  Components = {A, B}
  MaxSpawns = 4
  None = None
  WordBits = 2
INVARIANTS WorldInv RecyclingIsSafe QueryVisitsOwners
