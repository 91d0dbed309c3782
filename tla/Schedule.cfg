SPECIFICATION LiveScheduleSpec
CONSTANTS
  MaxNodes = 3
  Key = Key
  Registries <- MCRegistries
INVARIANTS
  SortInv WavesAreExact
PROPERTIES PlanningEnds
CHECK_DEADLOCK FALSE
