SPECIFICATION LiveSpec
CONSTANTS
  Registries = {}
  Scenarios <- MCScenarios
  InboxCapacity = 2
  DeferredCapacity = 2
  MaxInbox = 3
  MaxSeq = 3
  MaxInits = 2
  MaxIncarnation = 2
  MaxSlots = 2
  Generations = 2
INVARIANTS
  KernelInv CallbacksInOrder BusIsOrderly DespawnHitsTarget
PROPERTIES PublishIsFinal CallsReturn
CHECK_DEADLOCK FALSE
