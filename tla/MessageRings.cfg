\* The inbox's indices wrap twice in a behaviour, the outbox's once.
SPECIFICATION RingsSpec
CONSTANTS
  Threads = {t1, t2}
  Capacity = 2
  Modulus = 4
  MaxPush = 6
  Uninit = Uninit
  InboxCapacity = 4
  InboxModulus = 8
  InboxMaxPush = 18
INVARIANTS RingsInv
PROPERTIES RingsAreFifos CallsReturn
