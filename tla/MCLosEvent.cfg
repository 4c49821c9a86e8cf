SPECIFICATION EventSpec
CONSTANTS
  tI = tI
  tM = tM
  tA = tA
  tB = tB
  ev1 = ev1
  b1 = b1
  b2 = b2
  Ev1 = ev1
  Idle = tI
  Main = tM
  Shadow = shadow
  None = none
  Pool <- MCPool
  BasePrio <- MCBasePrio
  PendLists <- MCEvents
  Lowest = 2
  SliceTicks = 1
  MaxWait = 1
  MaxLock = 1
  Bits = {b1, b2}
  Writes <- MCWrites
  Reads <- MCReads
  TaskApi = {"create", "evinit", "evdestory", "evread", "evwrite", "evclear"}
  IsrApi = {"evwrite"}
INVARIANTS NoSatisfiedWaiter
PROPERTIES EventPromise
