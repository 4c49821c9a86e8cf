SPECIFICATION MuxSpec
CONSTANTS
  tI = tI
  tM = tM
  tA = tA
  tB = tB
  m1 = m1
  Idle = tI
  Main = tM
  Shadow = shadow
  None = none
  Pool <- MCPool
  BasePrio <- MCBasePrio
  PendLists <- MCOneMux
  Lowest = 2
  SliceTicks = 1
  MaxWait = 1
  MaxLock = 1
  MaxDepth = 2
  TaskApi = {"create", "muxcreate", "muxpend", "muxpost"}
  IsrApi = {}
INVARIANTS OwnerInherits
