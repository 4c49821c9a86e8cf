SPECIFICATION TaskFairSpec
CONSTANTS
  tI = tI
  tM = tM
  tA = tA
  tB = tB
  Idle = tI
  Main = tM
  Shadow = shadow
  None = none
  Pool <- MCPeers
  BasePrio <- MCPeersPrio
  PendLists = {}
  Lowest = 2
  SliceTicks = 2
  MaxWait = 2
  MaxLock = 1
  TaskApi = {"create", "yield", "resume", "suspend", "priset"}
  IsrApi = {"suspend", "resume"}
INVARIANTS ListDiscipline NoFault
PROPERTIES RoundRobin
