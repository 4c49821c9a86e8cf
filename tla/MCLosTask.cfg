SPECIFICATION TaskSpec
CONSTANTS
  tI = tI
  tM = tM
  tA = tA
  tB = tB
  Idle = tI
  Main = tM
  Shadow = shadow
  None = none
  Pool <- MCPool
  BasePrio <- MCBasePrio
  PendLists = {}
  Lowest = 2
  SliceTicks = 2
  MaxWait = 2
  MaxLock = 1
  TaskApi = {"create", "createonly", "resume", "suspend", "delete", "return", "delay", "yield", "lock"}
  IsrApi = {"resume"}
INVARIANTS TypeOK SchedInv ListDiscipline TimersMatchStatus NoFault HighestReadyRuns OneRunning
PROPERTIES SwitchPicksTop LockHolds
