SPECIFICATION SemFairSpec
CONSTANTS
  tI = tI
  tM = tM
  tA = tA
  sem1 = sem1
  Sem1 = sem1
  Idle = tI
  Main = tM
  Shadow = shadow
  None = none
  Pool <- MCPool
  BasePrio <- MCBasePrio
  PendLists <- MCSems
  Lowest = 2
  SliceTicks = 1
  MaxWait = 2
  MaxLock = 1
  CountMax = 2
  TaskApi = {"create", "delete", "delay", "return", "suspend", "resume", "lock", "sempend", "sempost", "semcreate", "semdelete"}
  IsrApi = {"sempost", "sempend"}
INVARIANTS SemTypeOK NoUnitBesideWaiter WaitersHaveSemaphore ListDiscipline
PROPERTIES SemaphorePromise TimedWaitEnds
