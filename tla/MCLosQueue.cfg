SPECIFICATION QueueSpec
CONSTANTS
  tI = tI
  tM = tM
  tA = tA
  q1 = q1
  Idle = tI
  Main = tM
  Shadow = shadow
  None = none
  Pool <- MCPool
  BasePrio <- MCBasePrio
  Queues <- MCQueues
  PendLists <- MCLists
  Lowest = 2
  SliceTicks = 1
  MaxWait = 1
  MaxLock = 1
  Msgs = {m1, m2}
  MaxLen = 2
  Mails = 1
  Queue1 = q1
  TaskApi = {"create", "suspend", "resume", "mailalloc", "mailfree", "qcreate", "qdelete", "readhead", "writetail", "writehead"}
  IsrApi = {"writetail", "readhead"}
INVARIANTS SlotsAddUp NoSlotBesideWaiter
PROPERTIES QueuePromise
