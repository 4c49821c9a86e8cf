SPECIFICATION SwtmrSpec
CONSTANTS
  Limit = 3
  Generations = 1
  QueueSize = 1
  Divisor = 2
  Kinds <- MCKinds
  StaleStart = FALSE
INVARIANTS OneListEach AlignedTogether OnlyWillingAligned
PROPERTIES SwtmrPromise
