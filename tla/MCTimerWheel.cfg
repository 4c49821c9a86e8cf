SPECIFICATION WheelSpec
CONSTANTS
  w1 = w1
  w2 = w2
  w3 = w3
  Waiters <- MCWaiters
  SortLinkLen = 3
  MaxTicks = 8
SYMMETRY Alike
INVARIANTS WheelTypeOK SleepIsExact
PROPERTIES WheelIsCalendar
