SPECIFICATION RAFairSpec
CONSTANTS
  TicksPerSecond = 2
  Entity = {1, 2, 3}
  KindOf <- MCKindOf
  TTL = 2
  PageSize = 1
  FeedSize = 2
  MaxRecords = 3
  MaxEvents = 3
  MaxSnapshots = 2
  MaxTrim = 1
  MaxClock = 2
INVARIANTS ViewIsTheStateAtItsCursor
PROPERTY BecomesCurrent
CHECK_DEADLOCK FALSE
