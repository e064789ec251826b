SPECIFICATION CmdSpec
CONSTANTS
  User = {u1, u2}
  SystemAdmin = {}
  Organisation = {o1}
  Name = {"unnamed"}
  MaxMemberships = 3
  Workspace = {}
  MaxWsMemberships = 0
  TicksPerSecond = 2
  Key = {k1}
  Start = 0
  Retention = 2
  Stall = 0
  MaxRequests = 1
  MaxClock = 0
INVARIANT StaleIsRefused
CHECK_DEADLOCK FALSE
