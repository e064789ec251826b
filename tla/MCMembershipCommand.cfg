SPECIFICATION CmdSpec
CONSTANTS
  User = {u1, u2}
  SystemAdmin = {}
  Organisation = {o1}
  Name = {"unnamed"}
  MaxMemberships = 3
  Workspace = {w1}
  MaxWsMemberships = 2
  TicksPerSecond = 2
  Key = {k1}
  Start = 1
  Retention = 2
  Stall = 1
  MaxRequests = 1
  MaxClock = 2
INVARIANTS StaleOnlyAfterReAdd ResultsTellTheRow OncePerKey
CHECK_DEADLOCK FALSE
SYMMETRY Alike
