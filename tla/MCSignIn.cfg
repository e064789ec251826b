SPECIFICATION SignInSpec
CONSTANTS
  Login = {l1, l2}
  Request = {r1}
  Code = {c1}
  Attempts = 1
  EnrollLife = 1
  SessionTTL = 1
  MaxStep = 2
  MaxEnrollments = 2
  MaxSessions = 3
  Key = {k1, k2}
  LoginHandler = {h1, h2}
  FailureThreshold = 2
  BaseBackoff = 2
  MaxBackoff = 3
  EntryTTL = 4
  MaxEntries = 1
  MaxTime = 5
INVARIANTS SecondFactorPerSession CurrentCodeUsable EnrolledIsNewest BurstsAreBounded
SYMMETRY Alike
CHECK_DEADLOCK FALSE
