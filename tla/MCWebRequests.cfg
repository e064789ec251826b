SPECIFICATION WebSpec
CONSTANTS
  User = {u1, u2}
  SystemAdmin = {u1}
  Organisation = {o1}
  Name = {"unnamed"}
  MaxMemberships = 4
  Workspace = {w1}
  MaxWsMemberships = 1
  Product = {p1}
  MaxEntitlements = 1
  Audience = {p1}
  LaunchTarget = {p1}
  MaxAssignments = 1
  Founder = u1
  Home = o1
  Deputy = u2
  Licensed = p1
  Site = w1
CHECK_DEADLOCK FALSE
INVARIANT AnswersHeldDuringRequest
CONSTRAINT FewEnded
