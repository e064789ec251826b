SPECIFICATION AccessSpec
CONSTANTS
  User = {u1, u2}
  SystemAdmin = {u2}
  Organisation = {o1, o2}
  Name = {"unnamed"}
  MaxMemberships = 3
  Workspace = {w1}
  MaxWsMemberships = 1
  Product = {p1, p2}
  MaxEntitlements = 1
  Audience = {p1, p2}
  LaunchTarget = {p1, p2}
  MaxAssignments = 1
INVARIANTS ConsumerDecidesAlike AssigneesWereMembers LauncherLeadsOn GrantButtonsAreAccepted SnapshotAndFeedAgree
CHECK_DEADLOCK FALSE
SYMMETRY NameSymmetry
CONSTRAINT FewEnded
