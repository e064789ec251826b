SPECIFICATION AccessSpec
CONSTANTS
  User = {u1, u2}
  SystemAdmin = {u2}
  Organisation = {o1, o2}
  Name = {"unnamed"}
  MaxMemberships = 3
  Workspace = {w1}
  MaxWsMemberships = 2
  Product = {}
  MaxEntitlements = 0
  Audience = {}
  LaunchTarget = {}
  MaxAssignments = 0
INVARIANTS OrgTypeOK OneOwner MirrorAgrees WsMirrorAgrees GrantsStayInOrganisation OfferedIsAccepted
PROPERTIES OwnerAndArchiveAreFinal DormantMembershipsStay ArchivedOrganisationFreezesWorkspaces
CHECK_DEADLOCK FALSE
SYMMETRY OrganisationSymmetry
