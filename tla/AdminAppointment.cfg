SPECIFICATION OrgSpec
CONSTANTS
  User = {u1, u2, u3}
  SystemAdmin = {u3}
  Organisation = {o1}
  Name = {n1, n2}
  MaxMemberships = 4
PROPERTIES AdminsAppointedFromAbove
CHECK_DEADLOCK FALSE
