SPECIFICATION Spec
CONSTANTS
  Users = {u1, u2, u3}
  MaxVerifiers = 2
  RentRate = 1
  AdminLamports = 650
CHECK_DEADLOCK FALSE
INVARIANTS
  RoleTypeOK
  ListsMatchRoles
  ListFillsAccount
  RentIsForPresentHolders
PROPERTIES
  SeniorityKept
