SPECIFICATION FairSpec
CONSTANTS
  v1 = v1
  v2 = v2
  org = org
  op = op
  gold = gold
  Users = {v1, v2, org, op}
  InitHolders <- OneOfEach
  Grants <- SecondVerifier
  Revokes <- Nothing
  MaxVerifiers = 2
  Tokens = {gold}
  Limits <- OneLimit
  NotApproved = NotApproved
  Terms <- Solo
  Precisions <- Nothing
  Amounts = {3}
  FirstNonce = 0
  LastNonce = 2
  SeatBound = 2
  FirstPrecision = 65
  ConsensusRate = 10000
  VerifierFee = 1
  PlatformFee = 4
  MaxOrganizerFee = 5000
  MinTeams = 1
  MaxTeams = 65535
  UserFunds = 8
CHECK_DEADLOCK FALSE
INVARIANTS
  PlatformTypeOK
  RoleHoldersWhole
  FeesCoverClaims
PROPERTIES
  ClaimsArePaid
