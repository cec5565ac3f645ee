SPECIFICATION Spec
CONSTANTS
  v1 = v1
  v2 = v2
  org = org
  op = op
  gold = gold
  Users = {v1, org, op}
  InitHolders <- OneOfEach
  Grants <- Nothing
  Revokes <- Nothing
  MaxVerifiers = 4
  Tokens = {gold}
  Limits <- OneLimit
  NotApproved = NotApproved
  Terms <- Solo
  Precisions <- Nothing
  Amounts <- Nothing
  FirstNonce = 0
  LastNonce = 2
  SeatBound = 2
  FirstPrecision = 65
  ConsensusRate = 10000
  VerifierFee = 1
  PlatformFee = 2
  MaxOrganizerFee = 5000
  MinTeams = 1
  MaxTeams = 65535
  UserFunds = 4
CHECK_DEADLOCK FALSE
PROPERTIES
  CreationIsPaid
