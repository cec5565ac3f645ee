SPECIFICATION FairSpec
CONSTANTS
  p1 = p1
  p2 = p2
  p3 = p3
  p4 = p4
  p5 = p5
  p6 = p6
  v1 = v1
  v2 = v2
  v3 = v3
  v4 = v4
  v5 = v5
  org = org
  DefaultKey = DefaultKey
  Players = {p1, p2, p3}
  Users = {v1, v2, org}
  Organizer = org
  InitVerifiers <- TwoVerifiers
  Grants <- Nothing
  Revokes <- Nothing
  MateLists <- OneMate
  Proxies = {p1, p2, p3}
  CutAccounts = {p1, org}
  MaxVerifiers = 4
  TeamSize = 2
  MaxTeams = 2
  EntryFee = 2
  SponsorPool = 3
  OrganizerFee = 2500
  ConsensusRate = 10000
  VerifierFee = 1
  PlatformFee = 5
  PlayerFunds = 4
  SponsorCalls = 1
CHECK_DEADLOCK FALSE
PROPERTIES
  StakesKept
  FullTeamIsStarted
  NewIsDecided
  StartedIsFinished
  CancellationRefunds
