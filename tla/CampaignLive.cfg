SPECIFICATION FairSpec
CONSTANTS
  Campaigns = {c1}
  Identities = {i1, i2}
  Accounts = {a1}
  ColdAccounts = {a1}
  Operators = {o1}
  Bodies = {b1}
  Ladder = 1
  Ops = {"create", "start", "replace", "schedule"}
  Faults = {"reject"}
  MaxRequests = 4
  MaxCrashes = 1
  NoClaim = NoClaim
  NoReq = NoReq
PROPERTIES
  RunningEnds
  DueCampaignsStart
