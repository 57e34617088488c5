SPECIFICATION Spec
CONSTANTS
  Campaigns = {c1, c2}
  Identities = {i1}
  Accounts = {a1}
  ColdAccounts = {a1}
  Operators = {o1, o2}
  Bodies = {b1}
  Ladder = 1
  Ops = {"create", "start", "replace", "schedule", "pause", "resume", "stop", "duplicate", "delete"}
  Faults = {"db", "reject"}
  MaxRequests = 6
  MaxCrashes = 1
  NoClaim = NoClaim
  NoReq = NoReq
SYMMETRY Symmetry
INVARIANTS
  CompletedIsSettled
  DeletedNeverSent
PROPERTY TerminalIsFinal
