SPECIFICATION Spec
CONSTANTS
  Campaigns = {c1}
  Identities = {i1}
  Accounts = {a1, a2}
  ColdAccounts = {a1}
  Operators = {o1}
  Bodies = {b1}
  Ladder = 1
  Ops = {"create", "start", "replace", "retry", "content", "resume", "autopause", "reply", "prune"}
  Faults = {"db", "stamp", "ambiguous", "reject"}
  MaxRequests = 6
  MaxCrashes = 1
  NoClaim = NoClaim
  NoReq = NoReq
SYMMETRY Symmetry
INVARIANTS
  ClaimsAreExclusive
  DuplicatesAreAccountedFor
  SentWasDelivered
  OrganicChatsStayVisible
PROPERTY OutcomeIsFinal
