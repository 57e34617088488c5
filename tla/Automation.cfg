SPECIFICATION Spec
CONSTANTS
  Chats = {ch1}
  Workers = {w1, w2}
  Ops = {"mode", "human", "approve", "dismiss", "rearm", "suggest", "redeliver"}
  Faults = {"db", "slow", "full", "crash"}
  Buffer = 1
  MaxDispatchAttempts = 1
  MaxInbound = 2
  MaxJobs = 2
  MaxEvents = 3
  NoJob = NoJob
SYMMETRY Symmetry
CHECK_DEADLOCK FALSE
INVARIANTS
  OneOwner
  OneReplyPerBurst
  OneSuggestion
  SentDraftsHaveMessages
PROPERTY StaleIsDiscarded
