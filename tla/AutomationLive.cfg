SPECIFICATION FairSpec
CONSTANTS
  Chats = {ch1}
  Workers = {w1}
  Ops = {"rearm", "mode", "human", "approve"}
  Faults = {"db", "slow", "full", "crash"}
  Buffer = 1
  MaxDispatchAttempts = 2
  MaxInbound = 2
  MaxJobs = 3
  MaxEvents = 3
  NoJob = NoJob
CHECK_DEADLOCK FALSE
PROPERTIES
  JobsEnd
  MessagesAreAnswered
