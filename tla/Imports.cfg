SPECIFICATION FairSpec
CONSTANTS
  r1 = r1
  Runs <- MCRuns
  Size <- MCSize
  Workers = {w1}
  Loop = Loop
  Capacity = 1
  MaxAttempts = 2
  MaxFaults = 2
  None = None
INVARIANTS EvidenceIsComplete AppliedOnce
PROPERTIES RunsAreFinal RunEnds
