SPECIFICATION Spec
CONSTANTS
  Requests = {c1, c2}
  Boot = Boot
  Sessions = {s1, s2}
  NoOne = NoOne
  Ops = {"replace", "check", "delete", "revoke"}
  Faults = {"db", "net", "crash", "lookup"}
  Ignored = {}
  MaxUpdates = 2
  MaxVersion = 2
  MaxEvents = 2
SYMMETRY Symmetry
CHECK_DEADLOCK FALSE
INVARIANTS NothingLost NoOrphans CurrentTokenIsPolled DisconnectedIsQuiet
