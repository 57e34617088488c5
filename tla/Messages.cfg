SPECIFICATION FairSpec
CONSTANTS
  Producers = {p1}
  Workers = {w1}
  Tasks = {o1, o2}
  Out = {o1, o2}
  In = {i1}
  Handlers = {h1, h2}
  NoTask = NoTask
  Buffer = 1
  Features = {"echo", "read", "failed"}
  Faults = {"send", "ack", "db", "retry", "crash", "lookup"}
  MaxEvents = 3
INVARIANTS SentOnce UnreadIsHonest WaitIsExact
PROPERTIES StoredIsArmed ImplementsOutbox
CHECK_DEADLOCK FALSE
