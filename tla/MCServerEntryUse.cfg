CONSTANTS
  Clients = {c1}
  ClientThreads = {t1}
  Workers = {w1}
  Lines = {"LIST"}
  MaxLines = 1
  Pipeline = 1
  MaxFailures = 0
  None = None
SPECIFICATION Spec
INVARIANT EntryUsedBeforeFree
CHECK_DEADLOCK FALSE
