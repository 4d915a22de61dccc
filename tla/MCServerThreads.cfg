CONSTANTS
  Clients = {c1, c2}
  ClientThreads = {t1, t2}
  Workers = {w1, w2}
  Lines = {"LIST", "QUIT"}
  MaxLines = 1
  Pipeline = 1
  MaxFailures = 1
  None = None
SPECIFICATION Spec
SYMMETRY Symmetry
INVARIANTS ConnectionOwned ServedClientRegistered EntriesFreedOnce CleanExit
CHECK_DEADLOCK FALSE
