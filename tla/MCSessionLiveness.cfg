CONSTANTS
  c1 = c1
  c2 = c2
  Clients = {c1, c2}
  ClientThreads = {t1}
  Workers = {w1}
  Lines = {"LOGIN", "UPLOAD", "LIST", "QUIT"}
  MaxLines = 2
  Pipeline = 3
  MaxFailures = 0
  None = None
  Users = {"u", "v"}
  Temps = {"f"}
  Requests <- FewRequests
  MaxSplits = 0
SPECIFICATION FairSessionSpec
PROPERTIES CommandAnswered ConnectionReleased ShutdownCompletes PromptReturns
CHECK_DEADLOCK FALSE
