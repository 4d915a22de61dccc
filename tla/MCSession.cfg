CONSTANTS
  c1 = c1
  c2 = c2
  Clients = {c1, c2}
  ClientThreads = {t1}
  Workers = {w1}
  Lines = {"LOGIN", "UPLOAD", "LIST", "QUIT"}
  MaxLines = 2
  Pipeline = 3
  MaxFailures = 0
  None = None
  Users = {"u", "v"}
  Temps = {"f"}
  Requests <- AllRequests
  MaxSplits = 1
SPECIFICATION SessionSpec
INVARIANTS SessionTypeOK LoginTruthful RepliesRead UploadSource NoHangUp
CHECK_DEADLOCK FALSE
