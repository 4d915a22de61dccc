CONSTANTS
  Clients = {c1}
  ClientThreads = {t1}
  Workers = {w1, w2}
  Lines = {"LIST", "LOGIN", "UNKNOWN"}
  MaxLines = 3
  Pipeline = 2
  MaxFailures = 1
  None = None
SPECIFICATION Spec
SYMMETRY Symmetry
INVARIANTS TasksFreedOnce AnsweredOnce BacklogBounded LateWritesBounded
PROPERTIES InOrderUntilTimeout ImplementsReplyService
CHECK_DEADLOCK FALSE
