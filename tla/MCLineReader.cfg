CONSTANTS
  Chars = {"a", "q"}
  Newline = "nl"
  Nul = "nul"
  Junk = "junk"
  Quit = "q"
  Limit = 3
  MaxConns = 2
  MaxSent = 5
SPECIFICATION FairSpec
INVARIANTS TypeOK LinesTile LineAsSent WholeLines StaleBytes
PROPERTY LineArrives
CHECK_DEADLOCK FALSE
