CONSTANTS
  Workers = {w1, w2}
  Users <- TwoUsers
  FileNames <- OneName
  Passwords = {p1, p2}
  Commands <- AllCommands
  Blocks = 2
  Tmps = 1
  Persistent = TRUE
  MaxTasks = 3
  Seconds = {1, 2}
  MaxMishaps = 1
  None = None
SPECIFICATION Spec
SYMMETRY Symmetry
INVARIANTS TypeOK SignupOnce FilesOwned 
PROPERTIES AccountStable DownloadFaithful
CHECK_DEADLOCK FALSE
