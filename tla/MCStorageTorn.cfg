CONSTANTS
  Workers = {w1, w2}
  Users <- OneUser
  FileNames <- OneName
  Passwords = {p1}
  Commands <- UploadCommands
  Blocks = 2
  Tmps = 2
  Persistent = TRUE
  MaxTasks = 2
  Seconds = {1}
  MaxMishaps = 0
  None = None
SPECIFICATION Spec
INVARIANT FileWhole
CHECK_DEADLOCK FALSE
