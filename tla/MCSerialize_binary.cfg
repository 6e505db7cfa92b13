SPECIFICATION Spec
CONSTANTS
    Commands <- MCCommands
    Limit <- MCLimit
    MaxCmds = 5
    MaxExports = 1
    Versions = {"v01", "v10"}
    OneVersion = TRUE
    Sources <- MCSources
    AllocMayFail = TRUE
CHECK_DEADLOCK FALSE
INVARIANTS
  WellFormed
  NoUpdateRegOnTwoPages
  BuffersSafe
  ContentKept
  PmCountRight
