CONSTANTS
    Gens <- AllGens
    DevCols = 4
    NumRows = 4
    Parts <- TwoParts
    InitOpts <- Opts
    Requests <- Reqs
    ColumnReqs <- ColReqs
    Calls <- AllCalls
    MaxCalls = 3
    MaxFaults = 1
CHECK_DEADLOCK FALSE
SPECIFICATION Spec
INVARIANTS
  ClosedAtReturn
  NoGatedAccess
  CallsKeepTheirPromise
PROPERTIES
  OthersUntouched
