CONSTANTS
    Gens <- MlOnly
    DevCols = 4
    NumRows = 4
    Parts <- TwoParts
    InitOpts <- Opts
    Requests <- Reqs
    ColumnReqs <- ColReqs
    Calls <- AllCalls
    MaxCalls = 1
    MaxFaults = 1
CHECK_DEADLOCK FALSE
SPECIFICATION Spec
INVARIANT FailureReported
