SPECIFICATION MCSpec
CHECK_DEADLOCK FALSE
CONSTANTS
  Platforms <- MCPlatforms
  NumJobs = 2
  Stalls = {"LockRel", "StreamStarve"}
  MaxCalls = 3
INVARIANTS
  FetchesWhatWasWritten
  CallsReachTheirChannel
  AnswersAreTrue
