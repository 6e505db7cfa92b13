SPECIFICATION Spec
CONSTANTS
    CallGenerations <- Programmed
    MaxCalls = 2
CHECK_DEADLOCK FALSE
INVARIANTS
  PortNumbersAgree
  DoesWhatWasAsked
  ClearLeavesOnlyThese
  HalvesMatchTheWhole
