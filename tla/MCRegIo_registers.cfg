SPECIFICATION Spec
CONSTANTS
  Threads = {t1, t2}
  Arrays = {a1, a2, a3}
  NULL = NULL
  InitialSlots = 1
  MaxSlots = 3
  StartCol = 0
  NumCols = 1
  ColWords = 4
  Offs = {3, 4}
  Sizes = {0, 1, 2}
  Kinds = {"Write32", "Read32", "MaskPoll", "BlockWrite32", "CmdWrite"}
  MaxAccesses = 4
  MaxHeld = 2
  AllocMayFail = TRUE
SYMMETRY Symmetry
CHECK_DEADLOCK FALSE
INVARIANTS
  EachAccessInOnePlace
  CaptureIsTheSession
  ArraysOwnedOnce
