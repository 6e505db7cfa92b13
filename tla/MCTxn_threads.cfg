SPECIFICATION Spec
CONSTANTS
  t1 = t1
  t2 = t2
  Threads = {t1, t2}
  TidOf <- UniqueTid
  Insts = {i1, i2, i3}
  Payloads = {p1, p2}
  NULL = NULL
  ArraySizes = {1}
  DefaultArraySize = 1
  CmdCountMax = 4
  CustomOpBegin = 16
  CustomOpNext = 21
  LoadPmEndInternal = 22
  CustomOpMax = 23
  UserOps = {16}
  ControlOps = {5}
  Masks = {1}
  Calls <- ThreadsCalls
  MaxReqs = 1
  AllocMayFail = TRUE
  IoMayFail = TRUE
SYMMETRY Symmetry
VIEW WithoutOut
CHECK_DEADLOCK FALSE
INVARIANTS
  NoBadMemoryAccess
  PayloadOwnership
PROPERTIES
  ExportImmutable
