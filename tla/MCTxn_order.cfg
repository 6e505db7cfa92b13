SPECIFICATION FairSpec
CONSTANTS
  t1 = t1
  t2 = t2
  Threads = {t1}
  TidOf <- UniqueTid
  Insts = {i1, i2}
  Payloads = {p1}
  NULL = NULL
  ArraySizes = {0, 2}
  DefaultArraySize = 2
  CmdCountMax = 4
  CustomOpBegin = 16
  CustomOpNext = 21
  LoadPmEndInternal = 21
  CustomOpMax = 22
  UserOps = {16}
  ControlOps = {5}
  Masks = {1}
  Calls <- OrderCalls
  MaxReqs = 3
  AllocMayFail = FALSE
  IoMayFail = FALSE
CHECK_DEADLOCK FALSE
PROPERTIES
  ImplementsOrder
  FlushReturns
