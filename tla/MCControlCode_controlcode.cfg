SPECIFICATION Spec
CONSTANTS
    PageSize = 128
    ChainMargin = 16
    NumShimRegs = 2
    Addrs = {0, 1}
    ShimAddrs = {20}
    ExtAddrs = {40}
    Values <- MCValues
    Hints = {1}
    InstrOps = {"NOP", "MASK_WRITE"}
    Modes = {"plain", "async", "chain"}
    Sets = {3}
    Fills = {0, 8, 13}
    MaxCalls = 3
    Blocks <- MCBlocks
    Calls = {"Write32", "BlockWrite32", "BlockSet32", "Instr", "WaitUcDMA", "AddressPatching", "ConfigShimBd", "SRAM", "AddressPatching_PL", "ConfigMode", "Directive", "SetPad", "Preempt", "StartNewJob", "CondJob", "EndJob", "EndPage", "LoadCoresCP", "LoadCores"}
CHECK_DEADLOCK FALSE
INVARIANTS
  IssuedAsRequested
  PagesLoadable
  JobsFramed
  AsyncWritesWaited
