CONSTANTS
  PROG <- ProgPage
  PcEndian = 0
  IM <- IM0
  IC <- IC0
  VIM = TRUE
  VIC = FALSE
  VecAddrs = {96}
  MaxCycles = 70
  MaxSignals = 2
  Quiet = 0

SPECIFICATION Spec

INVARIANT LoopSaveRestore

\* Expected to fail: bkrepsto stores the start page for the end.
CHECK_DEADLOCK FALSE
