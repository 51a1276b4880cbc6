CONSTANTS
  PROG <- ProgIsrLoops
  PcEndian = 0
  IM <- IM0
  IC <- IC0
  VIM = TRUE
  VIC = FALSE
  VecAddrs = {96}
  MaxCycles = 70
  MaxSignals = 2
  Quiet = 0

SPECIFICATION Spec

INVARIANT LoopSaveRestore

\* Expected to fail: bkreprst keeps a stale inner frame.
CHECK_DEADLOCK FALSE
