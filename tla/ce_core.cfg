CONSTANTS
  PROG <- ProgCore
  PcEndian = 0
  IM <- IM0
  IC <- IC0
  VIM = TRUE
  VIC = FALSE
  VecAddrs = {96}
  MaxCycles = 100
  MaxSignals = 2
  Quiet = 30

SPECIFICATION FairSpec

INVARIANT TypeOK
INVARIANT LoopStackWellFormed
INVARIANT RepCount
INVARIANT LoopBodyCounts
INVARIANT IsrReturnRestores
PROPERTY LoopStackRefinement
PROPERTY InterruptAcceptance
PROPERTY InterruptsServed

\* Run(n) returns after MaxCycles cycles, or earlier on a fatal error.
CHECK_DEADLOCK FALSE
