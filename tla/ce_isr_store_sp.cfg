CONSTANTS
  PROG <- ProgIsrSp
  PcEndian = 0
  IM <- IM0
  IC <- IC0
  VIM = TRUE
  VIC = FALSE
  VecAddrs = {96}
  MaxCycles = 70
  MaxSignals = 2
  Quiet = 0

SPECIFICATION Spec

INVARIANT IsrReturnRestores

\* Expected to fail: bkrepsto through sp overwrites the pushed PC.
CHECK_DEADLOCK FALSE
