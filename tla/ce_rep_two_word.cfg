CONSTANTS
  PROG <- ProgRepTwoWord
  PcEndian = 0
  IM <- IM0
  IC <- IC0
  VIM = TRUE
  VIC = FALSE
  VecAddrs = {96}
  MaxCycles = 70
  MaxSignals = 2
  Quiet = 0

SPECIFICATION Spec

INVARIANT RepCount

\* Expected to fail: Run rewinds the PC by one word under rep.
CHECK_DEADLOCK FALSE
