\* One AME or data-move handler from every register set-up: latched overflow,
\* the Z/M flags, and the words a paired store leaves in memory.
CONSTANTS
  Inits <- MCInits
  Words <- MCWords
  ShiftImms <- MCShiftImms
  MaxOps = 1
  Stepi0 = 3
  Stepj0 = 510
  AguInits <- MCAguInits
  MemInits <- MCMemInits
  Pages = {1}
  MemImms <- MCMemImms
  MoveSteps <- MCMoveSteps
  PcValues = {70000}
SPECIFICATION MCDmSpec
INVARIANT DmTypeOK
INVARIANT FlagsDescribeWrite
INVARIANT SpillFill
INVARIANT ExchangeSwaps
PROPERTY OverflowLatched
\* A handler sequence is bounded by MaxOps and a throw stops the interpreter.
CHECK_DEADLOCK FALSE
