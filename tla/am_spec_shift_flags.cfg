\* Spec 4.2/4.4: Z and M after a saturating shift describe the stored accumulator.
CONSTANTS
  Inits <- MCInits
  Words <- MCWords
  ShiftImms <- MCShiftImms
  MaxOps = 1
SPECIFICATION MCSpec
INVARIANT SpecFlagsDescribeWrite
\* A handler sequence is bounded by MaxOps and a throw stops the interpreter.
CHECK_DEADLOCK FALSE
