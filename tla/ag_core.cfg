\* Address-register handlers: bit-reversed addressing through loads and mov2.
CONSTANTS
  Units <- MCUnits
  Starts <- MCStarts
  Mods <- MCMods
  Steps7 <- MCSteps7
  Stepi0 = 3
  Stepj0 = 510
  PairSteps <- MCPairSteps
  MaxOps = 1
SPECIFICATION Spec
INVARIANT TypeOK
INVARIANT BitReversedAddressing
\* A handler sequence is bounded by MaxOps; the model stops there.
CHECK_DEADLOCK FALSE
