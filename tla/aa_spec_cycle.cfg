\* Spec section 8: a PlusStep traversal in modulo mode cycles through
\* mask + 1 addresses.
CONSTANTS
  Stepi0 = 3
  Stepj0 = 510
SPECIFICATION Spec
INVARIANT SpecPlusStepCycle
CHECK_DEADLOCK FALSE
