\* Modulo post-modification and offsets against the cyclic reference.
CONSTANTS
  Stepi0 = 3
  Stepj0 = 510
SPECIFICATION Spec
INVARIANT ModuloStepWraps
INVARIANT OffsetWraps
\* Each probe is computed once; the model stops there.
CHECK_DEADLOCK FALSE
