\* Spec section 8 scenarios 1-3 (AddSub, saturation, shift right) against the code.
SPECIFICATION Spec
INVARIANT SpecAmeScenarios
\* Each probe is computed once; the model stops there.
CHECK_DEADLOCK FALSE
