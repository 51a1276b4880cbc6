\* The accumulator arithmetic against exact integer arithmetic.
SPECIFICATION Spec
INVARIANT AddSubExact
INVARIANT StoreSaturates
INVARIANT ArithmeticShift
INVARIANT ExpNormalizes
INVARIANT ProductBusScales
INVARIANT ProductSumOverflow
INVARIANT DivsDivides
INVARIANT MinMaxScanFinds
INVARIANT VtrTraceback
INVARIANT MacAccumulates
INVARIANT StackRoundTrip
INVARIANT NormNormalises
INVARIANT SwapExchanges
\* Each probe is computed once; the model stops there.
CHECK_DEADLOCK FALSE
