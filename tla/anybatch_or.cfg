SPECIFICATION Spec
CONSTANTS
    r1 = r1
    r2 = r2
    Resource = {r1, r2}
    Lists <- ShortLists
    Chains <- FanOutChains
INVARIANT AgreesAlways
\* A call ends.
CHECK_DEADLOCK FALSE
