SPECIFICATION Spec
CONSTANTS
    r1 = r1
    r2 = r2
    Resource = {r1, r2}
    Lists <- ShortLists
    Chains <- MixedChains
INVARIANTS
    AgreesWhileLive
    AsksUndecidedOnly
    GrantsAreReal
PROPERTY ImplementsOrCheck
\* A call ends.
CHECK_DEADLOCK FALSE
