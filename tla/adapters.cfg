SPECIFICATION Spec
CONSTANTS
    FrontEnds = {"http", "gin", "echo", "fiber", "gateway"}
    Claims = {c1, c2}
    Faults <- SomeFaults
    Origins <- SomeOrigins
    Allowlists <- SomeAllowlists
    Handlers <- SomeHandlers
INVARIANTS
    SameDecision
    PassesIfRight
    LastValuesArrive
\* The request is answered or passed on.
CHECK_DEADLOCK FALSE
