SPECIFICATION Spec
CONSTANTS
    FrontEnds = {"fiber"}
    Claims = {c1}
    Faults <- SomeFaults
    Origins <- SomeOrigins
    Allowlists <- SomeAllowlists
    Handlers <- TwoHeaders
INVARIANT WholeResponseArrives
\* The request is answered or passed on.
CHECK_DEADLOCK FALSE
