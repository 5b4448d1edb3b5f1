SPECIFICATION Spec
CONSTANTS
    FrontEnds = {"http"}
    Claims = {c1}
    Faults <- SomeFaults
    Origins <- Paths
    Allowlists <- PathAllowlists
    Handlers <- TwoHeaders
INVARIANT OriginsExact
\* The request is answered or passed on.
CHECK_DEADLOCK FALSE
