SPECIFICATION Spec
CONSTANTS
    Text = {"", "a", "b", "x"}
    Allowlists <- SomeAllowlists
    Audiences <- SomeAudiences
    Expiries <- SomeExpiries
    Leeway = 1
    Horizon = 8
INVARIANTS
    NamesConfigured
    ExpiryIsKnown
    RightfulPasses
\* Validation returns.
CHECK_DEADLOCK FALSE
