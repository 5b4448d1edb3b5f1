SPECIFICATION Spec
CONSTANTS
    k1 = k1
    k2 = k2
    k3 = k3
    Key = {k1, k2, k3}
    FuncKeys <- SomeFuncKeys
    SigningKey = k2
    MaxRotations = 2
INVARIANTS
    OnlyHeldKeys
    NoSilentFailure
PROPERTIES
    Released
    FollowsProvider
\* An Auth without JWKS rests.
CHECK_DEADLOCK FALSE
