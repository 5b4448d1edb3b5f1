SPECIFICATION Spec
CONSTANTS
    Text = {"*", "read", "write", "doc", "w", "1"}
    Roles = {"viewer"}
    Actions <- SomeActions
    Resources <- SomeResources
    Grants <- SomeGrants
    RoleClaims <- SomeClaims
INVARIANTS
    GrantsExactly
    GrantsAreShown
\* The call returns.
CHECK_DEADLOCK FALSE
