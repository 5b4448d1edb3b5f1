SPECIFICATION Spec
CONSTANTS
    Headers <- SomeHeaders
    Protocols <- SomeProtocols
    Queries <- SomeQueries
    Cookies <- SomeCookies
    Chains <- SomeChains
INVARIANTS
    SameToken
    HeaderDecides
    ConfiguredOnly
\* Both extractions return.
CHECK_DEADLOCK FALSE
