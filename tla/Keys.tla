--------------------------------- MODULE Keys ---------------------------------
(***************************************************************************)
(* Where the verification keys come from and how long they are kept fresh: *)
(* NewAuth, validateConfig and Close (auth.go), newKeyFunc (validator.go)  *)
(* and the API Gateway adapter's NewAuth, over a provider that rotates its *)
(* keys and fails, and the background refresher of the keyfunc library,    *)
(* which is modelled from what validator.go asks of it: it fetches under a *)
(* context, with a timeout, reports failures and stops with the context.   *)
(***************************************************************************)
EXTENDS Naturals, FiniteSets

CONSTANTS
    Key,          \* verification keys
    FuncKeys,     \* those a configured KeyFunc resolves to
    SigningKey,   \* the one configured as SigningKey
    MaxRotations  \* bound: how often the provider changes its keys

ASSUME KeysAssumption ==
    FuncKeys \subseteq Key /\ SigningKey \in Key /\ MaxRotations \in Nat

\* Which fields of the Config are set.
Config == [keyFunc : BOOLEAN, signingKey : BOOLEAN, jwksURL : BOOLEAN,
           timeout : BOOLEAN, interval : BOOLEAN, handler : BOOLEAN]

VARIABLES
    config,      \* what NewJWTValidator is given
    auth,        \* "none", "building", "built", "failed"
    closed,      \* the application has called Close
    cancelled,   \* the context of the refresher is done
    refresher,   \* "none", "idle", "fetching", "answered", "ended"
    answer,      \* the keys on their way from the provider
    keys,        \* the keys of the last fetch that succeeded
    provider,    \* "up", "down" (answers with a failure) or "hung"
    published,   \* the keys the provider publishes
    held,        \* all it has published so far
    rotations,   \* how often it has changed them
    stale,       \* the last fetch failed
    told         \* the error handler was called since the last that succeeded

authVars == <<config, auth, closed, cancelled>>
cacheVars == <<answer, keys, stale, told>>
providerVars == <<provider, published, held, rotations>>
vars == <<authVars, refresher, cacheVars, providerVars>>

-----------------------------------------------------------------------------
\* Mutant: a KeyFunc may be combined.
validateConfigKeyFuncFirst(c) ==
    (c.keyFunc \/ c.signingKey \/ c.jwksURL) /\ ~(c.signingKey /\ c.jwksURL)
\* Exactly one source.
validateConfig(c) ==
    /\ c.keyFunc \/ c.signingKey \/ c.jwksURL
    /\ ~(c.keyFunc /\ (c.signingKey \/ c.jwksURL))
    /\ ~(c.signingKey /\ c.jwksURL)

\* The gateway passes on neither the timeout nor the interval nor the handler.
GatewayConfig(c) == [c EXCEPT !.timeout = FALSE, !.interval = FALSE, !.handler = FALSE]

\* newKeyFunc tries the sources in this order.
UsesJWKS(c) == ~c.keyFunc /\ ~c.signingKey
KeyFunc ==
    IF config.keyFunc THEN FuncKeys
    ELSE IF config.signingKey THEN {SigningKey} ELSE keys

\* Mutant: a handler alone does not count as an override.
OverridesByTimes(c) == c.timeout \/ c.interval
\* The library is given the handler with the other overrides.
Overrides(c) == c.timeout \/ c.interval \/ c.handler
Reports == Overrides(config) /\ config.handler

Init ==
    /\ config \in Config
    /\ auth = "none"
    /\ closed = FALSE
    /\ cancelled = FALSE
    /\ refresher = "none"
    /\ answer = {}
    /\ keys = {}
    /\ provider \in {"up", "down", "hung"}
    /\ published \in {{k} : k \in Key}
    /\ held = published
    /\ rotations = 0
    /\ stale = FALSE
    /\ told = FALSE

-----------------------------------------------------------------------------
Construct(c) ==
    /\ auth = "none"
    /\ config' = c
    /\ auth' = IF ~validateConfig(c) THEN "failed"
               ELSE IF UsesJWKS(c) THEN "building" ELSE "built"
    /\ UNCHANGED <<closed, cancelled, refresher, cacheVars, providerVars>>

NewAuth == Construct(config)
NewGatewayAuth == Construct(GatewayConfig(config))

\* A fetch ends: with keys, or without.
Stored(new) == keys' = new /\ answer' = {} /\ stale' = FALSE /\ told' = FALSE
Failed ==
    /\ stale' = TRUE
    /\ told' = (told \/ Reports)
    /\ answer' = {}
    /\ UNCHANGED keys

\* The library fetches once before it returns, and starts its goroutine.
FirstFetch ==
    /\ auth = "building" /\ refresher = "none"
    /\ IF provider = "up" THEN Stored(published) ELSE Failed
    /\ refresher' = "idle"
    /\ UNCHANGED <<authVars, providerVars>>

\* Mutant: the context of a failed construction stays open.
ConstructionFailsOpen ==
    /\ auth = "building"
    /\ auth' = "failed"
    /\ UNCHANGED <<config, closed, cancelled, refresher, cacheVars, providerVars>>

\* Whatever the library refuses, before its goroutine runs or after.
ConstructionFails ==
    /\ auth = "building"
    /\ auth' = "failed"
    /\ cancelled' = TRUE
    /\ UNCHANGED <<config, closed, refresher, cacheVars, providerVars>>

\* Mutant: newKeyFunc defers the cancel of its context.
ConstructedDeferred ==
    /\ auth = "building" /\ refresher # "none"
    /\ auth' = "built"
    /\ cancelled' = TRUE
    /\ UNCHANGED <<config, closed, refresher, cacheVars, providerVars>>

Constructed ==
    /\ auth = "building" /\ refresher # "none"
    /\ auth' = "built"
    /\ UNCHANGED <<config, closed, cancelled, refresher, cacheVars, providerVars>>

\* Only a JWKS has something to release; Close waits for nobody.
Close ==
    /\ auth = "built" /\ ~closed
    /\ closed' = TRUE
    /\ cancelled' = (cancelled \/ UsesJWKS(config))
    /\ UNCHANGED <<config, auth, refresher, cacheVars, providerVars>>

-----------------------------------------------------------------------------
\* The refresher: a tick, the answer, the new keys; or the fetch fails, by the
\* provider, by its timeout, or because the context is done.  A tick may still be
\* taken when the context is done already.
Fetch ==
    /\ refresher = "idle"
    /\ refresher' = "fetching"
    /\ UNCHANGED <<authVars, cacheVars, providerVars>>

Answer ==
    /\ refresher = "fetching" /\ provider = "up"
    /\ refresher' = "answered"
    /\ answer' = published
    /\ UNCHANGED <<authVars, keys, stale, told, providerVars>>

Store ==
    /\ refresher = "answered"
    /\ Stored(answer)
    /\ refresher' = "idle"
    /\ UNCHANGED <<authVars, providerVars>>

GivesUp == cancelled \/ provider \in {"down", "hung"}
Fail ==
    /\ refresher \in {"fetching", "answered"}
    /\ IF refresher = "fetching" THEN GivesUp ELSE cancelled
    /\ Failed
    /\ refresher' = "idle"
    /\ UNCHANGED <<authVars, providerVars>>

End ==
    /\ refresher = "idle" /\ cancelled
    /\ refresher' = "ended"
    /\ UNCHANGED <<authVars, cacheVars, providerVars>>

Refresher == Fetch \/ Answer \/ Store \/ Fail \/ End

Rotate ==
    /\ rotations < MaxRotations
    /\ rotations' = rotations + 1
    /\ published' \in SUBSET Key \ {published, {}}
    /\ held' = held \cup published'
    /\ UNCHANGED <<authVars, refresher, cacheVars, provider>>

ProviderFaults ==
    /\ provider' \in {"up", "down", "hung"} \ {provider}
    /\ UNCHANGED <<authVars, refresher, cacheVars, published, held, rotations>>

Building == NewAuth \/ NewGatewayAuth \/ FirstFetch \/ ConstructionFails \/ Constructed
Next == Building \/ Close \/ Refresher \/ Rotate \/ ProviderFaults

\* The constructor and the refresher run on, and a refresher that finds a tick and
\* its context ready, time after time, does not take the tick each time: select
\* chooses at random.  The provider and the application owe nothing.
Spec == Init /\ [][Next]_vars /\ WF_vars(Building) /\ WF_vars(Refresher) /\ SF_vars(End)
-----------------------------------------------------------------------------
\* An Auth never accepts a key that one of its configured sources has never
\* held: two sources never stand behind one Auth, the first silently for both.
OnlyHeldKeys ==
    auth = "built" =>
        /\ config.keyFunc => KeyFunc \subseteq FuncKeys
        /\ config.signingKey => KeyFunc \subseteq {SigningKey}
        /\ config.jwksURL => KeyFunc \subseteq held

\* Keys are never stale in silence: whoever configured a handler was told of
\* the failure, also if nothing else about the JWKS is configured.
NoSilentFailure == stale /\ config.handler => told

\* Close and a failed construction end the refresher, through whatever it still
\* fetches, and no fetch holds it up: also a provider that hangs, for good or now
\* and then, keeps none waiting.
Released ==
    /\ (closed \/ auth = "failed") ~> (refresher \in {"none", "ended"})
    /\ refresher = "fetching" ~> refresher # "fetching"

\* Once the provider answers for good and rests, a retired key is no longer
\* accepted and a new one is, for as long as the Auth is open.
FollowsProvider ==
    <>[](provider = "up") =>
        <>[](auth = "built" /\ UsesJWKS(config) /\ ~closed => KeyFunc = published)
=============================================================================
