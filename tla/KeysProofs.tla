------------------------------ MODULE KeysProofs ------------------------------
(***************************************************************************)
(* Proofs about Keys, for any keys, any provider and any number of         *)
(* rotations.                                                              *)
(***************************************************************************)
EXTENDS Keys, TLAPS

\* Which steps of the constructor, the application and the refresher go together.
Stages ==
    /\ auth = "none" => ~closed /\ ~stale /\ refresher = "none"
    /\ auth \in {"building", "built"} => validateConfig(config)
    /\ auth = "building" \/ refresher # "none" => UsesJWKS(config)
    /\ closed => auth = "built" /\ (UsesJWKS(config) => cancelled)

\* The inductive invariant behind the two: what is stored or under way was
\* published at some time.
IInv ==
    /\ Stages
    /\ keys \cup answer \cup published \subseteq held
    /\ NoSilentFailure

\* The configuration stays one, and the refresher is in one of its five steps.
Types ==
    /\ config \in Config
    /\ refresher \in {"none", "idle", "fetching", "answered", "ended"}
    /\ closed \in BOOLEAN /\ cancelled \in BOOLEAN
    /\ stale \in BOOLEAN /\ told \in BOOLEAN

\* The types the other invariants rest on.
LEMMA TypesHold == Spec => []Types
<1>1. Init => Types
  BY DEF Init, Types
<1>2. Types /\ [Next]_vars => Types'
  <2> SUFFICES ASSUME Types, [Next]_vars PROVE Types'
    OBVIOUS
  <2> USE DEF Types, authVars, cacheVars, providerVars
  <2>1. CASE NewAuth
    BY <2>1 DEF NewAuth, Construct
  <2>2. CASE NewGatewayAuth
    BY <2>2 DEF NewGatewayAuth, Construct, GatewayConfig, Config
  <2>3. CASE FirstFetch
    BY <2>3 DEF FirstFetch, Stored, Failed
  <2>4. CASE ConstructionFails \/ Constructed
    BY <2>4 DEF ConstructionFails, Constructed
  <2>5. CASE Close
    BY <2>5 DEF Close
  <2>6. CASE Refresher
    BY <2>6 DEF Refresher, Fetch, Answer, Store, Fail, End, Stored, Failed
  <2>7. CASE Rotate \/ ProviderFaults
    BY <2>7 DEF Rotate, ProviderFaults
  <2>8. CASE UNCHANGED vars
    BY <2>8 DEF vars
  <2> QED
    BY <2>1, <2>2, <2>3, <2>4, <2>5, <2>6, <2>7, <2>8 DEF Next, Building
<1> QED
  BY <1>1, <1>2, PTL DEF Spec

\* Whoever configured a handler has it called on a failure: setting it is enough
\* for the overrides to be passed on.
LEMMA HandlerReports == config.handler => Reports
  BY DEF Reports, Overrides

\* A step of the constructor, the refresher included in it, keeps the invariant.
LEMMA BuildingKeeps == IInv /\ Types /\ Building => IInv'
<1> SUFFICES ASSUME IInv, Types, Building PROVE IInv'
  OBVIOUS
<1> USE DEF IInv, Stages, NoSilentFailure, Types, authVars, cacheVars, providerVars
<1>1. CASE NewAuth
  BY <1>1 DEF NewAuth, Construct, validateConfig, UsesJWKS
<1>2. CASE NewGatewayAuth
  BY <1>2 DEF NewGatewayAuth, Construct, GatewayConfig, validateConfig, UsesJWKS
<1>3. CASE FirstFetch
  BY <1>3, HandlerReports DEF FirstFetch, Stored, Failed, validateConfig, UsesJWKS
<1>4. CASE ConstructionFails
  BY <1>4 DEF ConstructionFails, validateConfig, UsesJWKS
<1>5. CASE Constructed
  BY <1>5 DEF Constructed, validateConfig, UsesJWKS
<1> QED
  BY <1>1, <1>2, <1>3, <1>4, <1>5 DEF Building

\* A step of the refresher keeps the invariant: it stores what was published, and
\* reports what fails.
LEMMA RefresherKeeps == IInv /\ Types /\ Refresher => IInv'
<1> SUFFICES ASSUME IInv, Types, Refresher PROVE IInv'
  OBVIOUS
<1> USE DEF IInv, Stages, NoSilentFailure, Types, authVars, cacheVars, providerVars
<1>1. CASE Fetch
  BY <1>1 DEF Fetch, validateConfig, UsesJWKS
<1>2. CASE Answer
  BY <1>2 DEF Answer, validateConfig, UsesJWKS
<1>3. CASE Store
  BY <1>3 DEF Store, Stored, validateConfig, UsesJWKS
<1>4. CASE Fail
  <2>1. /\ refresher \in {"fetching", "answered"} /\ refresher' = "idle"
        /\ UNCHANGED <<config, auth, closed, cancelled, keys, published, held>>
        /\ answer' = {} /\ stale' /\ (told' <=> told \/ Reports)
    BY <1>4 DEF Fail, Failed
  <2>2. Stages'
    BY <2>1 DEF validateConfig, UsesJWKS
  <2>3. NoSilentFailure'
    BY <2>1, HandlerReports
  <2> QED
    BY <2>1, <2>2, <2>3
<1>5. CASE End
  BY <1>5 DEF End, validateConfig, UsesJWKS
<1> QED
  BY <1>1, <1>2, <1>3, <1>4, <1>5 DEF Refresher

\* The inductive invariant of the key source, for every configuration and
\* whatever the provider does.
THEOREM Invariant == Spec => []IInv
<1>1. Init => IInv
  BY DEF Init, IInv, Stages, NoSilentFailure
<1>2. IInv /\ Types /\ [Next]_vars => IInv'
  <2> SUFFICES ASSUME IInv, Types, [Next]_vars PROVE IInv'
    OBVIOUS
  <2>1. CASE Building
    BY <2>1, BuildingKeeps
  <2>2. CASE Refresher
    BY <2>2, RefresherKeeps
  <2>3. CASE Close
    BY <2>3 DEF Close, IInv, Stages, NoSilentFailure, Types, cacheVars,
                providerVars, validateConfig, UsesJWKS
  <2>4. CASE Rotate
    BY <2>4 DEF Rotate, IInv, Stages, NoSilentFailure, authVars, cacheVars,
                validateConfig, UsesJWKS
  <2>5. CASE ProviderFaults \/ UNCHANGED vars
    BY <2>5 DEF ProviderFaults, vars, IInv, Stages, NoSilentFailure, authVars,
                cacheVars, providerVars, validateConfig, UsesJWKS
  <2> QED
    BY <2>1, <2>2, <2>3, <2>4, <2>5 DEF Next
<1> QED
  BY <1>1, <1>2, TypesHold, PTL DEF Spec

\* An Auth accepts no key that one of its configured sources has never held
\* (validateConfig, newKeyFunc).
THEOREM HeldOnly == Spec => []OnlyHeldKeys
<1>1. IInv /\ Types => OnlyHeldKeys
  BY DEF IInv, Stages, Types, Config, OnlyHeldKeys, KeyFunc, validateConfig
<1> QED
  BY <1>1, Invariant, TypesHold, PTL

\* A failed refresh is reported to a configured handler (newKeyFunc).
THEOREM Reported == Spec => []NoSilentFailure
<1>1. IInv => NoSilentFailure
  BY DEF IInv
<1> QED
  BY <1>1, Invariant, PTL
===============================================================================
