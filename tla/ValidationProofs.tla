--------------------------- MODULE ValidationProofs ---------------------------
(***************************************************************************)
(* Proofs about Validation, for any allowlists, tokens, leeway and clock:  *)
(* what an accepted token names, when its claims expire, and what is wrong *)
(* with a refused one.                                                     *)
(***************************************************************************)
EXTENDS Validation, TLAPS

TypeOK ==
    /\ issuers \in Allowlists /\ audiences \in Allowlists
    /\ raw.iss.kind \in {"absent", "other", "text"}
    /\ raw.aud \in Audiences /\ raw.exp \in Expiries
    /\ now \in Nat

\* An accepted token has passed every check, and its claims are its own.
Passed ==
    outcome[1] = "claims" =>
        /\ outcome = <<"claims", claimsFromMapClaims(raw)>>
        /\ Parses(raw)
        /\ Permits(issuers, {outcome[2].issuer})
        /\ Permits(audiences, ToSet(outcome[2].audience))

\* A refused token has failed one.
Refused ==
    outcome = Invalid =>
        \/ ~Parses(raw)
        \/ ~Permits(issuers, {stringClaim(raw.iss)})
        \/ ~Permits(audiences, ToSet(audienceClaim(raw.aud)))

IInv == TypeOK /\ Passed /\ Refused
-----------------------------------------------------------------------------
\* The inputs are of their type in every initial state.
LEMMA InitInv == Init => IInv
<1> SUFFICES ASSUME Init PROVE IInv
  OBVIOUS
<1>1. TypeOK
  <2>1. raw.aud \in Audiences /\ raw.exp \in Expiries
    BY DEF Init
  <2>2. raw.iss \in {Absent, [Absent EXCEPT !.kind = "other"]} \cup {OfText(t) : t \in Text}
    BY DEF Init
  <2>3. raw.iss.kind \in {"absent", "other", "text"}
    BY <2>2 DEF Absent, OfText
  <2>4. now \in Nat
    <3>1. now \in 0..Horizon
      BY DEF Init
    <3>2. Horizon \in Nat
      BY ValidationAssumption
    <3> QED
      BY <3>1, <3>2
  <2>5. issuers \in Allowlists /\ audiences \in Allowlists
    BY DEF Init
  <2> QED
    BY <2>1, <2>3, <2>4, <2>5 DEF TypeOK
<1>2. Passed /\ Refused
  BY DEF Init, Passed, Refused, Unasked, Invalid
<1> QED
  BY <1>1, <1>2 DEF IInv

\* Each call leaves its own record.
LEMMA NextInv == IInv /\ [Next]_vars => IInv'
<1> SUFFICES ASSUME IInv, [Next]_vars PROVE IInv'
  OBVIOUS
<1> USE DEF IInv
<1>1. UNCHANGED <<issuers, audiences, raw, now>>
  BY DEF Next, ValidateToken, vars
<1>2. TypeOK'
  BY <1>1 DEF TypeOK
<1>3. CASE ValidateToken
  <2> DEFINE claims == claimsFromMapClaims(raw)
  <2>1. CASE /\ Parses(raw)
             /\ Permits(issuers, {claims.issuer})
             /\ Permits(audiences, ToSet(claims.audience))
    <3>1. outcome' = <<"claims", claims>>
      BY <1>3, <2>1 DEF ValidateToken
    <3>2. Passed'
      BY <1>1, <2>1, <3>1 DEF Passed, Parses, Permits
    <3>3. Refused'
      BY <3>1 DEF Refused, Invalid
    <3> QED
      BY <1>2, <3>2, <3>3
  <2>2. CASE ~(/\ Parses(raw)
               /\ Permits(issuers, {claims.issuer})
               /\ Permits(audiences, ToSet(claims.audience)))
    <3>1. outcome' = Invalid
      BY <1>3, <2>2 DEF ValidateToken
    <3>2. claims.issuer = stringClaim(raw.iss) /\ claims.audience = audienceClaim(raw.aud)
      BY DEF claimsFromMapClaims
    <3>3. Refused'
      BY <1>1, <2>2, <3>2 DEF Refused, Parses, Permits
    <3> QED
      BY <1>2, <3>1, <3>3 DEF Passed, Invalid
  <2> QED
    BY <2>1, <2>2
<1>4. CASE UNCHANGED vars
  <2>1. UNCHANGED outcome
    BY <1>4 DEF vars
  <2>2. Passed' /\ Refused'
    BY <1>1, <2>1 DEF Passed, Refused, Parses, Permits
  <2> QED
    BY <1>2, <2>2
<1> QED
  BY <1>3, <1>4 DEF Next

\* In every reachable state an accepted token has passed every check, and a
\* refused one has failed one.
THEOREM Invariant == Spec => []IInv
<1> QED
  BY InitInv, NextInv, PTL DEF Spec
-----------------------------------------------------------------------------
\* allowedValues merges the two settings of a list and drops the empty strings.
LEMMA Allowed ==
    ASSUME NEW list \in Allowlists
    PROVE  allowedValues(list) = Configured(list)
<1>1. list.single \in Text /\ list.plural \in Seq(Text)
  BY ValidationAssumption
<1>2. \A i \in DOMAIN list.plural : list.plural[i] \in Text
  BY <1>1
<1> QED
  BY <1>1, <1>2 DEF allowedValues, Configured, ToSet

\* An audience of the claims is an entry of the token's own list.
LEMMA OwnAudience ==
    ASSUME NEW claim, NEW v \in ToSet(audienceClaim(claim))
    PROVE  \E i \in DOMAIN claim.values : claim.values[i] = v
<1>1. CASE claim.kind \in {"text", "list"}
  <2>1. audienceClaim(claim) = Texts(claim.values)
    BY <1>1 DEF audienceClaim
  <2> QED
    BY <2>1 DEF ToSet, Texts
<1>2. CASE claim.kind \notin {"text", "list"}
  <2>1. audienceClaim(claim) = <<>>
    BY <1>2 DEF audienceClaim
  <2> QED
    BY <2>1 DEF ToSet
<1> QED
  BY <1>1, <1>2

\* No configured audience of a string or an array is lost.
LEMMA NoneLost ==
    ASSUME NEW list, NEW claim, claim.kind \in {"text", "list"},
           NEW i \in DOMAIN claim.values, claim.values[i] \in Configured(list)
    PROVE  claim.values[i] \in ToSet(audienceClaim(claim))
<1>1. claim.values[i] \notin {"", NotText}
  BY ValidationAssumption DEF Configured
<1>2. i \in DOMAIN Texts(claim.values) /\ Texts(claim.values)[i] = claim.values[i]
  BY <1>1 DEF Texts
<1> QED
  BY <1>2 DEF audienceClaim, ToSet

\* validator.go:57-78: for any pair of allowlists, empty strings among them or
\* not, an accepted token names a configured issuer and a configured audience.
THEOREM Named == Spec => []NamesConfigured
<1>1. IInv => NamesConfigured
  <2> SUFFICES ASSUME IInv, Accepted
               PROVE  /\ Configured(issuers) # {} =>
                            raw.iss.kind = "text" /\ raw.iss.values[1] \in Configured(issuers)
                      /\ Configured(audiences) # {} =>
                            \E i \in DOMAIN raw.aud.values :
                                raw.aud.values[i] \in Configured(audiences)
    BY DEF NamesConfigured
  <2>1. /\ outcome[2] = claimsFromMapClaims(raw)
        /\ Permits(issuers, {outcome[2].issuer})
        /\ Permits(audiences, ToSet(outcome[2].audience))
    BY DEF IInv, Passed, Accepted
  <2>2. /\ allowedValues(issuers) = Configured(issuers)
        /\ allowedValues(audiences) = Configured(audiences)
    BY Allowed DEF IInv, TypeOK
  <2>3. ASSUME Configured(issuers) # {}
        PROVE  raw.iss.kind = "text" /\ raw.iss.values[1] \in Configured(issuers)
    <3>1. stringClaim(raw.iss) \in Configured(issuers)
      BY <2>1, <2>2, <2>3 DEF Permits, claimsFromMapClaims
    <3>2. stringClaim(raw.iss) # ""
      BY <3>1 DEF Configured
    <3> QED
      BY <3>1, <3>2 DEF stringClaim
  <2>4. ASSUME Configured(audiences) # {}
        PROVE  \E i \in DOMAIN raw.aud.values : raw.aud.values[i] \in Configured(audiences)
    <3>1. PICK v \in ToSet(audienceClaim(raw.aud)) : v \in Configured(audiences)
      BY <2>1, <2>2, <2>4 DEF Permits, claimsFromMapClaims
    <3> QED
      BY <3>1, OwnAudience
  <2> QED
    BY <2>3, <2>4
<1> QED
  BY <1>1, Invariant, PTL

\* claims.go:128-143 beside revocation.go:65: for any expiry the parser accepts,
\* whole or not, the claims Reverify compares with its clock hold it to the second.
THEOREM Expiry == Spec => []ExpiryIsKnown
<1>1. IInv => ExpiryIsKnown
  <2> SUFFICES ASSUME IInv, Accepted
               PROVE  /\ outcome[2].expiresAt # <<>>
                      /\ 2 * outcome[2].expiresAt[1] <= raw.exp.time
                      /\ raw.exp.time < 2 * outcome[2].expiresAt[1] + 2
    BY DEF ExpiryIsKnown
  <2>1. outcome[2] = claimsFromMapClaims(raw) /\ raw.exp.kind = "float"
    BY DEF IInv, Passed, Accepted, Parses
  <2>2. outcome[2].expiresAt = <<raw.exp.time \div 2>>
    BY <2>1 DEF claimsFromMapClaims, numericDateClaim
  <2>3. raw.exp.time \in Nat
    BY ValidationAssumption DEF IInv, TypeOK, Raw
  <2>4. \A t \in Nat : 2 * (t \div 2) <= t /\ t < 2 * (t \div 2) + 2
    OBVIOUS
  <2> QED
    BY <2>2, <2>3, <2>4
<1> QED
  BY <1>1, Invariant, PTL

\* validator.go:57-107: for any pair of allowlists, a refused token has no live
\* expiry, or names none of the configured issuers, or none of the audiences.
THEOREM Rightful == Spec => []RightfulPasses
<1>1. IInv => RightfulPasses
  <2> SUFFICES ASSUME IInv, outcome = Invalid,
                      raw.exp.kind = "float", raw.exp.time # 0,
                      ~(now + 1 >= raw.exp.time + 2 * Leeway)
               PROVE  \/ /\ Configured(issuers) # {}
                         /\ raw.iss.kind = "text" =>
                               raw.iss.values[1] \notin Configured(issuers)
                      \/ /\ Configured(audiences) # {}
                         /\ raw.aud.kind \in {"text", "list"} =>
                               \A i \in DOMAIN raw.aud.values :
                                   raw.aud.values[i] \notin Configured(audiences)
    BY DEF RightfulPasses
  <2>1. /\ allowedValues(issuers) = Configured(issuers)
        /\ allowedValues(audiences) = Configured(audiences)
    BY Allowed DEF IInv, TypeOK
  <2>2. Parses(raw)
    <3>1. raw.exp.time \in Nat /\ now \in Nat /\ Leeway \in Nat
      BY ValidationAssumption DEF IInv, TypeOK, Raw
    <3>2. \A t, n, l \in Nat : ~(n + 1 >= t + 2 * l) => n < 2 * (t \div 2 + l)
      OBVIOUS
    <3>3. raw.exp.time > 0
      BY <3>1
    <3> QED
      BY <3>1, <3>2, <3>3 DEF Parses
  <2>3. CASE ~Permits(issuers, {stringClaim(raw.iss)})
    BY <2>1, <2>3 DEF Permits, stringClaim
  <2>4. CASE ~Permits(audiences, ToSet(audienceClaim(raw.aud)))
    <3>1. /\ Configured(audiences) # {}
          /\ \A v \in ToSet(audienceClaim(raw.aud)) : v \notin Configured(audiences)
      BY <2>1, <2>4 DEF Permits
    <3> QED
      BY <3>1, NoneLost
  <2> QED
    BY <2>2, <2>3, <2>4 DEF IInv, Refused
<1> QED
  BY <1>1, Invariant, PTL
=============================================================================
