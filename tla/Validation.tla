------------------------------ MODULE Validation ------------------------------
(***************************************************************************)
(* JWTValidator.ValidateToken (validator.go) and the normalisation of      *)
(* claims behind it (claims.go): issuer and audience allowlists, and the   *)
(* expiry Reverify will rely on.                                           *)
(***************************************************************************)
EXTENDS Naturals, Sequences, FiniteSets, SequencesExt

CONSTANTS
    Text,       \* strings: issuers and audiences, "" included
    Allowlists, \* configured values: a single one and a list of more
    Audiences,  \* raw audience claims
    Expiries,   \* raw expiry claims
    Leeway,     \* the parser's leeway, in seconds
    Horizon     \* bound on the clock, in half seconds

\* A raw claim as the JSON decoder leaves it: it makes no other Go type of a
\* string, an array or a number.  The time of a "float" is in half seconds.
RawKind == {"absent", "text", "list", "float", "other"}
NotText == "not a string"
Raw == [kind : RawKind, values : Seq(Text \cup {NotText}), time : Nat]

ASSUME ValidationAssumption ==
    /\ "" \in Text /\ NotText \notin Text
    /\ Allowlists \subseteq [single : Text, plural : Seq(Text)]
    /\ Audiences \cup Expiries \subseteq Raw
    /\ Leeway \in Nat /\ Horizon \in Nat

VARIABLES
    issuers, audiences,  \* the configuration
    raw,                 \* the token's claims: "iss", "aud" and "exp"
    now,                 \* the clock, in half seconds
    outcome              \* what ValidateToken returns

vars == <<issuers, audiences, raw, now, outcome>>

-----------------------------------------------------------------------------
Absent == [kind |-> "absent", values |-> <<>>, time |-> 0]
OfText(t) == [kind |-> "text", values |-> <<t>>, time |-> 0]
Unasked == <<"unasked">>
Invalid == <<"invalid">>

\* Mutant: the legacy single value is forgotten when there is a list.
allowedValuesListFirst(list) ==
    (IF list.plural = <<>> THEN {list.single} ELSE ToSet(list.plural)) \ {""}
\* Mutant: empty strings of the list are allowed values.
allowedValuesKeepingEmpty(list) == ({list.single} \ {""}) \cup ToSet(list.plural)
allowedValues(list) == ({list.single} \cup ToSet(list.plural)) \ {""}

stringClaim(claim) == IF claim.kind = "text" THEN claim.values[1] ELSE ""

\* What is left of a list: each string at the position it had, for only their
\* order counts.
Texts(values) == [i \in {j \in DOMAIN values : values[j] \notin {"", NotText}} |-> values[i]]

audienceClaim(claim) ==
    IF claim.kind \in {"text", "list"} THEN Texts(claim.values) ELSE <<>>

\* Mutant: a fraction is rounded up.
numericDateRoundedUp(claim) ==
    IF claim.kind = "float" THEN <<(claim.time + 1) \div 2>> ELSE <<>>
\* A date in seconds, cut off below; <<>> is nil.
numericDateClaim(claim) == IF claim.kind = "float" THEN <<claim.time \div 2>> ELSE <<>>

claimsFromMapClaims(map) ==
    [issuer |-> stringClaim(map.iss), audience |-> audienceClaim(map.aud),
     expiresAt |-> numericDateClaim(map.exp)]

\* The jwt parser, signature and other dates being right: an expiry is required,
\* zero counts as none, and the leeway applies to the date cut off to a second.
Parses(map) ==
    /\ map.exp.kind = "float" /\ map.exp.time > 0
    /\ now < 2 * (map.exp.time \div 2 + Leeway)

Permits(list, candidates) ==
    allowedValues(list) = {} \/ allowedValues(list) \cap candidates # {}

Init ==
    /\ issuers \in Allowlists
    /\ audiences \in Allowlists
    /\ raw \in [iss : {Absent, [Absent EXCEPT !.kind = "other"]} \cup {OfText(t) : t \in Text},
                aud : Audiences, exp : Expiries]
    /\ now \in 0..Horizon
    /\ outcome = Unasked

ValidateToken ==
    /\ outcome = Unasked
    /\ LET claims == claimsFromMapClaims(raw)
           passes == /\ Parses(raw)
                     /\ Permits(issuers, {claims.issuer})
                     /\ Permits(audiences, ToSet(claims.audience))
       IN  outcome' = IF passes THEN <<"claims", claims>> ELSE Invalid
    /\ UNCHANGED <<issuers, audiences, raw, now>>

Next == ValidateToken
Spec == Init /\ [][Next]_vars
-----------------------------------------------------------------------------
Configured(list) ==
    {t \in Text \ {""} : t = list.single \/ \E i \in DOMAIN list.plural : list.plural[i] = t}
Accepted == outcome[1] = "claims"

\* An accepted token names a configured issuer and a configured audience, each
\* as a string of its own, wherever at least one is configured.
NamesConfigured ==
    Accepted =>
        /\ Configured(issuers) # {} =>
              raw.iss.kind = "text" /\ raw.iss.values[1] \in Configured(issuers)
        /\ Configured(audiences) # {} =>
              \E i \in DOMAIN raw.aud.values : raw.aud.values[i] \in Configured(audiences)

\* Reverify can tell when an accepted token expires: the claims hold a date, no
\* later than the token's own, and less than a second earlier.
ExpiryIsKnown ==
    Accepted =>
        LET date == outcome[2].expiresAt
        IN  date # <<>> /\ 2 * date[1] <= raw.exp.time /\ raw.exp.time < 2 * date[1] + 2

\* A rightful token is not turned away, whatever else the settings hold: one that
\* is refused has no live expiry (half a second of it is lost in the cut to whole
\* ones), or some issuer is configured and not its own, or some audience is
\* configured and none of its own is.
RightfulPasses ==
    outcome = Invalid =>
        \/ raw.exp.kind # "float" \/ raw.exp.time = 0
        \/ now + 1 >= raw.exp.time + 2 * Leeway
        \/ /\ Configured(issuers) # {}
           /\ raw.iss.kind = "text" => raw.iss.values[1] \notin Configured(issuers)
        \/ /\ Configured(audiences) # {}
           /\ raw.aud.kind \in {"text", "list"} =>
                 \A i \in DOMAIN raw.aud.values : raw.aud.values[i] \notin Configured(audiences)
=============================================================================
