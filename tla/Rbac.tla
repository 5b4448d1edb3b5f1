--------------------------------- MODULE Rbac ---------------------------------
(***************************************************************************)
(* RBACAuthorizer (authorization.go): Authorize and AuthorizeBatch, with   *)
(* the claim the roles come from and the permission strings; and the other *)
(* reader of that claim, ClaimReader.Strings (claimmap.go), from which a   *)
(* handler learns the roles.                                               *)
(***************************************************************************)
EXTENDS Naturals, Sequences, FiniteSets

CONSTANTS
    Text,       \* what stands between the colons of a string, "*" included
    Roles,      \* role names
    Actions,    \* the actions asked for: strings
    Resources,  \* the resources asked for: strings
    Grants,     \* the permission strings policies hold
    RoleClaims  \* values of the role claim

\* A string is the sequence of its segments between colons, each with blanks in
\* front of it or not; blanks behind, which TrimSpace takes off too, are left out.
Segment == [pad : BOOLEAN, text : Text]
String == Seq(Segment) \ {<<>>}

\* The claim is absent, a string, a []string, a []any, or of another type.
ClaimKind == {"absent", "string", "strings", "list", "other"}

\* A value of the claim: a string, with blanks around it or not, or (in a []any)
\* something else.
Value == [text : BOOLEAN, name : Roles \cup {""}, pad : BOOLEAN]

ASSUME RbacAssumption ==
    /\ "*" \in Text
    /\ Actions \cup Resources \cup Grants \subseteq String
    /\ RoleClaims \subseteq [kind : ClaimKind, values : SUBSET Value]

VARIABLES
    hasClaims,  \* input.Claims is not nil
    claim,      \* the role claim
    policies,   \* the receiver's Policies
    action,     \* the action asked for
    asked,      \* the resource list of the batch
    answer,     \* the map, or an error
    shown       \* what Strings returns: <<"not ok">> or <<"ok", values>>

input == <<hasClaims, claim, policies, action, asked>>
vars == <<input, answer, shown>>

-----------------------------------------------------------------------------
Wildcard == [pad |-> FALSE, text |-> "*"]

\* Only the blanks at the ends go: those behind a colon stay.
TrimSpace(s) == [s EXCEPT ![1].pad = FALSE]

\* Mutant: the halves are joined as they are.
permissionUntrimmed(a, r) == a \o r
\* action + ":" + resource, each trimmed.
permission(a, r) == TrimSpace(a) \o TrimSpace(r)

\* strings.Cut takes the first colon; a string without a colon matches nothing.
permissionMatches(granted, required) ==
    LET g == TrimSpace(granted)
        q == TrimSpace(required)
    IN  /\ Len(g) > 1 /\ Len(q) > 1
        /\ Head(g) \in {Wildcard, Head(q)}
        /\ Tail(g) \in {<<Wildcard>>, Tail(q)}

Empty(v) == v.name = "" /\ ~v.pad
Unpadded(v) == [v EXCEPT !.pad = FALSE]

\* The strings of the claim as they are; empty ones and other values are left out.
extractClaimStrings(c) ==
    IF c.kind \in {"string", "strings", "list"}
    THEN {v \in c.values : v.text /\ ~Empty(v)} ELSE {}

\* Mutant: a lone string is no list.
StringsOfLists(c) ==
    LET out == {Unpadded(v) : v \in c.values} IN
    IF c.kind \in {"strings", "list"} /\ \A v \in c.values : v.text /\ v.name # ""
    THEN <<"ok", out>> ELSE <<"not ok">>
\* A lone string as it is, the items of a list trimmed; a []any with another
\* value has none.
Strings(c) ==
    LET out == IF c.kind = "string" THEN {v \in c.values : ~Empty(v)}
               ELSE {Unpadded(v) : v \in {x \in c.values : x.name # ""}} IN
    IF c.kind \in {"absent", "other"} \/ out = {} \/ \E v \in c.values : ~v.text
    THEN <<"not ok">> ELSE <<"ok", out>>

\* Policies are looked up by the role as it stands.
PoliciesOf(v) == IF v.pad THEN {} ELSE policies[v.name]

Granted(r) ==
    \E role \in extractClaimStrings(claim) :
        \E g \in PoliciesOf(role) : permissionMatches(g, permission(action, r))

Init ==
    /\ hasClaims \in BOOLEAN
    /\ claim \in RoleClaims
    /\ policies \in [Roles -> SUBSET Grants]
    /\ action \in Actions
    /\ asked \in {{}} \cup {{r} : r \in Resources} \cup {Resources}
    /\ answer = <<"none">>
    /\ shown = <<"none">>

\* AuthorizeBatch, and Authorize, which is a batch of one.  Without claims it
\* fails, but on an empty list.
AuthorizeBatch ==
    /\ answer = <<"none">>
    /\ answer' = IF hasClaims \/ asked = {}
                 THEN <<"allowed", {r \in asked : Granted(r)}>>
                 ELSE <<"claims are required">>
    /\ UNCHANGED <<input, shown>>

\* A handler reads its roles.
ReadRoles ==
    /\ shown = <<"none">>
    /\ shown' = IF hasClaims THEN Strings(claim) ELSE <<"not ok">>
    /\ UNCHANGED <<input, answer>>

Next == AuthorizeBatch \/ ReadRoles
Spec == Init /\ [][Next]_vars
-----------------------------------------------------------------------------
\* "<action>:<resource>", wildcard on either side: what a policy grants, read
\* off the action and the resource and not off the joined string.  Blanks around
\* any of the three do not count.
Means(g, a, r) ==
    \E actions \in {TrimSpace(a), <<Wildcard>>}, things \in {TrimSpace(r), <<Wildcard>>} :
        TrimSpace(g) = actions \o things

\* What the roles of the claims are granted.
Held ==
    UNION {policies[role.name] : role \in
              {v \in claim.values : /\ claim.kind \in {"string", "strings", "list"}
                                    /\ v.text /\ ~v.pad /\ v.name # ""}}

HasWildcard(g) == \E i \in DOMAIN g : g[i].text = "*"

\* An answered resource is allowed exactly when a permission of a role of the
\* claims grants it.  An action with a colon of its own is cut at the wrong place,
\* which only wildcards can tell.
GrantsExactly ==
    answer[1] = "allowed" /\ (Len(action) = 1 \/ \A g \in Held : ~HasWildcard(g)) =>
        answer[2] = {r \in asked : hasClaims /\ \E g \in Held : Means(g, action, r)}

\* The two readers agree on what matters: a resource is never allowed for a role
\* that a handler does not see, unless the list holds more than strings.
GrantsAreShown ==
    answer[1] = "allowed" /\ answer[2] # {} /\ shown # <<"none">>
        /\ (\A v \in claim.values : v.text)
    => shown[1] = "ok" /\ \A r \in answer[2] : \E role \in shown[2] :
           /\ ~role.pad
           /\ \E g \in policies[role.name] : permissionMatches(g, permission(action, r))
=============================================================================
