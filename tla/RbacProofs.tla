------------------------------ MODULE RbacProofs ------------------------------
(***************************************************************************)
(* Proofs about Rbac, for any roles, policies, permission strings and      *)
(* claims: what a decision grants, and that a handler sees the role it was *)
(* granted for.                                                            *)
(***************************************************************************)
EXTENDS Rbac, SequenceTheorems, TLAPS

TypeOK ==
    /\ hasClaims \in BOOLEAN
    /\ claim \in RoleClaims
    /\ policies \in [Roles -> SUBSET Grants]
    /\ action \in Actions
    /\ asked \subseteq Resources

\* An answered batch holds what Granted says of each of its resources.
Decided ==
    answer[1] = "allowed" =>
        /\ hasClaims \/ asked = {}
        /\ answer[2] = {r \in asked : Granted(r)}

\* What a handler was shown is the claim as Strings reads it.
Seen == shown # <<"none">> => shown = IF hasClaims THEN Strings(claim) ELSE <<"not ok">>

IInv == TypeOK /\ Decided /\ Seen
-----------------------------------------------------------------------------
\* What a sequence with an item in it is.
LEMMA NonEmpty ==
    ASSUME NEW S, NEW s \in Seq(S), s # <<>>
    PROVE  /\ Len(s) \in Nat /\ Len(s) > 0 /\ DOMAIN s = 1..Len(s)
           /\ s[1] \in S /\ \A i \in 1..Len(s) : s[i] \in S
<1>1. Len(s) \in Nat /\ Len(s) # 0
  BY LenProperties, EmptySeq
<1> QED
  BY <1>1, LenProperties, ElementOfSeq

\* A sequence of one item in front of another sequence is its head.
LEMMA HeadOfJoin ==
    ASSUME NEW S, NEW s \in Seq(S), Len(s) = 1, NEW t \in Seq(S), t # <<>>
    PROVE  /\ s \o t \in Seq(S)
           /\ Len(s \o t) > 1
           /\ Head(s \o t) = s[1]
           /\ Tail(s \o t) = t
<1>1. /\ s \o t \in Seq(S)
      /\ Len(s \o t) = 1 + Len(t)
      /\ \A i \in 1..1 + Len(t) : (s \o t)[i] = IF i <= 1 THEN s[i] ELSE t[i - 1]
  BY ConcatProperties
<1>2. Len(t) \in Nat /\ Len(t) > 0
  BY EmptySeq, LenProperties
<1>3. Head(s \o t) = s[1]
  BY <1>1, <1>2
<1>4. Tail(s \o t) = t
  <2>1. /\ Tail(s \o t) \in Seq(S)
        /\ Len(Tail(s \o t)) = Len(t)
        /\ \A i \in 1..Len(t) : Tail(s \o t)[i] = (s \o t)[i + 1]
    BY <1>1, <1>2
  <2>2. \A i \in 1..Len(t) : Tail(s \o t)[i] = t[i]
    BY <1>1, <1>2, <2>1
  <2> QED
    BY <2>1, <2>2, SeqEqual
<1> QED
  BY <1>1, <1>2, <1>3, <1>4

\* A sequence of more than one item is its head in front of its tail.
LEMMA JoinOfHead ==
    ASSUME NEW S, NEW s \in Seq(S), Len(s) > 1
    PROVE  /\ Head(s) \in S /\ Tail(s) \in Seq(S)
           /\ s = <<Head(s)>> \o Tail(s)
<1>1. Len(s) \in Nat /\ s # <<>>
  BY LenProperties
<1>2. /\ Head(s) = s[1] /\ Head(s) \in S
      /\ Tail(s) \in Seq(S)
      /\ Len(Tail(s)) = Len(s) - 1
      /\ \A i \in 1..Len(s) - 1 : Tail(s)[i] = s[i + 1]
  BY <1>1
<1>3. /\ <<Head(s)>> \in Seq(S)
      /\ Len(<<Head(s)>>) = 1
      /\ <<Head(s)>>[1] = s[1]
  BY <1>2
<1>4. /\ <<Head(s)>> \o Tail(s) \in Seq(S)
      /\ Len(<<Head(s)>> \o Tail(s)) = Len(s)
      /\ \A i \in 1..Len(s) :
            (<<Head(s)>> \o Tail(s))[i]
                = IF i <= 1 THEN <<Head(s)>>[i] ELSE Tail(s)[i - 1]
  BY <1>1, <1>2, <1>3, ConcatProperties
<1>5. \A i \in 1..Len(s) : (<<Head(s)>> \o Tail(s))[i] = s[i]
  BY <1>1, <1>2, <1>3, <1>4
<1> QED
  BY <1>2, <1>4, <1>5, SeqEqual

\* What is left of a string without the blanks at its ends.
LEMMA Trimmed ==
    ASSUME NEW s \in String
    PROVE  /\ TrimSpace(s) \in Seq(Segment) /\ TrimSpace(s) # <<>>
           /\ Len(TrimSpace(s)) = Len(s)
           /\ TrimSpace(TrimSpace(s)) = TrimSpace(s)
           /\ TrimSpace(s)[1].pad = FALSE
           /\ \A i \in DOMAIN s : TrimSpace(s)[i].text = s[i].text
<1>1. /\ s \in Seq(Segment) /\ Len(s) \in Nat /\ Len(s) > 0
      /\ DOMAIN s = 1..Len(s)
      /\ \A i \in 1..Len(s) : s[i] \in Segment
  BY NonEmpty, Zenon DEF String
<1>2. /\ [s[1] EXCEPT !.pad = FALSE] \in Segment
      /\ [s[1] EXCEPT !.pad = FALSE].pad = FALSE
      /\ [s[1] EXCEPT !.pad = FALSE].text = s[1].text
      /\ [[s[1] EXCEPT !.pad = FALSE] EXCEPT !.pad = FALSE] = [s[1] EXCEPT !.pad = FALSE]
  <2>1. s[1] \in Segment
    BY <1>1
  <2> QED
    BY <2>1 DEF Segment
<1> DEFINE u == [s[1] EXCEPT !.pad = FALSE]
           t == [s EXCEPT ![1] = u]
<1>3. TrimSpace(s) = t
  BY DEF TrimSpace
<1> HIDE DEF u
<1>4. /\ t \in Seq(Segment) /\ Len(t) = Len(s) /\ t[1] = u
      /\ \A i \in 1..Len(s) : i # 1 => t[i] = s[i]
  <2>1. u \in Segment /\ 1 \in 1..Len(s)
    BY <1>1, <1>2 DEF u
  <2> QED
    BY <1>1, <2>1, ExceptSeq
<1>5. TrimSpace(t) = t
  <2>1. TrimSpace(t) = [t EXCEPT ![1] = u]
    BY <1>2, <1>4 DEF TrimSpace, u
  <2> QED
    BY <1>1, <1>4, <2>1
<1> QED
  BY <1>1, <1>2, <1>3, <1>4, <1>5 DEF u

\* A trimmed string in front of another is trimmed already.
LEMMA TrimmedFront ==
    ASSUME NEW a \in String, NEW t \in Seq(Segment)
    PROVE  TrimSpace(TrimSpace(a) \o t) = TrimSpace(a) \o t
<1> DEFINE j == TrimSpace(a) \o t
<1>1. /\ j \in Seq(Segment) /\ Len(j) \in Nat /\ Len(j) > 0
      /\ j[1] = TrimSpace(a)[1]
  <2>1. TrimSpace(a) \in Seq(Segment) /\ Len(TrimSpace(a)) \in Nat /\ Len(TrimSpace(a)) > 0
    BY Trimmed, NonEmpty
  <2>2. Len(t) \in Nat
    BY LenProperties
  <2> QED
    BY <2>1, <2>2, ConcatProperties
<1>2. j[1] \in Segment /\ j[1].pad = FALSE /\ DOMAIN j = 1..Len(j)
  <2>1. j # <<>>
    BY <1>1
  <2>2. TrimSpace(a)[1].pad = FALSE
    BY Trimmed
  <2> HIDE DEF j
  <2> QED
    BY <1>1, <2>1, <2>2, NonEmpty
<1>3. [j[1] EXCEPT !.pad = FALSE] = j[1]
  BY <1>2 DEF Segment
<1>4. TrimSpace(j) = [j EXCEPT ![1] = [j[1] EXCEPT !.pad = FALSE]]
  BY DEF TrimSpace
<1> HIDE DEF j
<1>5. TrimSpace(j) = j
  BY <1>1, <1>2, <1>3, <1>4
<1> QED
  BY <1>5 DEF j

\* The comparison of joined strings means what its documentation says of their
\* halves, as long as the action has no colon or the grant has no wildcard.
LEMMA Matching ==
    ASSUME NEW g \in String, NEW a \in String, NEW r \in String,
           Len(a) = 1 \/ ~HasWildcard(g)
    PROVE  permissionMatches(g, permission(a, r)) <=> Means(g, a, r)
<1> DEFINE G == TrimSpace(g)
           A == TrimSpace(a)
           R == TrimSpace(r)
<1>1. /\ G \in Seq(Segment) /\ G # <<>> /\ Len(G) = Len(g)
      /\ A \in Seq(Segment) /\ A # <<>> /\ Len(A) = Len(a)
      /\ R \in Seq(Segment) /\ R # <<>>
  BY Trimmed
<1>2. permissionMatches(g, permission(a, r))
        <=> /\ Len(G) > 1 /\ Len(A \o R) > 1
            /\ Head(G) \in {Wildcard, Head(A \o R)}
            /\ Tail(G) \in {<<Wildcard>>, Tail(A \o R)}
  BY <1>1, TrimmedFront DEF permissionMatches, permission
<1>3. Means(g, a, r)
        <=> \E actions \in {A, <<Wildcard>>}, things \in {R, <<Wildcard>>} :
               G = actions \o things
  BY DEF Means
<1>4. /\ <<Wildcard>> \in Seq(Segment) /\ Len(<<Wildcard>>) = 1
      /\ <<Wildcard>> # <<>> /\ <<Wildcard>>[1] = Wildcard
      /\ Wildcard.text = "*"
  BY RbacAssumption DEF Wildcard, Segment
<1>5. ~HasWildcard(g) => \A i \in 1..Len(G) : G[i] # Wildcard
  BY <1>1, <1>4, Trimmed, LenProperties DEF HasWildcard, String
<1> HIDE DEF G, A, R
<1>6. CASE Len(a) = 1
  <2>1. Len(A \o R) > 1 /\ Head(A \o R) = A[1] /\ Tail(A \o R) = R /\ A = <<A[1]>>
    BY <1>1, <1>6, HeadOfJoin
  <2>2. ASSUME Len(G) > 1, Head(G) \in {Wildcard, A[1]}, Tail(G) \in {<<Wildcard>>, R}
        PROVE  \E actions \in {A, <<Wildcard>>}, things \in {R, <<Wildcard>>} :
                  G = actions \o things
    <3>1. G = <<Head(G)>> \o Tail(G)
      BY <1>1, <2>2, JoinOfHead
    <3>2. <<Head(G)>> \in {A, <<Wildcard>>}
      BY <2>1, <2>2
    <3> QED
      BY <2>2, <3>1, <3>2
  <2>3. ASSUME NEW actions \in {A, <<Wildcard>>}, NEW things \in {R, <<Wildcard>>},
               G = actions \o things
        PROVE  Len(G) > 1 /\ Head(G) \in {Wildcard, A[1]} /\ Tail(G) \in {<<Wildcard>>, R}
    <3>1. /\ actions \in Seq(Segment) /\ Len(actions) = 1 /\ actions[1] \in {Wildcard, A[1]}
          /\ things \in Seq(Segment) /\ things # <<>>
      BY <1>1, <1>4, <1>6
    <3>2. /\ Len(actions \o things) > 1
          /\ Head(actions \o things) = actions[1]
          /\ Tail(actions \o things) = things
      BY <3>1, HeadOfJoin
    <3> QED
      BY <2>3, <3>1, <3>2
  <2> QED
    BY <1>2, <1>3, <2>1, <2>2, <2>3
<1>7. CASE ~HasWildcard(g)
  <2>1. /\ A \o R \in Seq(Segment) /\ Len(A \o R) > 1 /\ Len(A \o R) = Len(A) + Len(R)
        /\ Len(A) \in Nat /\ Len(R) \in Nat /\ Len(A) > 0 /\ Len(R) > 0
    <3>1. Len(A) \in Nat /\ Len(R) \in Nat /\ Len(A) > 0 /\ Len(R) > 0
      BY <1>1, NonEmpty
    <3> QED
      <4>1. A \o R \in Seq(Segment) /\ Len(A \o R) = Len(A) + Len(R)
        BY <1>1, ConcatProperties
      <4> QED
        BY <3>1, <4>1
  <2>2. A \o R = <<Head(A \o R)>> \o Tail(A \o R)
    BY <2>1, JoinOfHead
  <2>3. ASSUME Len(G) > 1, Head(G) \in {Wildcard, Head(A \o R)},
               Tail(G) \in {<<Wildcard>>, Tail(A \o R)}
        PROVE  G = A \o R
    <3>1. G = <<Head(G)>> \o Tail(G) /\ Len(G) \in Nat
      BY <1>1, <2>3, JoinOfHead, LenProperties
    <3>2. Head(G) = G[1] /\ Tail(G) # <<Wildcard>>
      <4>1. Head(G) = G[1] /\ Tail(G)[1] = G[2]
        <5>1. G \in Seq(Segment) /\ Len(G) > 1 /\ Len(G) \in Nat
          BY <1>1, <2>3, <3>1
        <5> QED
          BY <5>1
      <4>2. G[2] # Wildcard
        BY <1>5, <1>7, <2>3, <3>1
      <4> QED
        BY <1>4, <4>1, <4>2
    <3>3. Head(G) # Wildcard
      BY <1>5, <1>7, <2>3, <3>1, <3>2
    <3> QED
      BY <2>2, <2>3, <3>1, <3>2, <3>3
  <2>4. ASSUME NEW actions \in {A, <<Wildcard>>}, NEW things \in {R, <<Wildcard>>},
               G = actions \o things
        PROVE  G = A \o R
    <3>1. /\ actions \in Seq(Segment) /\ things \in Seq(Segment)
          /\ Len(actions) \in Nat /\ Len(things) \in Nat
          /\ Len(actions) > 0 /\ Len(things) > 0
      <4>1. /\ actions \in Seq(Segment) /\ things \in Seq(Segment)
            /\ actions # <<>> /\ things # <<>>
        BY <1>1, <1>4
      <4> QED
        BY <4>1, NonEmpty
    <3>2. /\ Len(G) = Len(actions) + Len(things)
          /\ G[1] = actions[1] /\ G[Len(actions) + 1] = things[1]
      BY <2>4, <3>1, ConcatProperties
    <3>3. G[1] # Wildcard /\ G[Len(actions) + 1] # Wildcard
      BY <1>5, <1>7, <3>1, <3>2
    <3> QED
      BY <1>4, <2>4, <3>2, <3>3
  <2> QED
    <3>1. G = A \o R => permissionMatches(g, permission(a, r)) /\ Means(g, a, r)
      BY <1>2, <1>3, <2>1
    <3> QED
      BY <1>2, <1>3, <2>3, <2>4, <3>1
<1> QED
  BY <1>6, <1>7

\* The roles a decision counts are the strings of the claim that name one, and
\* what it compares with is what they are granted.
LEMMA Counted ==
    ASSUME TypeOK, NEW r
    PROVE  /\ Granted(r) <=>
                \E role \in claim.values :
                   /\ claim.kind \in {"string", "strings", "list"}
                   /\ role.text /\ ~role.pad /\ role.name # ""
                   /\ \E g \in policies[role.name] :
                          permissionMatches(g, permission(action, r))
           /\ Granted(r) <=> \E g \in Held : permissionMatches(g, permission(action, r))
<1>1. \A role \in claim.values : role.pad \in BOOLEAN /\ role.text \in BOOLEAN
  BY RbacAssumption DEF TypeOK, Value
<1>2. Granted(r) <=>
        \E role \in claim.values :
           /\ claim.kind \in {"string", "strings", "list"}
           /\ role.text /\ ~role.pad /\ role.name # ""
           /\ \E g \in policies[role.name] : permissionMatches(g, permission(action, r))
  BY <1>1, Zenon DEF Granted, extractClaimStrings, Empty, PoliciesOf
<1> QED
  BY <1>2, Zenon DEF Held
-----------------------------------------------------------------------------
\* The inputs are of their type in every initial state.
LEMMA InitInv == Init => IInv
<1> SUFFICES ASSUME Init PROVE IInv
  OBVIOUS
<1>1. TypeOK
  BY DEF Init, TypeOK
<1>2. Decided
  BY DEF Init, Decided
<1>3. Seen
  BY DEF Init, Seen
<1> QED
  BY <1>1, <1>2, <1>3 DEF IInv

\* Each of the two calls leaves its own record.
LEMMA NextInv == IInv /\ [Next]_vars => IInv'
<1> SUFFICES ASSUME IInv, [Next]_vars PROVE IInv'
  OBVIOUS
<1> USE DEF IInv
<1>1. UNCHANGED <<hasClaims, claim, policies, action, asked>>
  BY DEF Next, AuthorizeBatch, ReadRoles, vars, input
<1>2. TypeOK'
  BY <1>1 DEF TypeOK
<1>3. \A r \in asked : Granted(r) <=> Granted(r)'
  BY <1>1 DEF Granted, PoliciesOf
<1>4. CASE AuthorizeBatch
  <2>1. Decided'
    BY <1>1, <1>3, <1>4 DEF AuthorizeBatch, Decided
  <2>2. Seen'
    BY <1>1, <1>4 DEF AuthorizeBatch, Seen
  <2> QED
    BY <1>2, <2>1, <2>2
<1>5. CASE ReadRoles
  <2>1. Decided'
    BY <1>1, <1>3, <1>5 DEF ReadRoles, Decided
  <2>2. Seen'
    BY <1>1, <1>5 DEF ReadRoles, Seen
  <2> QED
    BY <1>2, <2>1, <2>2
<1>6. CASE UNCHANGED vars
  <2>1. Decided'
    BY <1>1, <1>3, <1>6 DEF vars, Decided
  <2>2. Seen'
    BY <1>1, <1>6 DEF vars, Seen
  <2> QED
    BY <1>2, <2>1, <2>2
<1> QED
  BY <1>4, <1>5, <1>6 DEF Next

\* Every reachable state records what the two readers of the claim make of it.
THEOREM Invariant == Spec => []IInv
<1> QED
  BY InitInv, NextInv, PTL DEF Spec
-----------------------------------------------------------------------------
\* authorization.go:60-63: "<action>:<resource>" with a wildcard on either side.
\* For any policies and strings, the answer holds the resources that some role of
\* the claims is granted in that sense, and no other, unless a wildcard meets an
\* action with a colon.
THEOREM Exactly == Spec => []GrantsExactly
<1>1. IInv => GrantsExactly
  <2> SUFFICES ASSUME IInv, answer[1] = "allowed",
                      Len(action) = 1 \/ \A g \in Held : ~HasWildcard(g)
               PROVE  answer[2] = {r \in asked : hasClaims /\ \E g \in Held : Means(g, action, r)}
    BY DEF GrantsExactly
  <2>1. action \in String /\ asked \subseteq String
    BY RbacAssumption DEF IInv, TypeOK
  <2>2. Held \subseteq String
    <3> SUFFICES ASSUME NEW role \in claim.values, role.name # ""
                 PROVE  policies[role.name] \subseteq String
      BY DEF Held
    <3> QED
      BY RbacAssumption DEF IInv, TypeOK, Value
  <2>3. ASSUME NEW r \in asked
        PROVE  Granted(r) <=> \E g \in Held : Means(g, action, r)
    <3>1. ASSUME NEW g \in Held
          PROVE  permissionMatches(g, permission(action, r)) <=> Means(g, action, r)
      BY <2>1, <2>2, Matching
    <3> QED
      BY <3>1, Counted DEF IInv
  <2> QED
    BY <2>3 DEF IInv, Decided
<1> QED
  BY <1>1, Invariant, PTL

\* claimmap.go:79-116 beside authorization.go:322-360: for a claim of strings
\* only, whatever its form, the role a resource is granted for is among those
\* ClaimReader.Strings returns.
THEOREM Shown == Spec => []GrantsAreShown
<1>1. IInv => GrantsAreShown
  <2> SUFFICES ASSUME IInv, answer[1] = "allowed", answer[2] # {}, shown # <<"none">>,
                      \A v \in claim.values : v.text
               PROVE  /\ shown[1] = "ok"
                      /\ \A r \in answer[2] : \E role \in shown[2] :
                            ~role.pad /\ \E g \in policies[role.name] :
                                permissionMatches(g, permission(action, r))
    BY DEF GrantsAreShown
  <2> DEFINE out == IF claim.kind = "string" THEN {v \in claim.values : ~Empty(v)}
                    ELSE {Unpadded(v) : v \in {x \in claim.values : x.name # ""}}
  <2>1. answer[2] \subseteq {r \in asked : Granted(r)} /\ hasClaims
    BY DEF IInv, Decided
  <2>2. ASSUME NEW r \in answer[2]
        PROVE  /\ claim.kind \in {"string", "strings", "list"}
               /\ \E role \in out : ~role.pad /\ \E g \in policies[role.name] :
                     permissionMatches(g, permission(action, r))
    <3>1. PICK role \in claim.values :
             /\ claim.kind \in {"string", "strings", "list"}
             /\ role.text /\ ~role.pad /\ role.name # ""
             /\ \E g \in policies[role.name] : permissionMatches(g, permission(action, r))
      BY <2>1, Counted DEF IInv
    <3>2. role \in Value
      BY RbacAssumption DEF IInv, TypeOK
    <3>3. Unpadded(role) = role
      BY <3>1, <3>2 DEF Unpadded, Value
    <3>4. role \in out
      BY <3>1, <3>3 DEF Empty
    <3> QED
      BY <3>1, <3>4
  <2>3. out # {} /\ claim.kind \notin {"absent", "other"}
    BY <2>2
  <2>4. shown = <<"ok", out>>
    BY <2>1, <2>3 DEF IInv, Seen, Strings
  <2> QED
    BY <2>2, <2>4
<1> QED
  BY <1>1, Invariant, PTL
=============================================================================
