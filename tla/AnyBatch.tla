------------------------------- MODULE AnyBatch -------------------------------
(***************************************************************************)
(* AnyAuthorizer.AuthorizeBatch (authorization.go): the children of the    *)
(* chain are asked in order, each for the resources no earlier child has   *)
(* allowed.  A ReBAC child without a bulk API runs a fan-out, whose        *)
(* promise is BatchCheck; an AnyAuthorizer among the children keeps the    *)
(* promise of OrCheck, which this module implements.  Authorize, the       *)
(* one-resource call the batch is to agree with, is an operator.           *)
(***************************************************************************)
EXTENDS Naturals, Sequences

CONSTANTS
    Resource,   \* resource names
    Lists,      \* the resource lists callers pass, the empty one included
    Chains      \* the AnyAuthorizer values: sequences of child kinds

\* "nil": a nil entry.  "rbac": RBACAuthorizer, local.  "fanout" and "bulk":
\* ReBACAuthorizer over a checker without and with HasRelations.  "single": an
\* Authorizer of the application that is no BatchAuthorizer.  "batch": another
\* AnyAuthorizer, or a BatchAuthorizer of the application that promises the same.
Kind == {"nil", "rbac", "fanout", "bulk", "single", "batch"}

ASSUME ListsAssumption == Lists \subseteq Seq(Resource)
ASSUME ChainsAssumption == Chains \subseteq Seq(Kind)

\* "torn": a "batch" child's Authorize fails, though one of its own children
\* allows.
Verdict == {"allow", "deny", "fail", "torn"}

VARIABLES
    chain,       \* the receiver
    verdict,     \* what each child says of each resource, if not interrupted
    resources,   \* the argument
    callerDone,  \* the caller's context is done
    child,       \* index of the child at work
    asking,      \* its call: "collecting", then "ok" or "failed"
    asked,       \* the position up to which a "single" child was asked
    partial,     \* the map of its answers
    failure,     \* where a child's error comes from
    remaining,   \* the resources no child has allowed yet, as their positions
                 \* in the argument, whose order and repetitions they keep
    out,         \* the map under construction
    returned     \* the map has been returned, with a nil error

callVars == <<chain, verdict, resources>>
childVars == <<asking, asked, partial, failure>>
mapVars == <<remaining, out>>
vars == <<callVars, callerDone, child, childVars, mapVars, returned>>

-----------------------------------------------------------------------------
NoMap == [r \in {} |-> FALSE]
Named(positions) == {resources[i] : i \in positions}
Batch == Named(DOMAIN resources)
Children == {c \in DOMAIN chain : chain[c] # "nil"}

\* AnyAuthorizer.Authorize: the first child that allows or fails decides.
Deciding(r) == {c \in Children : verdict[c][r] # "deny"}
Authorize(r) ==
    IF Deciding(r) = {} THEN "deny"
    ELSE IF verdict[CHOOSE c \in Deciding(r) : \A d \in Deciding(r) : c <= d][r] = "allow"
         THEN "allow" ELSE "fail"

\* RBACAuthorizer fails for want of claims, whatever the resource.
Possible(kind, v) ==
    /\ kind # "batch" => \A r \in Resource : v[r] # "torn"
    /\ kind = "rbac" => \/ \A r \in Resource : v[r] # "fail"
                        \/ \A r \in Resource : v[r] = "fail"

Init ==
    /\ chain \in Chains
    /\ verdict \in [DOMAIN chain -> [Resource -> Verdict]]
    /\ \A c \in DOMAIN chain : Possible(chain[c], verdict[c])
    /\ resources \in Lists
    /\ callerDone = FALSE
    /\ child = 1
    /\ asking = "collecting"
    /\ asked = 0
    /\ partial = NoMap
    /\ failure = "none"
    /\ remaining = DOMAIN resources
    /\ out = NoMap
    /\ returned = FALSE

-----------------------------------------------------------------------------
\* The child at work is one of these kinds, and there is something to ask.
Working(kinds) ==
    /\ asking = "collecting"
    /\ child \in DOMAIN chain
    /\ chain[child] \in kinds
    /\ remaining # {}

Says(r) == verdict[child][r]
Allows(r) == Says(r) = "allow"

\* The loop passes over a nil child, and over every child once all is decided.
Skip ==
    /\ asking = "collecting"
    /\ child \in DOMAIN chain
    /\ chain[child] = "nil" \/ remaining = {}
    /\ child' = child + 1
    /\ UNCHANGED <<callVars, callerDone, childVars, mapVars, returned>>

ChildFails(source) ==
    /\ asking' = "failed"
    /\ failure' = source
    /\ UNCHANGED <<callVars, callerDone, child, asked, partial, mapVars, returned>>

\* RBACAuthorizer.AuthorizeBatch, local, and HasRelations, one remote call that
\* also fails when its context is done: all answers together, or an error.
AnswerAll ==
    /\ Working({"rbac", "bulk"})
    /\ \A r \in Named(remaining) : Says(r) # "fail"
    /\ partial' = [r \in Named(remaining) |-> Allows(r)]
    /\ asking' = "ok"
    /\ UNCHANGED <<callVars, callerDone, child, asked, failure, mapVars, returned>>

FailAll ==
    \/ /\ Working({"rbac", "bulk"})
       /\ \E r \in Named(remaining) : Says(r) = "fail"
       /\ ChildFails("engine")
    \/ /\ Working({"bulk"})
       /\ callerDone
       /\ ChildFails("ctx")

\* The array of the remaining resources, as a child is given it.
Remaining == [i \in remaining |-> resources[i]]

\* ReBACAuthorizer.AuthorizeBatch without HasRelations: a fan-out on remaining.
Fan == INSTANCE BatchCheck WITH
    Batches <- Seq(Resource) \ {<<>>}, resources <- Remaining,
    relation <- verdict[child], status <- asking, out <- partial

FanOut ==
    /\ Working({"fanout"})
    /\ UNCHANGED <<callVars, child, asked, mapVars, returned>>
    /\ Fan!ReturnMap \/ Fan!ReturnError

\* A BatchAuthorizer that keeps the promise of AnyAuthorizer.AuthorizeBatch.
Nested == INSTANCE OrCheck WITH
    resources <- Remaining, says <- verdict[child], status <- asking, out <- partial

AskBatch ==
    /\ Working({"batch"})
    /\ UNCHANGED <<callVars, child, asked, mapVars, returned>>
    /\ Nested!ReturnMap \/ Nested!ReturnError

\* The fallback loop: one Authorize per remaining resource, up to an error.
Ask(i) ==
    \/ /\ Says(resources[i]) # "fail"
       /\ partial' = [r \in DOMAIN partial \cup {resources[i]} |->
                         IF r = resources[i] THEN Allows(r) ELSE partial[r]]
       /\ asked' = i
       /\ UNCHANGED <<callVars, callerDone, child, asking, failure, mapVars, returned>>
    \/ Says(resources[i]) = "fail" /\ ChildFails("engine")
    \/ callerDone /\ ChildFails("ctx")

AskOne ==
    /\ Working({"single"})
    /\ \E i \in remaining :
          i > asked /\ (\A j \in remaining : j > asked => i <= j) /\ Ask(i)

AllAsked ==
    /\ Working({"single"})
    /\ \A i \in remaining : i <= asked
    /\ asking' = "ok"
    /\ UNCHANGED <<callVars, callerDone, child, asked, partial, failure, mapVars,
                   returned>>

\* Mutants: a resource the child denies is settled; a missing answer allows.
Unanswered(r) == r \notin DOMAIN partial
Denied(r) == r \in DOMAIN partial /\ ~partial[r]
\* partial[resource] is false for a resource the map does not hold.
Undecided(r) == r \notin DOMAIN partial \/ ~partial[r]

\* Mutant: the next child is asked for the whole list again.
AbsorbKeepingAll ==
    /\ asking = "ok"
    /\ out' = [r \in DOMAIN out \cup {x \in Named(remaining) : ~Undecided(x)} |-> TRUE]
    /\ child' = child + 1
    /\ asking' = "collecting"
    /\ asked' = 0
    /\ partial' = NoMap
    /\ UNCHANGED <<callVars, callerDone, failure, remaining, returned>>

\* What the child allows is settled; the others are left.
Absorb ==
    /\ asking = "ok"
    /\ out' = [r \in DOMAIN out \cup {x \in Named(remaining) : ~Undecided(x)} |-> TRUE]
    /\ remaining' = {i \in remaining : Undecided(resources[i])}
    /\ child' = child + 1
    /\ asking' = "collecting"
    /\ asked' = 0
    /\ partial' = NoMap
    /\ UNCHANGED <<callVars, callerDone, failure, returned>>

\* What no child allowed is false.
Return ==
    /\ asking = "collecting"
    /\ child \notin DOMAIN chain
    /\ ~returned
    /\ out' = [r \in DOMAIN out \cup Named(remaining) |-> r \notin Named(remaining)]
    /\ returned' = TRUE
    /\ UNCHANGED <<callVars, callerDone, child, childVars, remaining>>

\* The caller's context is cancelled or times out while the call runs.
CallerCancels ==
    /\ asking # "failed" /\ ~returned
    /\ ~callerDone
    /\ callerDone' = TRUE
    /\ UNCHANGED <<callVars, child, childVars, mapVars, returned>>

Next ==
    \/ Skip \/ AnswerAll \/ FailAll \/ FanOut \/ AskBatch \/ AskOne \/ AllAsked
    \/ Absorb \/ Return \/ CallerCancels

Spec == Init /\ [][Next]_vars
-----------------------------------------------------------------------------
\* While the caller's context is live, the batch returns for every resource
\* what Authorize returns for it, an error of Authorize included.
AgreesWhileLive ==
    returned /\ ~callerDone =>
        /\ DOMAIN out = Batch
        /\ \A r \in DOMAIN out : Authorize(r) = IF out[r] THEN "allow" ELSE "deny"

\* A child is asked only for resources that no earlier child allowed, and for
\* each of them as often as the caller named it.
AsksUndecidedOnly ==
    ~returned => remaining = {i \in DOMAIN resources : resources[i] \notin DOMAIN out}

Grants(c, r) == verdict[c][r] \in {"allow", "torn"}

\* However the context ends, a resource is granted only if a child allows it.
GrantsAreReal ==
    \A r \in DOMAIN out : out[r] => \E c \in Children : Grants(c, r)

\* The call implements OrCheck, so that AnyAuthorizers may be nested: the caller
\* sees no map before the return, and one that agrees with Authorize.
Told(r) ==
    IF Authorize(r) = "fail" /\ \E c \in Children : Grants(c, r) THEN "torn"
    ELSE Authorize(r)
Status == IF returned THEN "ok" ELSE IF asking = "failed" THEN "failed" ELSE "collecting"

Or == INSTANCE OrCheck WITH
    says <- [r \in Batch |-> Told(r)], status <- Status,
    out <- IF returned THEN out ELSE NoMap
ImplementsOrCheck == Or!Spec

\* authorization.go:247-251: a nil error means OR semantics, matching
\* Authorize, for every resource.
AgreesAlways ==
    returned => \A r \in Batch :
                   Authorize(r) = "allow" => r \in DOMAIN out /\ out[r]
=============================================================================
