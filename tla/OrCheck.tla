-------------------------------- MODULE OrCheck --------------------------------
(***************************************************************************)
(* What AnyAuthorizer.AuthorizeBatch promises its caller: one map or one   *)
(* error, which agrees with Authorize resource by resource while the       *)
(* caller's context is live.  AnyBatch implements this module and relies   *)
(* on it for a child that is itself an AnyAuthorizer.                      *)
(***************************************************************************)
EXTENDS Naturals, Sequences

VARIABLES
    resources,   \* the call's resource list
    says,        \* per resource: "allow", "deny" or "fail" as Authorize does;
                 \* "torn" if it fails although one of the children allows
    callerDone,  \* the caller's context is done
    status,      \* "collecting", then "ok" (nil error) or "failed"
    failure,     \* where a returned error comes from
    out          \* the returned map, empty unless status is "ok"

vars == <<resources, says, callerDone, status, failure, out>>

Batch == {resources[i] : i \in DOMAIN resources}

Init ==
    /\ callerDone = FALSE
    /\ status = "collecting"
    /\ failure = "none"
    /\ out = [r \in {} |-> FALSE]

Cancel ==
    /\ status = "collecting"
    /\ ~callerDone
    /\ callerDone' = TRUE
    /\ UNCHANGED <<resources, says, status, failure, out>>

\* The map answers the whole batch and grants nothing of its own; it may deny
\* what a child allows only if the caller's context was done.
ReturnMap ==
    /\ status = "collecting"
    /\ out' \in [Batch -> BOOLEAN]
    /\ \A r \in Batch : out'[r] => says[r] \in {"allow", "torn"}
    /\ ~callerDone => \A r \in Batch : says[r] = IF out'[r] THEN "allow" ELSE "deny"
    /\ status' = "ok"
    /\ UNCHANGED <<resources, says, callerDone, failure>>

\* Under a live context an error is the engine's, and Authorize fails too.
ReturnError ==
    /\ status = "collecting"
    /\ \/ failure' = "engine" /\ \E r \in Batch : says[r] \in {"fail", "torn"}
       \/ failure' \in {"engine", "ctx"} /\ callerDone
    /\ status' = "failed"
    /\ UNCHANGED <<resources, says, callerDone, out>>

Next == Cancel \/ ReturnMap \/ ReturnError

Spec == Init /\ [][Next]_vars
=============================================================================
