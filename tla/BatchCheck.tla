------------------------------ MODULE BatchCheck ------------------------------
(***************************************************************************)
(* What a fan-out batch check promises its caller, without goroutines or   *)
(* channels: one relation check per resource of the batch, answered all    *)
(* together by a single return.  FanOut implements this module, and        *)
(* AnyBatch uses it for a ReBAC child that has no bulk API.                *)
(***************************************************************************)
EXTENDS Naturals, Sequences, FiniteSets

CONSTANTS
    Resource,   \* resource names
    Batches,    \* the resource lists callers pass, none of them empty
    Verdict     \* the engine's verdicts: "allow", "deny", "fail" or "hang"

VARIABLES
    resources,   \* the call's resource list
    relation,    \* the engine's verdict on each resource
    callerDone,  \* the caller's context is done
    status,      \* "collecting", then "ok" (nil error) or "failed"
    failure,     \* where a returned error comes from
    out          \* the returned map, empty unless status is "ok"

callVars == <<resources, relation>>
vars == <<resources, relation, callerDone, status, failure, out>>

-----------------------------------------------------------------------------
Batch == {resources[i] : i \in DOMAIN resources}
NoMap == [r \in {} |-> FALSE]

\* The map of true verdicts on D, defined where the engine gives an answer.
Answers(D) == [r \in D |-> relation[r] = "allow"]
Answerable(D) == \A r \in D : relation[r] \in {"allow", "deny"}

Init ==
    /\ resources \in Batches
    /\ relation \in [Resource -> Verdict]
    /\ callerDone = FALSE
    /\ status = "collecting"
    /\ failure = "none"
    /\ out = NoMap

Cancel ==
    /\ status = "collecting"
    /\ ~callerDone
    /\ callerDone' = TRUE
    /\ UNCHANGED <<callVars, status, failure, out>>

\* A nil error.  The map answers the whole batch, unless the caller's context
\* was done: then it may answer any part of it, the empty one included.
ReturnMap ==
    /\ status = "collecting"
    /\ \E D \in SUBSET Batch :
          /\ D = Batch \/ callerDone
          /\ Answerable(D)
          /\ out' = Answers(D)
    /\ status' = "ok"
    /\ UNCHANGED <<callVars, callerDone, failure>>

\* An error: the engine's, on a resource of the batch, or the context's when
\* the caller is done.
ReturnError ==
    /\ status = "collecting"
    /\ \/ failure' = "engine" /\ \E r \in Batch : relation[r] = "fail"
       \/ failure' = "ctx" /\ callerDone
    /\ status' = "failed"
    /\ UNCHANGED <<callVars, callerDone, out>>

Next == Cancel \/ ReturnMap \/ ReturnError

Spec == Init /\ [][Next]_vars
=============================================================================
