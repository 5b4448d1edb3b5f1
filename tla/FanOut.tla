-------------------------------- MODULE FanOut --------------------------------
(***************************************************************************)
(* fanOutRelationChecks (authorization.go): one call, with its feeder, its *)
(* workers, the goroutine that closes the results channel and the caller's *)
(* own goroutine, which collects.  One action per step at which a          *)
(* goroutine touches a channel, the wait group or a context.               *)
(***************************************************************************)
EXTENDS Naturals, Sequences, FiniteSets

CONSTANTS
    Resource,          \* resource names
    Batches,           \* the resource lists callers pass
    Verdict,           \* how the relation engine behaves on a resource
    batchFanOutLimit   \* the most workers of one call

ASSUME LimitAssumption == batchFanOutLimit \in Nat \ {0}

\* AuthorizeBatch answers an empty list itself and never fans out on it.
ASSUME BatchesAssumption ==
    /\ Batches \subseteq Seq(Resource)
    /\ <<>> \notin Batches

\* "allow" and "deny": HasRelation answers; "fail": it returns an error;
\* "hang": it returns nothing before its context is done.
ASSUME VerdictAssumption == Verdict \subseteq {"allow", "deny", "fail", "hang"}

VARIABLES
    resources,      \* the argument
    relation,       \* the engine's verdict on each resource
    callerDone,     \* the caller's context is done
    cancelled,      \* cancel() was called on the derived context
    next,           \* index of the resource the feeder sends next
    jobsClosed,     \* the jobs channel is closed: the feeder has returned
    pc, job, got,   \* per worker: its step, its resource, its outcome
    results,        \* contents of the results channel
    resultsClosed,  \* the results channel is closed
    out,            \* the map the collector fills
    status,         \* "collecting", then "ok" (nil error) or "failed"
    failure         \* where the returned error comes from

callVars == <<resources, relation>>
ctxVars == <<callerDone, cancelled>>
feederVars == <<next, jobsClosed>>
workerVars == <<pc, job, got>>
channelVars == <<results, resultsClosed>>
replyVars == <<out, status, failure>>
vars == <<callVars, ctxVars, feederVars, workerVars, channelVars, replyVars>>

-----------------------------------------------------------------------------
workerCount == IF Len(resources) < batchFanOutLimit
               THEN Len(resources) ELSE batchFanOutLimit
Worker == 1..workerCount

\* Mutant: one slot.
OneSlot == 1
Capacity == Len(resources)

Batch == {resources[i] : i \in DOMAIN resources}
NoMap == [r \in {} |-> FALSE]

\* "engine" is an error HasRelation returns of itself, "ctx" the error of a
\* context that is done.
Outcome == {"allow", "deny", "engine", "ctx"}
Message == [resource : Resource, outcome : Outcome]

\* Mutants: the feeder cancels as it returns; the derived context is not the
\* caller's; the workers use the caller's context.
CancelledWhenFed == callerDone \/ cancelled \/ jobsClosed
DetachedCtx == cancelled
CallerCtx == callerDone
CtxDone == callerDone \/ cancelled
Exited == \A w \in Worker : pc[w] = "exited"
Busy == {w \in Worker : pc[w] \in {"calling", "sending"}}

Init ==
    /\ resources \in Batches
    /\ relation \in [Resource -> Verdict]
    /\ callerDone = FALSE
    /\ cancelled = FALSE
    /\ next = 1
    /\ jobsClosed = FALSE
    /\ pc = [w \in Worker |-> "idle"]
    /\ job = [w \in Worker |-> resources[1]]
    /\ got = [w \in Worker |-> "deny"]
    /\ results = <<>>
    /\ resultsClosed = FALSE
    /\ out = NoMap
    /\ status = "collecting"
    /\ failure = "none"

-----------------------------------------------------------------------------
\* The feeder: jobs is unbuffered, so a send is a rendezvous with a worker
\* that ranges over jobs.  The worker calls HasRelation at once.
Feed(w) ==
    /\ ~jobsClosed
    /\ next <= Len(resources)
    /\ pc[w] = "idle"
    /\ next' = next + 1
    /\ pc' = [pc EXCEPT ![w] = "calling"]
    /\ job' = [job EXCEPT ![w] = resources[next]]
    /\ UNCHANGED <<callVars, ctxVars, jobsClosed, got, channelVars, replyVars>>

\* Mutants: the last resource is not fed; jobs is closed on ctx.Done() only.
FeedsOneShort == next >= Len(resources) \/ CtxDone
ClosesOnDoneOnly == CtxDone
FeederDone == next > Len(resources) \/ CtxDone

\* The feeder runs out of resources or its select takes ctx.Done(), which it
\* may do, or not, while a worker is ready too; it closes jobs as it returns.
FeederReturns ==
    /\ ~jobsClosed
    /\ FeederDone
    /\ jobsClosed' = TRUE
    /\ UNCHANGED <<callVars, ctxVars, next, workerVars, channelVars, replyVars>>

\* Mutant: the worker passes on what it got without looking at the error.
CallReturnsRaw(w, outcome) ==
    /\ pc[w] = "calling"
    /\ pc' = [pc EXCEPT ![w] = "sending"]
    /\ got' = [got EXCEPT ![w] = relation[job[w]]]
    /\ UNCHANGED <<callVars, ctxVars, feederVars, job, channelVars, replyVars>>

CallReturns(w, outcome) ==
    /\ pc[w] = "calling"
    /\ pc' = [pc EXCEPT ![w] = "sending"]
    /\ got' = [got EXCEPT ![w] = outcome]
    /\ UNCHANGED <<callVars, ctxVars, feederVars, job, channelVars, replyVars>>

\* HasRelation answers, or fails of itself.
HasRelation(w) ==
    \/ relation[job[w]] = "allow" /\ CallReturns(w, "allow")
    \/ relation[job[w]] = "deny" /\ CallReturns(w, "deny")
    \/ relation[job[w]] = "fail" /\ CallReturns(w, "engine")

\* HasRelation gives up because its context is done.
Interrupted(w) == CtxDone /\ CallReturns(w, "ctx")

\* results is buffered: a send blocks only when the buffer is full.
Send(w) ==
    /\ pc[w] = "sending"
    /\ Len(results) < Capacity
    /\ results' = Append(results, [resource |-> job[w], outcome |-> got[w]])
    /\ pc' = [pc EXCEPT ![w] = "idle"]
    /\ UNCHANGED <<callVars, ctxVars, feederVars, job, got, resultsClosed, replyVars>>

\* The range over jobs ends and wg.Done runs.
WorkerExits(w) ==
    /\ pc[w] = "idle"
    /\ jobsClosed
    /\ pc' = [pc EXCEPT ![w] = "exited"]
    /\ UNCHANGED <<callVars, ctxVars, feederVars, job, got, channelVars, replyVars>>

\* Mutant: results is closed without wg.Wait.
CloseWithoutWait ==
    /\ ~resultsClosed
    /\ jobsClosed
    /\ resultsClosed' = TRUE
    /\ UNCHANGED <<callVars, ctxVars, feederVars, workerVars, results, replyVars>>

\* wg.Wait returns once every worker has called wg.Done.
CloseResults ==
    /\ ~resultsClosed
    /\ Exited
    /\ resultsClosed' = TRUE
    /\ UNCHANGED <<callVars, ctxVars, feederVars, workerVars, results, replyVars>>

-----------------------------------------------------------------------------
\* The collector takes an answer.
CollectAnswer ==
    /\ status = "collecting"
    /\ results # <<>>
    /\ Head(results).outcome \in {"allow", "deny"}
    /\ out' = [r \in DOMAIN out \cup {Head(results).resource} |->
                  IF r = Head(results).resource
                  THEN Head(results).outcome = "allow" ELSE out[r]]
    /\ results' = Tail(results)
    /\ UNCHANGED <<callVars, ctxVars, feederVars, workerVars, resultsClosed,
                   status, failure>>

\* Mutant: the error is looked at only once every outcome is in.
FailsAtEnd == resultsClosed /\ Head(results).outcome \in {"engine", "ctx"}
Fails == Head(results).outcome \in {"engine", "ctx"}

\* The collector takes an error: it cancels the derived context and returns
\* without waiting for the other goroutines.
CollectError ==
    /\ status = "collecting"
    /\ results # <<>>
    /\ Fails
    /\ results' = Tail(results)
    /\ cancelled' = TRUE
    /\ status' = "failed"
    /\ failure' = Head(results).outcome
    /\ UNCHANGED <<callVars, callerDone, feederVars, workerVars, resultsClosed, out>>

\* The range over results ends: the map is returned and the deferred cancel
\* runs.
ReturnMap ==
    /\ status = "collecting"
    /\ results = <<>>
    /\ resultsClosed
    /\ status' = "ok"
    /\ cancelled' = TRUE
    /\ UNCHANGED <<callVars, callerDone, feederVars, workerVars, channelVars,
                   out, failure>>

\* The caller's context is cancelled or times out while the call runs.
CallerCancels ==
    /\ status = "collecting"
    /\ ~callerDone
    /\ callerDone' = TRUE
    /\ UNCHANGED <<callVars, cancelled, feederVars, workerVars, channelVars, replyVars>>

\* Everything the call started has ended.
Ended == status # "collecting" /\ jobsClosed /\ Exited /\ resultsClosed

Goroutine(w) == Feed(w) \/ HasRelation(w) \/ Interrupted(w) \/ Send(w) \/ WorkerExits(w)
Collector == CollectAnswer \/ CollectError \/ ReturnMap

Next ==
    \/ \E w \in Worker : Goroutine(w)
    \/ FeederReturns
    \/ CloseResults
    \/ Collector
    \/ CallerCancels

Spec == Init /\ [][Next]_vars

\* The Go scheduler runs every goroutine that can run; HasRelation answers
\* where the engine does not hang, and returns when its context is done where it
\* does.
Fairness ==
    /\ \A w \in 1..batchFanOutLimit :
          /\ WF_vars(w \in Worker /\ HasRelation(w))
          /\ WF_vars(w \in Worker /\ Interrupted(w))
          /\ WF_vars(w \in Worker /\ Send(w))
          /\ WF_vars(w \in Worker /\ WorkerExits(w))
    /\ WF_vars(\E w \in Worker : Feed(w))
    /\ WF_vars(FeederReturns)
    /\ WF_vars(CloseResults)
    /\ WF_vars(Collector)

FairSpec == Spec /\ Fairness
-----------------------------------------------------------------------------
TypeOK ==
    /\ resources \in Batches
    /\ relation \in [Resource -> Verdict]
    /\ callerDone \in BOOLEAN
    /\ cancelled \in BOOLEAN
    /\ next \in 1..Len(resources) + 1
    /\ jobsClosed \in BOOLEAN
    /\ pc \in [Worker -> {"idle", "calling", "sending", "exited"}]
    /\ job \in [Worker -> Resource]
    /\ got \in [Worker -> Outcome]
    /\ results \in Seq(Message)
    /\ resultsClosed \in BOOLEAN
    /\ DOMAIN out \subseteq Resource
    /\ out \in [DOMAIN out -> BOOLEAN]
    /\ status \in {"collecting", "ok", "failed"}
    /\ failure \in {"none", "engine", "ctx"}

\* A worker that has an outcome can always deliver it: the results channel has
\* room for it, so no worker is stuck on a collector that has already returned.
SendNeverBlocks == \A w \in Worker : pc[w] = "sending" => Len(results) < Capacity

\* The results channel is closed only after the last send (a send on a closed
\* channel would panic).
NoSendAfterClose == resultsClosed => Busy = {}

\* A nil error from a call whose context stayed live answers every resource of
\* the batch, and answers it as the engine does.
CompleteAnswer ==
    status = "ok" /\ ~callerDone =>
        /\ DOMAIN out = Batch
        /\ \A r \in Batch :
              relation[r] \in {"allow", "deny"} /\ (out[r] <=> relation[r] = "allow")

\* The call's own cancel() is never mistaken for a failure: while the caller's
\* context is live, the error returned is one the engine gave for a resource
\* of the batch.
HonestError ==
    status = "failed" /\ ~callerDone =>
        failure = "engine" /\ \E r \in Batch : relation[r] = "fail"

\* A nil error means that no goroutine of the call is left, so the caller may
\* reuse the array behind resources (AnyAuthorizer.AuthorizeBatch does).
QuietOnSuccess == status = "ok" => jobsClosed /\ Exited /\ resultsClosed

\* The call implements BatchCheck: the map appears to its caller in one step,
\* and only with a nil error.
Check == INSTANCE BatchCheck WITH out <- IF status = "ok" THEN out ELSE NoMap
ImplementsBatchCheck == Check!Spec

EngineAnswers == \A r \in Batch : relation[r] # "hang"

\* Every call returns and every goroutine of it ends, when the engine answers:
\* whichever way the call returns, nothing leaks.
NothingLeaks == EngineAnswers => <>Ended

\* An error is returned without waiting for the other workers, even when their
\* HasRelation calls hang.
FailsFast ==
    (\E w \in 1..batchFanOutLimit :
        w \in Worker /\ pc[w] = "sending" /\ got[w] = "engine" /\ status = "collecting")
    ~> status # "collecting"

\* Cancelling the caller's context ends a call whose HasRelation calls hang.
CancelUnblocks == callerDone ~> status # "collecting"

\* Returning releases the workers that still hang: the deferred cancel reaches
\* their HasRelation calls.
ReturnReleases == status # "collecting" ~> Ended

\* README.md (Batch authorization): a nil error comes with an answer for every
\* resource of the list, whatever happened to the context meanwhile.
NilErrorAnswersAll == status = "ok" => DOMAIN out = Batch
=============================================================================
