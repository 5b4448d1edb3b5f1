------------------------------ MODULE FanOutInv ------------------------------
(***************************************************************************)
(* The inductive invariant of FanOut, in three layers: how many answers    *)
(* are in flight, which goroutines have ended, and what the answers say.   *)
(***************************************************************************)
EXTENDS FanOut

\* Every resource the feeder gave away is with a worker, in the results
\* channel, or already collected.
InFlight == Cardinality(Busy) + Len(results) <= next - 1

\* The goroutines end in the order feeder, workers, closer; cancel() runs
\* exactly when the collector returns.
Lifecycle ==
    /\ jobsClosed => next > Len(resources) \/ CtxDone
    /\ \A w \in Worker : pc[w] = "exited" => jobsClosed
    /\ resultsClosed => Exited
    /\ cancelled <=> status # "collecting"
    /\ status = "ok" => resultsClosed

\* An outcome o for resource r is what the engine says of r, or the error of a
\* context that is done.
Truthful(r, o) ==
    /\ r \in Batch
    /\ \/ o \in {"allow", "deny"} /\ relation[r] = o
       \/ o = "engine" /\ relation[r] = "fail"
       \/ o = "ctx" /\ CtxDone

Truths ==
    /\ \A w \in Busy : job[w] \in Batch
    /\ \A w \in Worker : pc[w] = "sending" => Truthful(job[w], got[w])
    /\ \A k \in DOMAIN results : Truthful(results[k].resource, results[k].outcome)

\* The map holds true answers only, and until an error is collected no resource
\* the feeder gave away is lost.
Held(r) == \E w \in Busy : job[w] = r
Queued(r) == \E k \in DOMAIN results : results[k].resource = r

Answers ==
    /\ \A r \in DOMAIN out :
          /\ r \in Batch
          /\ relation[r] \in {"allow", "deny"}
          /\ out[r] <=> relation[r] = "allow"
    /\ status # "failed" =>
          \A i \in 1..next - 1 : resources[i] \in DOMAIN out \/ Held(resources[i])
                                                             \/ Queued(resources[i])

\* What the call returned.
Returned ==
    /\ status = "ok" => callerDone \/ DOMAIN out = Batch
    /\ status = "failed" =>
          \/ failure = "engine" /\ \E r \in Batch : relation[r] = "fail"
          \/ failure = "ctx" /\ callerDone

IInv == TypeOK /\ InFlight /\ Lifecycle /\ Truths /\ Answers /\ Returned
=============================================================================
