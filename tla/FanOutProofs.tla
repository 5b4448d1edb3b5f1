----------------------------- MODULE FanOutProofs -----------------------------
(***************************************************************************)
(* Proofs about FanOut for every batch, every engine and every worker      *)
(* limit.                                                                  *)
(***************************************************************************)
EXTENDS FanOutInv, FiniteSetTheorems, SequenceTheorems, TLAPS

\* A call has at least one worker, and finitely many of them are busy.
LEMMA Workers ==
    ASSUME resources \in Batches
    PROVE  /\ Len(resources) \in Nat \ {0}
           /\ workerCount \in 1..batchFanOutLimit
           /\ workerCount <= Len(resources)
           /\ Worker # {}
           /\ resources \in Seq(Resource)
<1>1. resources \in Seq(Resource) /\ resources # <<>>
  BY BatchesAssumption
<1>2. Len(resources) \in Nat \ {0}
  BY <1>1, EmptySeq, LenProperties
<1>3. workerCount \in 1..batchFanOutLimit /\ workerCount <= Len(resources)
  BY <1>2, LimitAssumption DEF workerCount
<1>4. 1 \in Worker
  BY <1>3, LimitAssumption DEF Worker
<1> QED
  BY <1>1, <1>2, <1>3, <1>4

-----------------------------------------------------------------------------
\* Every variable has its type at first.
LEMMA InitType == Init => TypeOK
<1> SUFFICES ASSUME Init PROVE TypeOK
  OBVIOUS
<1>1. resources \in Batches
  BY DEF Init
<1>2. resources[1] \in Resource
  BY <1>1, Workers, ElementOfSeq
<1>3. job \in [Worker -> Resource]
  BY <1>2 DEF Init
<1>4. out \in [DOMAIN out -> BOOLEAN] /\ DOMAIN out \subseteq Resource
  BY DEF Init, NoMap
<1>5. results \in Seq(Message)
  BY EmptySeq DEF Init
<1>6. next \in 1..Len(resources) + 1
  BY <1>1, Workers DEF Init
<1> QED
  BY <1>1, <1>3, <1>4, <1>5, <1>6 DEF Init, TypeOK, Outcome

\* No step of a goroutine leaves the types.
LEMMA StepType == TypeOK /\ [Next]_vars => TypeOK'
<1> SUFFICES ASSUME TypeOK, [Next]_vars PROVE TypeOK'
  OBVIOUS
<1> USE DEF TypeOK, callVars, ctxVars, feederVars, workerVars, channelVars, replyVars
<1>0. Worker' = Worker /\ Len(resources)' = Len(resources)
  BY DEF Worker, workerCount, Next, vars, Goroutine, Feed, HasRelation, Interrupted,
         CallReturns, Send, WorkerExits, FeederReturns, CloseResults, Collector,
         CollectAnswer, CollectError, ReturnMap, CallerCancels
<1>1. ASSUME NEW w \in Worker, Feed(w) PROVE TypeOK'
  <2>1. next \in 1..Len(resources) /\ Len(resources) \in Nat
    BY <1>1, Workers DEF Feed
  <2>2. resources[next] \in Resource
    BY <2>1, Workers, ElementOfSeq
  <2>3. next' \in 1..Len(resources) + 1
    BY <1>1, <2>1 DEF Feed
  <2> QED
    BY <1>0, <1>1, <2>2, <2>3 DEF Feed
<1>2. ASSUME NEW w \in Worker, HasRelation(w) \/ Interrupted(w) PROVE TypeOK'
  BY <1>0, <1>2 DEF HasRelation, Interrupted, CallReturns, Outcome
<1>3. ASSUME NEW w \in Worker, Send(w) PROVE TypeOK'
  <2>1. [resource |-> job[w], outcome |-> got[w]] \in Message
    BY DEF Message
  <2>2. results' \in Seq(Message)
    BY <1>3, <2>1, AppendProperties DEF Send
  <2> QED
    BY <1>0, <1>3, <2>2 DEF Send
<1>4. ASSUME NEW w \in Worker, WorkerExits(w) PROVE TypeOK'
  BY <1>0, <1>4 DEF WorkerExits
<1>5. CASE FeederReturns
  BY <1>0, <1>5 DEF FeederReturns
<1>6. CASE CloseResults
  BY <1>0, <1>6 DEF CloseResults
<1>7. CASE CollectAnswer
  <2>1. Head(results) \in Message /\ Tail(results) \in Seq(Message)
    BY <1>7, HeadTailProperties DEF CollectAnswer
  <2>2. Head(results).resource \in Resource
    BY <2>1 DEF Message
  <2>3. out' \in [DOMAIN out' -> BOOLEAN] /\ DOMAIN out' \subseteq Resource
    BY <1>7, <2>2 DEF CollectAnswer
  <2> QED
    BY <1>0, <1>7, <2>1, <2>3 DEF CollectAnswer
<1>8. CASE CollectError
  <2>1. Tail(results) \in Seq(Message)
    BY <1>8, HeadTailProperties DEF CollectError
  <2> QED
    BY <1>0, <1>8, <2>1 DEF CollectError, Fails
<1>9. CASE ReturnMap
  BY <1>0, <1>9 DEF ReturnMap
<1>10. CASE CallerCancels
  BY <1>0, <1>10 DEF CallerCancels
<1>11. CASE UNCHANGED vars
  BY <1>0, <1>11 DEF vars
<1> QED
  BY <1>1, <1>2, <1>3, <1>4, <1>5, <1>6, <1>7, <1>8, <1>9, <1>10, <1>11
  DEF Next, Goroutine, Collector

\* Every variable keeps its type, for every batch, engine and worker limit.
THEOREM TypeCorrect == Spec => []TypeOK
BY InitType, StepType, PTL DEF Spec
-----------------------------------------------------------------------------
\* No action changes the call's arguments, hence its workers and its batch.
LEMMA Arguments ==
    ASSUME [Next]_vars
    PROVE  /\ UNCHANGED <<resources, relation>>
           /\ Worker' = Worker /\ Capacity' = Capacity /\ Batch' = Batch
BY DEF Worker, workerCount, Capacity, Batch, Next, vars, callVars, Goroutine, Feed,
       HasRelation, Interrupted, CallReturns, Send, WorkerExits, FeederReturns,
       CloseResults, Collector, CollectAnswer, CollectError, ReturnMap, CallerCancels

\* The workers with a resource in hand can be counted.
LEMMA BusyFinite ==
    ASSUME TypeOK
    PROVE  IsFiniteSet(Busy) /\ Cardinality(Busy) \in Nat
<1>0. workerCount \in Int /\ 1 \in Int
  BY Workers, LimitAssumption DEF TypeOK
<1>1. IsFiniteSet(Worker)
  BY <1>0, FS_Interval DEF Worker
<1> QED
  BY <1>1, FS_Subset, FS_CardinalityType DEF Busy

\* Nothing is in flight at first.
LEMMA InitInFlight == Init => InFlight
<1> SUFFICES ASSUME Init PROVE InFlight
  OBVIOUS
<1>1. Busy = {}
  BY DEF Init, Busy
<1> QED
  BY <1>1, FS_EmptySet, EmptySeq DEF Init, InFlight

\* A resource in flight is one the feeder gave away.
LEMMA StepInFlight == TypeOK /\ InFlight /\ [Next]_vars => InFlight'
<1> SUFFICES ASSUME TypeOK, InFlight, [Next]_vars PROVE InFlight'
  OBVIOUS
<1> USE BusyFinite, Arguments DEF InFlight
<1>0. Len(results) \in Nat /\ next \in Nat
  BY LenProperties, Workers DEF TypeOK
<1>1. ASSUME NEW w \in Worker, Feed(w) PROVE InFlight'
  <2>1. Busy' = Busy \cup {w} /\ w \notin Busy
    BY <1>1 DEF Feed, Busy, TypeOK
  <2>2. Cardinality(Busy') = Cardinality(Busy) + 1
    BY <2>1, FS_AddElement
  <2> QED
    BY <1>0, <1>1, <2>2 DEF Feed, channelVars
<1>2. ASSUME NEW w \in Worker, HasRelation(w) \/ Interrupted(w) PROVE InFlight'
  <2>1. Busy' = Busy
    BY <1>2 DEF HasRelation, Interrupted, CallReturns, Busy, TypeOK
  <2> QED
    BY <1>2, <2>1 DEF HasRelation, Interrupted, CallReturns, feederVars, channelVars
<1>3. ASSUME NEW w \in Worker, Send(w) PROVE InFlight'
  <2>1. Busy' = Busy \ {w} /\ w \in Busy
    BY <1>3 DEF Send, Busy, TypeOK
  <2>2. Cardinality(Busy') = Cardinality(Busy) - 1
    BY <2>1, FS_RemoveElement
  <2>3. [resource |-> job[w], outcome |-> got[w]] \in Message
    BY DEF Message, TypeOK
  <2>4. Len(results') = Len(results) + 1
    BY <1>3, <2>3, AppendProperties DEF Send, TypeOK
  <2> QED
    BY <1>0, <1>3, <2>2, <2>4 DEF Send, feederVars
<1>4. ASSUME NEW w \in Worker, WorkerExits(w) PROVE InFlight'
  <2>1. Busy' = Busy
    BY <1>4 DEF WorkerExits, Busy, TypeOK
  <2> QED
    BY <1>4, <2>1 DEF WorkerExits, feederVars, channelVars
<1>5. CASE CollectAnswer \/ CollectError
  <2>1. Len(results') = Len(results) - 1
    BY <1>5, HeadTailProperties DEF CollectAnswer, CollectError, TypeOK
  <2>2. Busy' = Busy /\ next' = next
    BY <1>5 DEF CollectAnswer, CollectError, Busy, workerVars, feederVars
  <2> QED
    BY <1>0, <2>1, <2>2
<1>6. CASE FeederReturns \/ CloseResults \/ ReturnMap \/ CallerCancels \/ UNCHANGED vars
  <2>1. UNCHANGED <<pc, next, results>>
    BY <1>6 DEF FeederReturns, CloseResults, ReturnMap, CallerCancels, vars,
                workerVars, feederVars, channelVars
  <2> QED
    BY <2>1 DEF Busy
<1> QED
  BY <1>1, <1>2, <1>3, <1>4, <1>5, <1>6 DEF Next, Goroutine, Collector

-----------------------------------------------------------------------------
\* Feeder, workers, closer and collector end in their order.
LEMMA StepLifecycle == TypeOK /\ Lifecycle /\ [Next]_vars => Lifecycle'
<1> SUFFICES ASSUME TypeOK, Lifecycle, [Next]_vars PROVE Lifecycle'
  OBVIOUS
<1> USE Arguments DEF Lifecycle, CtxDone, Exited, callVars, ctxVars, feederVars,
                      workerVars, channelVars, replyVars
<1>0. Len(resources) \in Nat /\ next \in Nat
  BY Workers DEF TypeOK
<1>00. \E w \in Worker : TRUE
  BY Workers DEF TypeOK
<1>1. ASSUME NEW w \in Worker, Feed(w) PROVE Lifecycle'
  BY <1>0, <1>1 DEF Feed, TypeOK
<1>2. ASSUME NEW w \in Worker, HasRelation(w) \/ Interrupted(w) PROVE Lifecycle'
  BY <1>2 DEF HasRelation, Interrupted, CallReturns, TypeOK
<1>3. ASSUME NEW w \in Worker, Send(w) PROVE Lifecycle'
  BY <1>3 DEF Send, TypeOK
<1>4. ASSUME NEW w \in Worker, WorkerExits(w) PROVE Lifecycle'
  BY <1>4 DEF WorkerExits, TypeOK
<1>5. CASE FeederReturns
  BY <1>5 DEF FeederReturns, FeederDone
<1>6. CASE CloseResults
  BY <1>6 DEF CloseResults
<1>7. CASE CollectAnswer
  BY <1>7 DEF CollectAnswer
<1>8. CASE CollectError
  BY <1>8 DEF CollectError
<1>9. CASE ReturnMap
  BY <1>9 DEF ReturnMap
<1>10. CASE CallerCancels
  BY <1>10 DEF CallerCancels
<1>11. CASE UNCHANGED vars
  BY <1>11 DEF vars
<1> QED
  BY <1>1, <1>2, <1>3, <1>4, <1>5, <1>6, <1>7, <1>8, <1>9, <1>10, <1>11
  DEF Next, Goroutine, Collector

-----------------------------------------------------------------------------
\* What is true of an outcome stays true: contexts never come back to life.
LEMMA TruthfulStable ==
    ASSUME [Next]_vars, NEW r, NEW o, Truthful(r, o)
    PROVE  Truthful(r, o)'
<1>1. CtxDone => CtxDone'
  BY DEF CtxDone, Next, vars, ctxVars, Goroutine, Feed, HasRelation, Interrupted,
         CallReturns, Send, WorkerExits, FeederReturns, CloseResults, Collector,
         CollectAnswer, CollectError, ReturnMap, CallerCancels
<1> QED
  BY <1>1, Arguments DEF Truthful

\* What is in flight is the engine's word, or the error of a context that is done.
LEMMA StepTruths == TypeOK /\ Truths /\ [Next]_vars => Truths'
<1> SUFFICES ASSUME TypeOK, Truths, [Next]_vars PROVE Truths'
  OBVIOUS
<1> USE Arguments, TruthfulStable DEF Truths
<1>1. ASSUME NEW w \in Worker, Feed(w) PROVE Truths'
  <2>1. resources[next] \in Batch
    BY <1>1, Workers, LenProperties DEF Feed, Batch, TypeOK
  <2> QED
    BY <1>1, <2>1 DEF Feed, Busy, TypeOK, channelVars
<1>2. ASSUME NEW w \in Worker, HasRelation(w) \/ Interrupted(w) PROVE Truths'
  <2>1. w \in Busy /\ Busy' = Busy
    BY <1>2 DEF HasRelation, Interrupted, CallReturns, Busy, TypeOK
  <2>2. Truthful(job[w], got'[w])
    BY <1>2, <2>1 DEF HasRelation, Interrupted, CallReturns, Truthful, TypeOK
  <2>3. \A v \in Worker : pc'[v] = "sending" => Truthful(job[v], got'[v])
    BY <1>2, <2>2 DEF HasRelation, Interrupted, CallReturns, TypeOK
  <2>4. UNCHANGED <<job, results>>
    BY <1>2 DEF HasRelation, Interrupted, CallReturns, channelVars
  <2> QED
    BY <2>1, <2>3, <2>4
<1>3. ASSUME NEW w \in Worker, Send(w) PROVE Truths'
  <2> DEFINE m == [resource |-> job[w], outcome |-> got[w]]
  <2>1. m \in Message /\ Truthful(m.resource, m.outcome)
    BY <1>3 DEF Send, Message, TypeOK
  <2>2. /\ DOMAIN results' = 1..Len(results) + 1
        /\ \A k \in 1..Len(results) : results'[k] = results[k]
        /\ results'[Len(results) + 1] = m
    BY <1>3, <2>1, AppendProperties, LenProperties DEF Send, TypeOK
  <2>3. \A k \in DOMAIN results' : Truthful(results'[k].resource, results'[k].outcome)
    BY <2>1, <2>2, LenProperties DEF TypeOK
  <2>4. UNCHANGED <<job, got>> /\ Busy' \subseteq Busy
    BY <1>3 DEF Send, Busy, TypeOK
  <2>5. \A v \in Worker : pc'[v] = "sending" => pc[v] = "sending"
    BY <1>3 DEF Send, TypeOK
  <2> QED
    BY <2>3, <2>4, <2>5
<1>4. ASSUME NEW w \in Worker, WorkerExits(w) PROVE Truths'
  BY <1>4 DEF WorkerExits, Busy, TypeOK, channelVars
<1>5. CASE CollectAnswer \/ CollectError
  <2>1. /\ DOMAIN results' = 1..Len(results) - 1
        /\ \A k \in 1..Len(results) - 1 : results'[k] = results[k + 1]
    BY <1>5, HeadTailProperties, LenProperties DEF CollectAnswer, CollectError, TypeOK
  <2>2. \A k \in DOMAIN results' : Truthful(results'[k].resource, results'[k].outcome)
    BY <2>1, LenProperties DEF TypeOK
  <2>3. UNCHANGED <<pc, job, got>>
    BY <1>5 DEF CollectAnswer, CollectError, workerVars
  <2> QED
    BY <2>2, <2>3 DEF Busy
<1>6. CASE FeederReturns \/ CloseResults \/ ReturnMap \/ CallerCancels \/ UNCHANGED vars
  <2>1. UNCHANGED <<pc, job, got, results>>
    BY <1>6 DEF FeederReturns, CloseResults, ReturnMap, CallerCancels, vars,
                workerVars, channelVars
  <2> QED
    BY <2>1 DEF Busy
<1> QED
  BY <1>1, <1>2, <1>3, <1>4, <1>5, <1>6 DEF Next, Goroutine, Collector

-----------------------------------------------------------------------------
\* The map holds true answers, and no resource is lost on the way to it.
LEMMA StepAnswers ==
    TypeOK /\ Lifecycle /\ Truths /\ Answers /\ [Next]_vars => Answers'
<1> SUFFICES ASSUME TypeOK, Lifecycle, Truths, Answers, [Next]_vars PROVE Answers'
  OBVIOUS
<1> DEFINE Kept(r) == r \in DOMAIN out \/ Held(r) \/ Queued(r)
           Sound == \A r \in DOMAIN out :
                       /\ r \in Batch
                       /\ relation[r] \in {"allow", "deny"}
                       /\ out[r] <=> relation[r] = "allow"
<1> USE Arguments
<1>0. next \in Nat /\ Len(results) \in Nat
  BY Workers, LenProperties DEF TypeOK
<1>00. Sound /\ (status # "failed" => \A i \in 1..next - 1 : Kept(resources[i]))
  BY DEF Answers
<1>01. ASSUME UNCHANGED <<out, next>>, status' # "failed" => status # "failed",
              \A r : (Held(r) => Held(r)' \/ Queued(r)') /\ (Queued(r) => Queued(r)')
       PROVE  Answers'
  BY <1>00, <1>01 DEF Answers
<1>1. ASSUME NEW w \in Worker, Feed(w) PROVE Answers'
  <2>1. Busy' = Busy \cup {w} /\ w \notin Busy /\ UNCHANGED <<results, out, status>>
    BY <1>1 DEF Feed, Busy, TypeOK, channelVars, replyVars
  <2>2. job'[w] = resources[next] /\ \A v \in Worker : v # w => job'[v] = job[v]
    BY <1>1 DEF Feed, TypeOK
  <2>3. \A r : Held(r) => Held(r)'
    BY <2>1, <2>2 DEF Held, Busy
  <2>4. \A r : r = resources[next] => Held(r)'
    BY <2>1, <2>2 DEF Held
  <2>5. \A i \in 1..next' - 1 : i = next \/ i \in 1..next - 1
    BY <1>0, <1>1 DEF Feed
  <2>6. status # "failed" => \A i \in 1..next' - 1 : Kept(resources[i])'
    BY <1>00, <2>1, <2>3, <2>4, <2>5 DEF Queued
  <2> QED
    BY <1>00, <2>1, <2>6 DEF Answers
<1>2. ASSUME NEW w \in Worker, HasRelation(w) \/ Interrupted(w) PROVE Answers'
  <2>1. Busy' = Busy
    BY <1>2 DEF HasRelation, Interrupted, CallReturns, Busy, TypeOK
  <2>2. UNCHANGED <<job, results, out, status, next>>
    BY <1>2 DEF HasRelation, Interrupted, CallReturns, channelVars, replyVars, feederVars
  <2> QED
    BY <1>01, <2>1, <2>2 DEF Held, Queued
<1>3. ASSUME NEW w \in Worker, Send(w) PROVE Answers'
  <2> DEFINE m == [resource |-> job[w], outcome |-> got[w]]
  <2>1. m \in Message
    BY DEF Message, TypeOK
  <2>2. /\ DOMAIN results' = 1..Len(results) + 1
        /\ \A k \in 1..Len(results) : results'[k] = results[k]
        /\ results'[Len(results) + 1] = m
        /\ DOMAIN results = 1..Len(results)
    BY <1>3, <2>1, AppendProperties, LenProperties DEF Send, TypeOK
  <2>3. \A r : Queued(r) => Queued(r)'
    BY <1>0, <2>2 DEF Queued
  <2>4. \A r : r = job[w] => Queued(r)'
    BY <1>0, <2>2 DEF Queued
  <2>5. Busy' = Busy \ {w} /\ UNCHANGED <<job, out, next, status>>
    BY <1>3 DEF Send, Busy, TypeOK, feederVars, replyVars
  <2>6. \A r : Held(r) => Held(r)' \/ Queued(r)'
    BY <2>4, <2>5 DEF Held
  <2> QED
    BY <1>01, <2>3, <2>5, <2>6
<1>4. ASSUME NEW w \in Worker, WorkerExits(w) PROVE Answers'
  <2>1. Busy' = Busy
    BY <1>4 DEF WorkerExits, Busy, TypeOK
  <2>2. UNCHANGED <<job, results, out, status, next>>
    BY <1>4 DEF WorkerExits, channelVars, replyVars, feederVars
  <2> QED
    BY <1>01, <2>1, <2>2 DEF Held, Queued
<1>5. CASE CollectAnswer
  <2> DEFINE h == Head(results)
  <2>1. /\ h = results[1] /\ 1 \in DOMAIN results
        /\ DOMAIN results = 1..Len(results) /\ DOMAIN results' = 1..Len(results) - 1
        /\ \A k \in 1..Len(results) - 1 : results'[k] = results[k + 1]
    BY <1>5, HeadTailProperties, LenProperties DEF CollectAnswer, TypeOK
  <2>2. Truthful(h.resource, h.outcome) /\ h.outcome \in {"allow", "deny"}
    BY <1>5, <2>1 DEF Truths, CollectAnswer
  <2>3. /\ DOMAIN out' = DOMAIN out \cup {h.resource}
        /\ out'[h.resource] = (h.outcome = "allow")
        /\ \A r \in DOMAIN out : r # h.resource => out'[r] = out[r]
    BY <1>5 DEF CollectAnswer
  <2>4. Sound'
    <3> SUFFICES ASSUME NEW r \in DOMAIN out'
                 PROVE  r \in Batch /\ relation[r] \in {"allow", "deny"}
                        /\ (out'[r] <=> relation[r] = "allow")
      OBVIOUS
    <3>1. CASE r = h.resource
      BY <2>2, <2>3, <3>1 DEF Truthful
    <3>2. CASE r # h.resource
      BY <1>00, <2>3, <3>2
    <3> QED
      BY <3>1, <3>2
  <2>5. ASSUME NEW r, Queued(r) PROVE r = h.resource \/ Queued(r)'
    <3>1. PICK k \in 1..Len(results) : results[k].resource = r
      BY <2>1, <2>5 DEF Queued
    <3>2. CASE k = 1
      BY <2>1, <3>1, <3>2
    <3>3. CASE k # 1
      <4>1. k - 1 \in 1..Len(results) - 1 /\ (k - 1) + 1 = k
        BY <1>0, <3>3
      <4> QED
        BY <2>1, <3>1, <4>1 DEF Queued
    <3> QED
      BY <3>2, <3>3
  <2>6. UNCHANGED <<pc, job, next, status>>
    BY <1>5 DEF CollectAnswer, workerVars, feederVars
  <2>7. \A r : Held(r) => Held(r)'
    BY <2>6 DEF Held, Busy
  <2> QED
    BY <1>00, <2>3, <2>4, <2>5, <2>6, <2>7 DEF Answers
<1>6. CASE CollectError
  BY <1>00, <1>6 DEF CollectError, Answers
<1>7. CASE FeederReturns \/ CloseResults \/ ReturnMap \/ CallerCancels \/ UNCHANGED vars
  <2>1. /\ UNCHANGED <<pc, job, results, out, next>>
        /\ status' # "failed" => status # "failed"
    BY <1>7 DEF FeederReturns, CloseResults, ReturnMap, CallerCancels, vars,
                workerVars, channelVars, feederVars, replyVars
  <2> QED
    BY <1>01, <2>1 DEF Held, Queued, Busy
<1> QED
  BY <1>1, <1>2, <1>3, <1>4, <1>5, <1>6, <1>7 DEF Next, Goroutine, Collector

-----------------------------------------------------------------------------
\* At a return with a nil error nothing is in flight, so the map holds every
\* resource the feeder gave away: the batch, if no context stopped the feeder.
LEMMA MapIsWhole ==
    ASSUME TypeOK, Lifecycle, Answers, ReturnMap
    PROVE  callerDone \/ DOMAIN out = Batch
<1> SUFFICES ASSUME ~callerDone PROVE DOMAIN out = Batch
  OBVIOUS
<1>1. Exited /\ ~cancelled /\ status = "collecting" /\ results = <<>>
  BY DEF ReturnMap, Lifecycle
<1>2. jobsClosed
  BY <1>1, Workers DEF Lifecycle, Exited, TypeOK
<1>3. next > Len(resources)
  BY <1>1, <1>2 DEF Lifecycle, CtxDone
<1>4. \A i \in DOMAIN resources : i \in 1..next - 1
  BY <1>3, Workers, LenProperties DEF TypeOK
<1>5. \A r : ~Held(r)
  BY <1>1 DEF Exited, Held, Busy
<1>6. \A r : ~Queued(r)
  BY <1>1, EmptySeq, LenProperties DEF Queued
<1>7. \A i \in DOMAIN resources : resources[i] \in DOMAIN out
  BY <1>1, <1>4, <1>5, <1>6 DEF Answers
<1> QED
  BY <1>7 DEF Answers, Batch

\* A call returns the whole map, or an error somebody else caused.
LEMMA StepReturned ==
    TypeOK /\ Lifecycle /\ Truths /\ Answers /\ Returned /\ [Next]_vars => Returned'
<1> SUFFICES ASSUME TypeOK, Lifecycle, Truths, Answers, Returned, [Next]_vars
             PROVE  Returned'
  OBVIOUS
<1> USE Arguments DEF Returned, channelVars, replyVars, ctxVars
<1>1. CASE status' = status /\ failure' = failure /\ (status = "collecting" \/ out' = out)
  <2>1. callerDone => callerDone'
    BY DEF Next, vars, Goroutine, Feed, HasRelation, Interrupted, CallReturns, Send,
           WorkerExits, FeederReturns, CloseResults, Collector, CollectAnswer,
           CollectError, ReturnMap, CallerCancels
  <2> QED
    BY <1>1, <2>1
<1>2. CASE CollectError
  <2>1. Head(results) = results[1] /\ 1 \in DOMAIN results
    BY <1>2, HeadTailProperties, LenProperties DEF CollectError, TypeOK
  <2>2. Truthful(Head(results).resource, Head(results).outcome)
    BY <2>1 DEF Truths
  <2>3. ~cancelled
    BY <1>2 DEF CollectError, Lifecycle
  <2> QED
    BY <1>2, <2>2, <2>3 DEF CollectError, Fails, Truthful, CtxDone
<1>3. CASE ReturnMap
  BY <1>3, MapIsWhole DEF ReturnMap
<1> QED
  BY <1>1, <1>2, <1>3 DEF Next, vars, Goroutine, Feed, HasRelation, Interrupted,
     CallReturns, Send, WorkerExits, FeederReturns, CloseResults, Collector,
     CollectAnswer, CallerCancels

-----------------------------------------------------------------------------
\* The invariant holds at first.
LEMMA InitInv == Init => IInv
<1> SUFFICES ASSUME Init PROVE IInv
  OBVIOUS
<1>1. TypeOK /\ InFlight
  BY InitType, InitInFlight
<1>2. Busy = {} /\ DOMAIN results = {} /\ \A w \in Worker : pc[w] = "idle"
  BY EmptySeq, LenProperties DEF Init, Busy
<1>3. Lifecycle
  BY <1>2, Workers DEF Init, Lifecycle, Exited
<1>4. Truths
  BY <1>2 DEF Truths
<1>5. Answers
  BY DEF Init, Answers, NoMap
<1>6. Returned
  BY DEF Init, Returned
<1> QED
  BY <1>1, <1>3, <1>4, <1>5, <1>6 DEF IInv

\* The inductive invariant holds in every reachable state.
THEOREM Invariant == Spec => []IInv
<1>1. IInv /\ [Next]_vars => IInv'
  BY StepType, StepInFlight, StepLifecycle, StepTruths, StepAnswers, StepReturned DEF IInv
<1> QED
  BY <1>1, InitInv, PTL DEF Spec

-----------------------------------------------------------------------------
\* A worker that holds an outcome always finds room for it: what the feeder
\* gave away is at most the batch, and the results channel holds the batch.
THEOREM Delivery == Spec => []SendNeverBlocks
<1>1. IInv => SendNeverBlocks
  <2> SUFFICES ASSUME IInv, NEW w \in Worker, pc[w] = "sending"
               PROVE  Len(results) < Capacity
    BY DEF SendNeverBlocks
  <2>1. w \in Busy
    BY DEF Busy
  <2>2. Cardinality(Busy) # 0 /\ Cardinality(Busy) \in Nat
    BY <2>1, BusyFinite, FS_EmptySet DEF IInv
  <2>3. Len(results) \in Nat /\ next \in 1..Capacity + 1 /\ Capacity \in Nat
    BY Workers, LenProperties DEF IInv, TypeOK, Capacity
  <2> QED
    BY <2>2, <2>3 DEF IInv, InFlight
<1> QED
  BY <1>1, Invariant, PTL

\* No goroutine sends on the results channel once it is closed.
THEOREM CloseIsLast == Spec => []NoSendAfterClose
<1>1. IInv => NoSendAfterClose
  BY DEF IInv, Lifecycle, Exited, NoSendAfterClose, Busy
<1> QED
  BY <1>1, Invariant, PTL

\* A nil error from a call whose context stayed live carries the engine's
\* answer for every resource of the batch.
THEOREM Complete == Spec => []CompleteAnswer
<1>1. IInv => CompleteAnswer
  BY DEF IInv, Returned, Answers, CompleteAnswer
<1> QED
  BY <1>1, Invariant, PTL

\* The error of a call whose context stayed live is one the engine gave.
THEOREM Honest == Spec => []HonestError
<1>1. IInv => HonestError
  BY DEF IInv, Returned, HonestError
<1> QED
  BY <1>1, Invariant, PTL

\* A nil error leaves no goroutine of the call behind.
THEOREM Quiet == Spec => []QuietOnSuccess
<1>1. IInv => QuietOnSuccess
  <2> SUFFICES ASSUME IInv, status = "ok" PROVE jobsClosed /\ Exited /\ resultsClosed
    BY DEF QuietOnSuccess
  <2>1. resultsClosed /\ Exited
    BY DEF IInv, Lifecycle
  <2> QED
    BY <2>1, Workers DEF IInv, Lifecycle, Exited, TypeOK
<1> QED
  BY <1>1, Invariant, PTL

-----------------------------------------------------------------------------
\* Every step of the call is a step of BatchCheck or leaves its variables
\* alone: only the caller's cancellation and the two returns are visible.
LEMMA StepImplements == IInv /\ [Next]_vars => [Check!Next]_Check!vars
<1> SUFFICES ASSUME IInv, [Next]_vars PROVE [Check!Next]_Check!vars
  OBVIOUS
<1> DEFINE mapped == IF status = "ok" THEN out ELSE NoMap
<1>0. UNCHANGED <<resources, relation>>
  BY Arguments
<1>1. CASE UNCHANGED <<callerDone, status, failure>> /\ status = "collecting"
  BY <1>0, <1>1 DEF Check!vars, Check!callVars, Check!NoMap, NoMap
<1>2. CASE UNCHANGED <<callerDone, status, failure, out>>
  BY <1>0, <1>2 DEF Check!vars, Check!callVars, NoMap
<1>3. CASE CallerCancels
  BY <1>0, <1>3 DEF CallerCancels, replyVars, callVars, Check!Next, Check!Cancel,
                    Check!callVars, NoMap
<1>4. CASE CollectError
  <2>1. Head(results) = results[1] /\ 1 \in DOMAIN results
    BY <1>4, HeadTailProperties, LenProperties DEF CollectError, IInv, TypeOK
  <2>2. Truthful(Head(results).resource, Head(results).outcome)
    BY <2>1 DEF IInv, Truths
  <2>3. ~cancelled
    BY <1>4 DEF CollectError, IInv, Lifecycle
  <2>4. \/ failure' = "engine" /\ \E r \in Batch : relation[r] = "fail"
        \/ failure' = "ctx" /\ callerDone
    BY <1>4, <2>2, <2>3 DEF CollectError, Fails, Truthful, CtxDone
  <2>5. Check!ReturnError
    BY <1>0, <1>4, <2>4 DEF CollectError, Check!ReturnError, Check!callVars,
                            Check!Batch, Batch, NoMap
  <2> QED
    BY <2>5 DEF Check!Next
<1>5. CASE ReturnMap
  <2>1. callerDone \/ DOMAIN out = Batch
    BY <1>5, MapIsWhole DEF IInv
  <2>2. DOMAIN out \in SUBSET Batch
    BY DEF IInv, Answers
  <2>3. out = Check!Answers(DOMAIN out)
    <3>1. out = [r \in DOMAIN out |-> out[r]] /\ out \in [DOMAIN out -> BOOLEAN]
      BY DEF IInv, TypeOK
    <3>2. \A r \in DOMAIN out : out[r] = (relation[r] = "allow")
      BY <3>1 DEF IInv, Answers
    <3> QED
      BY <3>1, <3>2 DEF Check!Answers
  <2>4. Check!Answerable(DOMAIN out)
    BY DEF IInv, Answers, Check!Answerable
  <2>5. mapped' = out
    BY <1>5 DEF ReturnMap, replyVars
  <2>6. Check!ReturnMap
    BY <1>0, <1>5, <2>1, <2>2, <2>3, <2>4, <2>5
    DEF ReturnMap, Check!ReturnMap, Check!callVars, Check!Batch, Batch, replyVars, ctxVars
  <2> QED
    BY <2>6 DEF Check!Next
<1> QED
  BY <1>1, <1>2, <1>3, <1>4, <1>5 DEF Next, vars, Goroutine, Feed, HasRelation,
     Interrupted, CallReturns, Send, WorkerExits, FeederReturns, CloseResults, Collector,
     CollectAnswer, ctxVars, replyVars

\* The goroutines and channels of a call implement the one-step promise of
\* BatchCheck.
THEOREM Refinement == Spec => ImplementsBatchCheck
<1>1. Init => Check!Init
  BY DEF Init, Check!Init, NoMap, Check!NoMap
<1> QED
  BY <1>1, StepImplements, Invariant, PTL DEF Spec, ImplementsBatchCheck, Check!Spec
=============================================================================
