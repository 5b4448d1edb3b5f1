---------------------------- MODULE AnyBatchProofs ----------------------------
(***************************************************************************)
(* Proofs about AnyBatch, for any resources, lists and chains of children: *)
(* agreement of the batch with Authorize, and the refinement of OrCheck,   *)
(* which makes what AnyBatch assumes of a nested AnyAuthorizer true of it. *)
(***************************************************************************)
EXTENDS AnyBatch, SequenceTheorems, TLAPS

TypeOK ==
    /\ chain \in Seq(Kind) /\ resources \in Seq(Resource)
    /\ verdict \in [DOMAIN chain -> [Resource -> Verdict]]
    /\ \A c \in DOMAIN chain : Possible(chain[c], verdict[c])
    /\ callerDone \in BOOLEAN /\ returned \in BOOLEAN
    /\ child \in 1..Len(chain) + 1
    /\ asking \in {"collecting", "ok", "failed"} /\ asked \in Nat
    /\ partial \in [DOMAIN partial -> BOOLEAN]
    /\ failure \in {"none", "engine", "ctx"}
    /\ remaining \subseteq DOMAIN resources
    /\ out \in [DOMAIN out -> BOOLEAN]

\* Which steps of the loop go together.
Stages ==
    /\ asking = "ok" => child \in Children /\ ~returned
    /\ asking = "failed" => ~returned
    /\ returned => child \notin DOMAIN chain
    /\ asking = "collecting" /\ DOMAIN partial # {} =>
          child \in DOMAIN chain /\ chain[child] = "single"
    /\ failure = "none" <=> asking # "failed"

\* What is decided so far: the resources that a child has allowed.
Filtered ==
    ~returned =>
        /\ AsksUndecidedOnly
        /\ DOMAIN out \subseteq Batch
        /\ \A r \in DOMAIN out : out[r]

\* Each child before this one denies the resource.
DeniedBefore(c, r) == \A d \in Children : d < c => verdict[d][r] = "deny"

\* While the context is live, a resource is decided by the first child that
\* does not deny it, and that child allows it.
Settled(r) ==
    IF r \in DOMAIN out
    THEN \E c \in Children : c < child /\ verdict[c][r] = "allow" /\ DeniedBefore(c, r)
    ELSE DeniedBefore(child, r)

\* The map of the child at work says what the child says.
Partial ==
    /\ asking # "failed" => \A r \in DOMAIN partial : partial[r] => Grants(child, r)
    /\ asking = "collecting" =>
          DOMAIN partial = {resources[i] : i \in {j \in remaining : j <= asked}}
    /\ asking = "ok" /\ ~callerDone => DOMAIN partial = Named(remaining)
    /\ asking # "failed" /\ ~callerDone =>
          \A r \in DOMAIN partial :
              verdict[child][r] = IF partial[r] THEN "allow" ELSE "deny"

IInv ==
    /\ TypeOK /\ Stages /\ Filtered /\ Partial
    /\ ~returned /\ ~callerDone => \A r \in Batch : Settled(r)
    /\ AgreesWhileLive /\ GrantsAreReal
    /\ returned => DOMAIN out = Batch

-----------------------------------------------------------------------------
\* No child has been asked at first, and every position remains.
LEMMA InitInv == Init => IInv
<1> SUFFICES ASSUME Init PROVE IInv
  OBVIOUS
<1>1. chain \in Seq(Kind) /\ resources \in Seq(Resource)
  BY ListsAssumption, ChainsAssumption DEF Init
<1>2. /\ Len(chain) \in Nat /\ DOMAIN chain = 1..Len(chain)
      /\ DOMAIN resources = 1..Len(resources)
  BY <1>1, LenProperties
<1>3. /\ DOMAIN partial = {} /\ partial \in [DOMAIN partial -> BOOLEAN]
      /\ DOMAIN out = {} /\ out \in [DOMAIN out -> BOOLEAN]
  BY DEF Init, NoMap
<1>4. TypeOK
  <2>1. /\ verdict \in [DOMAIN chain -> [Resource -> Verdict]]
        /\ \A c \in DOMAIN chain : Possible(chain[c], verdict[c])
        /\ remaining \subseteq DOMAIN resources
    BY DEF Init
  <2>2. child \in 1..Len(chain) + 1
    BY <1>2 DEF Init
  <2>3. /\ asking = "collecting" /\ asked \in Nat /\ failure = "none"
        /\ callerDone \in BOOLEAN /\ returned \in BOOLEAN
    BY DEF Init
  <2> QED
    BY <1>1, <1>3, <2>1, <2>2, <2>3 DEF TypeOK
<1>5. Stages /\ Filtered
  BY <1>2, <1>3 DEF Init, Stages, Filtered, AsksUndecidedOnly
<1>6. Partial
  BY <1>2, <1>3 DEF Init, Partial
<1>7. \A r \in Batch : Settled(r)
  BY <1>2, <1>3 DEF Init, Settled, DeniedBefore, Children
<1> QED
  BY <1>3, <1>4, <1>5, <1>6, <1>7 DEF IInv, AgreesWhileLive, GrantsAreReal, Init

\* Every variable keeps its type.
LEMMA StepTypes == TypeOK /\ Stages /\ [Next]_vars => TypeOK'
<1> SUFFICES ASSUME TypeOK, Stages, [Next]_vars PROVE TypeOK'
  OBVIOUS
<1> USE DEF TypeOK, callVars, childVars, mapVars
<1>1. CASE Skip
  BY <1>1 DEF Skip
<1>2. CASE AnswerAll
  BY <1>2 DEF AnswerAll, Allows
<1>3. CASE FailAll
  BY <1>3 DEF FailAll, Working, ChildFails
<1>4. CASE FanOut
  BY <1>4
  DEF FanOut, Working, Fan!ReturnMap, Fan!ReturnError, Fan!Answers, Fan!Answerable,
      Fan!Batch, Fan!callVars, Remaining, Named
<1>5. CASE AskBatch
  BY <1>5
  DEF AskBatch, Working, Nested!ReturnMap, Nested!ReturnError, Nested!Batch, Remaining,
      Named
<1>6. CASE AskOne
  <2>1. PICK i \in remaining : Ask(i)
    BY <1>6 DEF AskOne
  <2>2. CASE asking' = "failed"
    BY <2>1, <2>2, <1>6 DEF Ask, ChildFails, AskOne, Working
  <2>3. CASE asking' # "failed"
    <3>1. partial' = [r \in DOMAIN partial \cup {resources[i]} |->
                        IF r = resources[i] THEN Allows(r) ELSE partial[r]]
      BY <2>1, <2>3 DEF Ask, ChildFails
    <3>2. partial' \in [DOMAIN partial' -> BOOLEAN]
      BY <3>1 DEF Allows
    <3>3. asked' \in Nat
      BY <2>1, <2>3, LenProperties DEF Ask, ChildFails
    <3> QED
      BY <2>1, <2>3, <3>2, <3>3 DEF Ask, ChildFails
  <2> QED
    BY <2>2, <2>3
<1>7. CASE AllAsked
  BY <1>7 DEF AllAsked, Working
<1>8. CASE Absorb
  <2>1. child' \in 1..Len(chain) + 1
    BY <1>8, LenProperties DEF Absorb, Stages, Children
  <2>2. /\ partial' \in [DOMAIN partial' -> BOOLEAN] /\ out' \in [DOMAIN out' -> BOOLEAN]
        /\ remaining' \subseteq remaining
    BY <1>8 DEF Absorb, NoMap
  <2> QED
    BY <1>8, <2>1, <2>2 DEF Absorb
<1>9. CASE Return
  BY <1>9 DEF Return, Named
<1>10. CASE CallerCancels
  BY <1>10 DEF CallerCancels
<1>11. CASE UNCHANGED vars
  BY <1>11 DEF vars
<1> QED
  BY <1>1, <1>2, <1>3, <1>4, <1>5, <1>6, <1>7, <1>8, <1>9, <1>10, <1>11 DEF Next

\* The loop keeps its order.
LEMMA StepStages == TypeOK /\ Stages /\ Partial /\ [Next]_vars => Stages'
<1> SUFFICES ASSUME TypeOK, Stages, Partial, [Next]_vars PROVE Stages'
  OBVIOUS
<1> USE DEF TypeOK, Stages, Partial, Children, callVars, childVars, mapVars
<1>1. CASE Skip
  BY <1>1 DEF Skip
<1>2. CASE AnswerAll
  BY <1>2 DEF AnswerAll, Working, Named
<1>3. CASE FailAll
  BY <1>3 DEF FailAll, Working, ChildFails
<1>4. CASE FanOut
  BY <1>4
  DEF FanOut, Working, Fan!ReturnMap, Fan!ReturnError, Fan!Answers, Fan!Answerable,
      Fan!Batch, Fan!callVars, Remaining, Named
<1>5. CASE AskBatch
  BY <1>5
  DEF AskBatch, Working, Nested!ReturnMap, Nested!ReturnError, Nested!Batch, Remaining,
      Named
<1>6. CASE AskOne
  BY <1>6 DEF AskOne, Ask, Working, ChildFails
<1>7. CASE AllAsked
  BY <1>7 DEF AllAsked, Working
<1>8. CASE Absorb
  BY <1>8 DEF Absorb, Undecided, NoMap, Named
<1>9. CASE Return
  BY <1>9 DEF Return, Named
<1>10. CASE CallerCancels
  BY <1>10 DEF CallerCancels
<1>11. CASE UNCHANGED vars
  BY <1>11 DEF vars
<1> QED
  BY <1>1, <1>2, <1>3, <1>4, <1>5, <1>6, <1>7, <1>8, <1>9, <1>10, <1>11 DEF Next

\* What is decided stays decided, and only the loop's own steps decide.
LEMMA LoopSteps ==
    ASSUME [Next]_vars
    PROVE  /\ UNCHANGED callVars /\ (callerDone => callerDone')
           /\ Skip \/ Absorb \/ Return \/ UNCHANGED <<child, mapVars, returned>>
<1> USE DEF callVars, mapVars
<1>1. CASE AnswerAll
  BY <1>1 DEF AnswerAll
<1>2. CASE FailAll
  BY <1>2 DEF FailAll, ChildFails
<1>3. CASE FanOut
  BY <1>3 DEF FanOut, Fan!ReturnMap, Fan!ReturnError
<1>4. CASE AskBatch
  BY <1>4 DEF AskBatch, Nested!ReturnMap, Nested!ReturnError
<1>5. CASE AskOne
  BY <1>5 DEF AskOne, Ask, ChildFails
<1>6. CASE AllAsked
  BY <1>6 DEF AllAsked
<1>7. CASE CallerCancels
  BY <1>7 DEF CallerCancels
<1>8. CASE UNCHANGED vars
  BY <1>8 DEF vars
<1>9. CASE Skip \/ Absorb \/ Return
  BY <1>9 DEF Skip, Absorb, Return
<1> QED
  BY <1>1, <1>2, <1>3, <1>4, <1>5, <1>6, <1>7, <1>8, <1>9 DEF Next

\* The in-place filter leaves the positions without an answer and no other.
LEMMA StepFiltered ==
    ASSUME TypeOK, Filtered, [Next]_vars
    PROVE  Filtered'
<1> USE LoopSteps DEF TypeOK, Filtered, AsksUndecidedOnly, Batch, Named, callVars, mapVars
<1>1. CASE Skip
  BY <1>1 DEF Skip
<1>2. CASE Absorb
  BY <1>2 DEF Absorb, Undecided
<1>3. CASE Return
  BY <1>3 DEF Return
<1> QED
  BY <1>1, <1>2, <1>3

\* A child's answer counts in its turn: a resource is settled by the first child
\* that does not deny it.
LEMMA StepSettled ==
    ASSUME TypeOK, Stages, Filtered, Partial, [Next]_vars, ~returned', ~callerDone',
           ~callerDone => \A r \in Batch : Settled(r)
    PROVE  \A r \in Batch : Settled(r)'
<1>0. /\ UNCHANGED callVars /\ ~callerDone /\ Children' = Children
      /\ \A r \in Batch : Settled(r)
      /\ child \in Int /\ Children \subseteq Int
  BY LoopSteps, LenProperties DEF callVars, Children, TypeOK
<1>1. CASE Skip
  <2>1. /\ child' = child + 1 /\ UNCHANGED out
        /\ child \notin Children \/ Named(remaining) = {}
    BY <1>1 DEF Skip, Children, Named, mapVars
  <2>2. ~returned
    BY <1>1 DEF Skip
  <2>3. ASSUME NEW r \in Batch, r \notin DOMAIN out PROVE child \notin Children
    BY <2>1, <2>2, <2>3 DEF Filtered, AsksUndecidedOnly, Batch, Named
  <2>4. ASSUME NEW r \in Batch, r \in DOMAIN out PROVE Settled(r)'
    BY <1>0, <2>1, <2>4 DEF Settled, DeniedBefore, callVars
  <2>5. ASSUME NEW r \in Batch, r \notin DOMAIN out PROVE Settled(r)'
    BY <1>0, <2>1, <2>3, <2>5 DEF Settled, DeniedBefore, callVars
  <2> QED
    BY <2>4, <2>5
<1>2. CASE Absorb
  <2>1. child' = child + 1 /\ child \in Children /\ ~returned
    BY <1>2 DEF Absorb, Stages
  <2>2. /\ DOMAIN out' = DOMAIN out \cup {x \in Named(remaining) : ~Undecided(x)}
        /\ DOMAIN partial = Named(remaining)
        /\ \A x \in Named(remaining) :
              verdict[child][x] = IF Undecided(x) THEN "deny" ELSE "allow"
    BY <1>0, <1>2 DEF Absorb, Partial, Undecided
  <2>3. \A r \in Batch : r \notin DOMAIN out => r \in Named(remaining)
    BY <2>1 DEF Filtered, AsksUndecidedOnly, Batch, Named
  <2>4. ASSUME NEW r \in Batch, r \in DOMAIN out PROVE Settled(r)'
    BY <1>0, <2>1, <2>2, <2>4 DEF Settled, DeniedBefore, callVars
  <2>5. ASSUME NEW r \in Batch, r \notin DOMAIN out, Undecided(r) PROVE Settled(r)'
    BY <1>0, <2>1, <2>2, <2>3, <2>5 DEF Settled, DeniedBefore, callVars
  <2>6. ASSUME NEW r \in Batch, r \notin DOMAIN out, ~Undecided(r) PROVE Settled(r)'
    BY <1>0, <2>1, <2>2, <2>3, <2>6 DEF Settled, DeniedBefore, callVars
  <2> QED
    BY <2>4, <2>5, <2>6
<1>3. CASE UNCHANGED <<child, mapVars, returned>>
  BY <1>0, <1>3 DEF Settled, DeniedBefore, callVars, mapVars
<1> QED
  BY <1>1, <1>2, <1>3, LoopSteps DEF Return

\* The resources a child is asked for are the caller's; only a nested chain may have
\* a verdict that is torn.
LEMMA Verdicts ==
    ASSUME TypeOK, child \in DOMAIN chain, NEW r \in Named(remaining)
    PROVE  /\ r \in Resource /\ verdict[child][r] \in Verdict
           /\ chain[child] # "batch" => verdict[child][r] # "torn"
<1>1. r \in Resource
  BY ElementOfSeq, LenProperties DEF TypeOK, Named
<1> QED
  BY <1>1 DEF TypeOK, Possible

\* What a fan-out or a nested chain is asked for.
LEMMA Given == Fan!Batch = Named(remaining) /\ Nested!Batch = Named(remaining)
BY DEF Fan!Batch, Nested!Batch, Remaining, Named

\* A child that answers all together says what it says of each.
LEMMA Answering ==
    ASSUME NEW D \in SUBSET Named(remaining), D = Named(remaining) \/ callerDone,
           \A r \in D : verdict[child][r] \in {"allow", "deny"},
           partial' = [r \in D |-> verdict[child][r] = "allow"], asking' = "ok",
           UNCHANGED <<verdict, resources, callerDone, child, remaining>>
    PROVE  Partial'
BY DEF Partial, Grants, Named

\* What a child has answered so far is its own word on the positions it was asked.
LEMMA StepPartial ==
    ASSUME TypeOK, Stages, Partial, [Next]_vars
    PROVE  Partial'
<1> USE DEF callVars, mapVars
<1>1. CASE asking' = "failed"
  BY <1>1 DEF Partial
<1>2. CASE Skip
  <2>1. /\ DOMAIN partial = {} /\ asking' = "collecting"
        /\ UNCHANGED <<resources, partial, remaining, asked>>
    BY <1>2 DEF Skip, childVars, Stages, Partial
  <2> QED
    BY <2>1, <1>2 DEF Partial, Skip
<1>3. CASE AnswerAll
  <2>1. \A r \in Named(remaining) : verdict[child][r] \in {"allow", "deny"}
    BY <1>3, Verdicts DEF AnswerAll, Working, Says, Verdict
  <2> QED
    BY <1>3, <2>1, Answering DEF AnswerAll, Allows, Says
<1>4. CASE FanOut /\ Fan!ReturnMap
  <2>1. PICK D \in SUBSET Fan!Batch :
           /\ D = Fan!Batch \/ callerDone
           /\ Fan!Answerable(D) /\ partial' = Fan!Answers(D)
    BY <1>4 DEF Fan!ReturnMap
  <2> QED
    BY <1>4, <2>1, Given, Answering DEF FanOut, Fan!ReturnMap, Fan!Answerable, Fan!Answers
<1>5. CASE AskBatch /\ Nested!ReturnMap
  <2>1. /\ asking' = "ok" /\ partial' \in [Named(remaining) -> BOOLEAN]
        /\ UNCHANGED <<verdict, resources, callerDone, child, remaining>>
        /\ \A r \in Named(remaining) : partial'[r] => Grants(child, r)
        /\ ~callerDone => \A r \in Named(remaining) :
              verdict[child][r] = IF partial'[r] THEN "allow" ELSE "deny"
    BY <1>5, Given DEF AskBatch, Nested!ReturnMap, Grants
  <2> QED
    BY <2>1 DEF Partial, Grants, Named
<1>6. CASE AskOne /\ asking' # "failed"
  <2>1. PICK i \in remaining :
           i > asked /\ (\A j \in remaining : j > asked => i <= j) /\ Ask(i)
    BY <1>6 DEF AskOne
  <2>2. /\ partial' = [r \in DOMAIN partial \cup {resources[i]} |->
                         IF r = resources[i] THEN Allows(r) ELSE partial[r]]
        /\ asked' = i /\ Says(resources[i]) # "fail" /\ asking' = "collecting"
        /\ UNCHANGED <<callVars, callerDone, child, mapVars>>
    BY <1>6, <2>1 DEF Ask, ChildFails, AskOne, Working
  <2>3. verdict[child][resources[i]] \in {"allow", "deny"}
    BY <1>6, <2>2, Verdicts DEF AskOne, Working, Named, Says, Verdict
  <2>4. DOMAIN partial = {resources[j] : j \in {k \in remaining : k <= asked}}
    BY <1>6 DEF AskOne, Working, Partial
  <2>5. {k \in remaining : k <= i} = {k \in remaining : k <= asked} \cup {i}
    BY <2>1, LenProperties DEF TypeOK
  <2>6. DOMAIN partial' = {resources[j] : j \in {k \in remaining : k <= i}}
    BY <2>2, <2>4, <2>5
  <2>7. \A r \in DOMAIN partial' : partial'[r] => Grants(child, r)
    BY <1>6, <2>2, <2>3 DEF AskOne, Working, Partial, Grants, Allows, Says
  <2>8. ~callerDone => \A r \in DOMAIN partial' :
           verdict[child][r] = IF partial'[r] THEN "allow" ELSE "deny"
    BY <1>6, <2>2, <2>3 DEF AskOne, Working, Partial, Allows, Says
  <2> QED
    BY <2>2, <2>6, <2>7, <2>8 DEF Partial, Grants
<1>7. CASE AllAsked
  <2>1. DOMAIN partial = Named(remaining)
    BY <1>7 DEF AllAsked, Working, Partial, Named
  <2> QED
    BY <1>7, <2>1 DEF AllAsked, Working, Partial, Grants, Named
<1>8. CASE Absorb
  <2>1. /\ DOMAIN partial' = {} /\ asked' = 0 /\ asking' = "collecting"
        /\ remaining' \subseteq 1..Len(resources)
    BY <1>8, LenProperties DEF Absorb, NoMap, TypeOK
  <2> QED
    BY <2>1, LenProperties DEF Partial, TypeOK
<1>9. CASE Return
  BY <1>9 DEF Return, childVars, Partial, Grants
<1>10. CASE CallerCancels
  BY <1>10 DEF CallerCancels, childVars, Partial, Grants, Named
<1>11. CASE UNCHANGED vars
  BY <1>11 DEF vars, childVars, Partial, Grants, Named
<1> QED
  BY <1>1, <1>2, <1>3, <1>4, <1>5, <1>6, <1>7, <1>8, <1>9, <1>10, <1>11
  DEF Next, FailAll, ChildFails, FanOut, Fan!ReturnError, AskBatch, Nested!ReturnError

\* Authorize is decided by the first child that does not deny.
LEMMA FirstDecides ==
    ASSUME TypeOK, NEW r, NEW c \in Children, verdict[c][r] # "deny", DeniedBefore(c, r)
    PROVE  Authorize(r) = IF verdict[c][r] = "allow" THEN "allow" ELSE "fail"
<1>1. Children \subseteq Nat /\ c \in Deciding(r)
  BY LenProperties DEF TypeOK, Children, Deciding
<1>2. \A d \in Deciding(r) : c <= d
  BY <1>1 DEF Deciding, DeniedBefore
<1>3. c = CHOOSE e \in Deciding(r) : \A d \in Deciding(r) : e <= d
  <2>1. \A e \in Deciding(r) : (\A d \in Deciding(r) : e <= d) => e = c
    BY <1>1, <1>2 DEF Deciding
  <2> QED
    BY <1>1, <1>2, <2>1
<1> QED
  BY <1>1, <1>3 DEF Authorize

\* A resource that every child denies is denied.
LEMMA NoneDecides ==
    ASSUME NEW r, \A d \in Children : verdict[d][r] = "deny"
    PROVE  Authorize(r) = "deny"
BY DEF Authorize, Deciding

\* The map grants what a child grants.
LEMMA StepGrants ==
    ASSUME TypeOK, Stages, Filtered, Partial, GrantsAreReal, [Next]_vars
    PROVE  GrantsAreReal'
<1> USE LoopSteps DEF TypeOK, GrantsAreReal, callVars, mapVars
<1>0. Children' = Children /\ (\A c, r : Grants(c, r)' = Grants(c, r))
  BY DEF Children, Grants
<1>1. CASE Skip
  BY <1>1 DEF Skip, Children, Grants
<1>2. CASE Absorb
  <2>1. /\ DOMAIN out' = DOMAIN out \cup {x \in Named(remaining) : ~Undecided(x)}
        /\ child \in Children
    BY <1>2 DEF Absorb, Stages
  <2>2. ASSUME NEW r \in DOMAIN out' PROVE \E c \in Children : Grants(c, r)
    <3>1. CASE r \in DOMAIN out
      <4>1. ~returned
        BY <1>2 DEF Absorb, Stages
      <4> QED
        BY <3>1, <4>1 DEF Filtered
    <3>2. CASE r \notin DOMAIN out
      BY <2>1, <2>2, <3>2, <1>2 DEF Absorb, Undecided, Partial
    <3> QED
      BY <3>1, <3>2
  <2> QED
    BY <1>0, <2>2
<1>3. CASE Return
  <2>1. \A r \in DOMAIN out' : out'[r] => r \in DOMAIN out /\ out[r]
    BY <1>3, LoopSteps DEF Return, Filtered
  <2> QED
    BY <1>0, <2>1
<1>4. CASE UNCHANGED <<child, mapVars, returned>>
  BY <1>4 DEF Children, Grants
<1> QED
  BY <1>1, <1>2, <1>3, <1>4

\* With every child asked, what is settled is what Authorize says.
LEMMA ReturnAgrees ==
    ASSUME TypeOK, Filtered, ~callerDone => \A r \in Batch : Settled(r), Return
    PROVE  AgreesWhileLive' /\ DOMAIN out' = Batch
<1>1. /\ ~returned /\ UNCHANGED <<callVars, callerDone>>
      /\ out' = [r \in DOMAIN out \cup Named(remaining) |-> r \notin Named(remaining)]
  BY DEF Return
<1>2. /\ DOMAIN out \cup Named(remaining) = Batch
      /\ \A r \in Batch : r \in Named(remaining) <=> r \notin DOMAIN out
  BY <1>1 DEF Filtered, AsksUndecidedOnly, Batch, Named
<1>3. \A c \in Children : c < child
  BY LenProperties DEF TypeOK, Return, Children
<1>4. ASSUME ~callerDone, NEW r \in Batch
      PROVE  Authorize(r) = IF r \in DOMAIN out THEN "allow" ELSE "deny"
  <2>1. CASE r \in DOMAIN out
    BY <1>4, <2>1, FirstDecides DEF Settled
  <2>2. CASE r \notin DOMAIN out
    BY <1>3, <1>4, <2>2, NoneDecides DEF Settled, DeniedBefore
  <2> QED
    BY <2>1, <2>2
<1>5. \A r : Authorize(r)' = Authorize(r)
  BY <1>1 DEF Authorize, Deciding, Children, callVars
<1> QED
  BY <1>1, <1>2, <1>4, <1>5 DEF AgreesWhileLive, Batch, Named, callVars

-----------------------------------------------------------------------------
\* The inductive invariant of the loop, for every chain and whatever the context does.
THEOREM Invariant == Spec => []IInv
<1>1. IInv /\ [Next]_vars => IInv'
  <2> SUFFICES ASSUME IInv, [Next]_vars PROVE IInv'
    OBVIOUS
  <2> USE DEF IInv
  <2>1. TypeOK' /\ Stages' /\ Filtered' /\ Partial' /\ GrantsAreReal'
    BY StepTypes, StepStages, StepFiltered, StepPartial, StepGrants
  <2>2. UNCHANGED callVars /\ Batch' = Batch
    BY LoopSteps DEF callVars, Batch, Named
  <2>3. ~returned' /\ ~callerDone' => (\A r \in Batch : Settled(r))'
    <3>1. ~returned' => ~returned
      BY DEF Next, Skip, AnswerAll, FailAll, ChildFails, FanOut, AskBatch, AskOne, Ask,
             AllAsked, Absorb,
             Return, CallerCancels, vars
    <3> QED
      BY <2>2, <3>1, StepSettled
  <2>4. AgreesWhileLive' /\ (returned' => DOMAIN out' = Batch')
    <3>1. CASE Return
      BY <2>2, <3>1, ReturnAgrees DEF Return
    <3>2. CASE ~Return /\ returned'
      <4>1. returned
        BY <3>2, LoopSteps DEF Skip, Absorb
      <4>2. UNCHANGED <<out, callVars>> /\ (callerDone => callerDone')
        BY <4>1, LoopSteps DEF Skip, Absorb, Return, Stages, mapVars
      <4>3. \A r : Authorize(r)' = Authorize(r)
        BY <4>2 DEF Authorize, Deciding, Children, callVars
      <4> QED
        BY <2>2, <4>1, <4>2, <4>3 DEF AgreesWhileLive
    <3> QED
      BY <3>1, <3>2 DEF AgreesWhileLive
  <2> QED
    BY <2>1, <2>3, <2>4
<1> QED
  BY <1>1, InitInv, PTL DEF Spec

\* While the context is live the batch is Authorize, resource by resource
\* (AnyAuthorizer.AuthorizeBatch).
THEOREM Agreement == Spec => []AgreesWhileLive
<1>1. IInv => AgreesWhileLive
  BY DEF IInv
<1> QED
  BY <1>1, Invariant, PTL

\* The batch grants nothing that no child grants, a done context included.
THEOREM NothingInvented == Spec => []GrantsAreReal
<1>1. IInv => GrantsAreReal
  BY DEF IInv
<1> QED
  BY <1>1, Invariant, PTL

\* Each child is asked for just what is left open (the filter of remaining).
THEOREM OpenOnly == Spec => []AsksUndecidedOnly
<1>1. IInv => AsksUndecidedOnly
  BY DEF IInv, Filtered, AsksUndecidedOnly
<1> QED
  BY <1>1, Invariant, PTL

-----------------------------------------------------------------------------
\* An error of the child at work is one of Authorize, too, unless the context is done:
\* the children before it deny the resource.
LEMMA ErrorIsReal ==
    ASSUME IInv, ~returned, ~callerDone, child \in Children, NEW r \in Named(remaining),
           verdict[child][r] \in {"fail", "torn"}
    PROVE  r \in Batch /\ Told(r) \in {"fail", "torn"}
<1>1. r \in Batch /\ r \notin DOMAIN out
  BY DEF IInv, Filtered, AsksUndecidedOnly, Batch, Named
<1>2. DeniedBefore(child, r)
  BY <1>1 DEF IInv, Settled
<1>3. Authorize(r) = "fail"
  BY <1>2, FirstDecides DEF IInv
<1> QED
  BY <1>1, <1>3 DEF Told

\* A map under a done context may deny too much, but grants what Told lets it.
LEMMA GrantIsTold ==
    ASSUME NEW r, NEW c \in Children, Grants(c, r)
    PROVE  Told(r) \in {"allow", "torn"}
<1>1. Authorize(r) \in {"allow", "fail"}
  BY DEF Authorize, Deciding, Grants
<1> QED
  BY <1>1 DEF Told

\* A child's error is the batch's.
Failing ==
    /\ asking = "collecting" /\ asking' = "failed" /\ child \in Children
    /\ UNCHANGED <<callVars, callerDone, mapVars, returned>>
    /\ \/ /\ failure' = "engine"
          /\ \E r \in Named(remaining) : verdict[child][r] \in {"fail", "torn"}
       \/ failure' \in {"engine", "ctx"} /\ callerDone

\* Every other step of the loop is hidden from the caller.
LEMMA Steps ==
    ASSUME IInv, Next
    PROVE  \/ Failing \/ Return \/ CallerCancels
           \/ /\ asking # "failed" /\ asking' # "failed" /\ ~returned /\ ~returned'
              /\ UNCHANGED <<callVars, callerDone, failure>>
<1> USE DEF IInv, Stages, Working, ChildFails, Says, Children
<1>1. CASE Skip
  BY <1>1 DEF Skip, childVars
<1>2. CASE AnswerAll
  BY <1>2 DEF AnswerAll
<1>3. CASE FailAll
  BY <1>3 DEF FailAll, Failing
<1>4. CASE FanOut
  BY <1>4, Given DEF FanOut, Failing, Fan!ReturnMap, Fan!ReturnError
<1>5. CASE AskBatch
  BY <1>5, Given DEF AskBatch, Failing, Nested!ReturnMap, Nested!ReturnError
<1>6. CASE AskOne
  BY <1>6 DEF AskOne, Ask, Failing, Named
<1>7. CASE AllAsked
  BY <1>7 DEF AllAsked
<1>8. CASE Absorb
  BY <1>8 DEF Absorb
<1> QED
  BY <1>1, <1>2, <1>3, <1>4, <1>5, <1>6, <1>7, <1>8 DEF Next

\* Every step of the loop is a step of OrCheck, or its caller does not see it.
LEMMA StepImplements == IInv /\ [Next]_vars => [Or!Next]_Or!vars
<1> SUFFICES ASSUME IInv, [Next]_vars PROVE [Or!Next]_Or!vars
  OBVIOUS
<1> DEFINE says == [r \in Batch |-> Told(r)]
           map == IF returned THEN out ELSE NoMap
<1>1. UNCHANGED callVars /\ UNCHANGED says /\ Batch' = Batch /\ Or!Batch = Batch
  <2>1. UNCHANGED callVars
    BY LoopSteps
  <2>2. \A r : Authorize(r)' = Authorize(r) /\ \A c : Grants(c, r)' = Grants(c, r)
    BY <2>1 DEF Authorize, Deciding, Children, Grants, callVars
  <2>3. \A r : Told(r)' = Told(r)
    BY <2>1, <2>2 DEF Told, Children, callVars
  <2> QED
    BY <2>1, <2>3 DEF Batch, Named, Or!Batch, callVars
<1>2. CASE UNCHANGED vars
  BY <1>1, <1>2 DEF vars, callVars, childVars, mapVars, Or!vars, Status, NoMap
<1>3. CASE CallerCancels
  BY <1>1, <1>3
  DEF CallerCancels, callVars, childVars, mapVars, Or!Next, Or!Cancel, Status, NoMap, IInv,
      TypeOK
<1>4. CASE Failing
  <2>1. ~returned
    BY <1>4 DEF Failing, IInv, Stages, Children
  <2>2. \/ failure' = "engine" /\ \E r \in Batch : Told(r) \in {"fail", "torn"}
        \/ failure' \in {"engine", "ctx"} /\ callerDone
    BY <1>4, <2>1, ErrorIsReal DEF Failing, IInv, TypeOK
  <2>3. Or!ReturnError
    BY <1>1, <1>4, <2>1, <2>2 DEF Failing, callVars, mapVars, Or!ReturnError, Status, NoMap
  <2> QED
    BY <2>3 DEF Or!Next
<1>5. CASE Return
  <2>1. map' = out' /\ DOMAIN out' = Batch /\ out' \in [Batch -> BOOLEAN]
    BY <1>1, <1>5, ReturnAgrees DEF Return, IInv
  <2>2. \A r \in Batch : out'[r] => Told(r) \in {"allow", "torn"}
    <3>1. \A r \in Batch : out'[r] => \E c \in Children : Grants(c, r)
      <4>1. ~returned /\ \A r \in DOMAIN out' : out'[r] => r \in DOMAIN out
        BY <1>5 DEF Return
      <4> QED
        BY <2>1, <4>1 DEF IInv, Filtered, GrantsAreReal
    <3> QED
      BY <3>1, GrantIsTold
  <2>3. ~callerDone => \A r \in Batch : Told(r) = IF out'[r] THEN "allow" ELSE "deny"
    <3>1. \A r : Authorize(r)' = Authorize(r)
      BY <1>1 DEF Authorize, Deciding, Children, callVars
    <3>2. AgreesWhileLive' /\ returned' /\ callerDone' = callerDone
      BY <1>5, ReturnAgrees DEF Return, IInv
    <3>3. ~callerDone => \A r \in Batch : Authorize(r) = IF out'[r] THEN "allow" ELSE "deny"
      BY <2>1, <3>1, <3>2 DEF AgreesWhileLive
    <3> QED
      BY <3>3 DEF Told
  <2>4. Or!ReturnMap
    BY <1>1, <1>5, <2>1, <2>2, <2>3 DEF Return, callVars, childVars, Or!ReturnMap, Status
  <2> QED
    BY <2>4 DEF Or!Next
<1>6. CASE /\ asking # "failed" /\ asking' # "failed" /\ ~returned /\ ~returned'
           /\ UNCHANGED <<callVars, callerDone, failure>>
  BY <1>1, <1>6 DEF callVars, Or!vars, Status, NoMap
<1> QED
  BY <1>2, <1>3, <1>4, <1>5, <1>6, Steps

\* AuthorizeBatch keeps the promise it relies on in a nested AnyAuthorizer: chains may
\* be nested to any depth.
THEOREM Refinement == Spec => ImplementsOrCheck
<1>1. Init => Or!Init
  BY DEF Init, Or!Init, Status, NoMap
<1> QED
  BY <1>1, StepImplements, Invariant, PTL DEF Spec, ImplementsOrCheck, Or!Spec
=============================================================================
