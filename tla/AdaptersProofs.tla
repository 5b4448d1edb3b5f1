---------------------------- MODULE AdaptersProofs ----------------------------
(***************************************************************************)
(* Proofs about Adapters: for any requests, allowlists, claims and error   *)
(* handlers, every front end takes the same decision and tells the client  *)
(* what it should.                                                         *)
(***************************************************************************)
EXTENDS Adapters, SequenceTheorems, WellFoundedInduction, TLAPS

TypeOK ==
    /\ front \in FrontEnds
    /\ allowed \in Allowlists
    /\ origin \in Origins
    /\ faults \in Faults
    /\ identity \in Claims
    /\ handler \in Handlers
    /\ pc \in {"start", "asked", "rejecting", "returned", "done"}
    /\ recorded \in Seq(Header)

\* What Authenticate returns, which no step changes afterwards.
Verdict ==
    IF Failing = {} THEN <<"claims", identity>> ELSE <<"error", Checks[Min(Failing)]>>

Judged ==
    /\ pc = "start" => reports = <<>>
    /\ pc # "start" => result = Verdict
    /\ pc # "start" => reports = IF front = "gateway" THEN <<>> ELSE <<Verdict>>

\* The two ways a handshake goes, and the fields each leaves alone.
Course ==
    /\ pc # "done" => context = {}
    /\ pc \in {"start", "asked"} => response = NoResponse /\ recorded = <<>>
    /\ pc \in {"rejecting", "returned"} => Failing # {}
    /\ pc = "rejecting" => front \in {"gin", "fiber"}
    /\ pc = "returned" => front = "gin" /\ aborted
    /\ pc = "done" =>
          /\ recorded = <<>>
          /\ IF Failing = {} THEN context = {identity} /\ response = NoResponse
                             ELSE context = {}

\* What the front end owes a rejected client.
Rejection ==
    IF front = "gateway" THEN UnauthorizedResponse(Verdict[2]) ELSE Written(Verdict[2])

\* Of the first k lines those that no later one of them replaces.
LastLines(lines, k) ==
    {lines[i] : i \in {n \in 1..k : \A j \in n + 1..k : lines[j][1] # lines[n][1]}}

\* How many lines the recorder has given away.
Copied == Len(Rejection.headers) - Len(recorded)

\* A response is the rejection as far as it has been copied, body last.
Answered ==
    pc \in {"rejecting", "returned"} \/ (pc = "done" /\ Failing # {}) =>
        /\ response = [status |-> Rejection.status, body |-> response.body,
                       headers |-> response.headers]
        /\ front # "fiber" \/ pc = "done" => response.body = Rejection.body
        /\ front # "fiber" =>
              recorded = <<>> /\ response.headers = ToSet(Rejection.headers)
        /\ front = "fiber" =>
              /\ Copied \in Nat
              /\ \A i \in 1..Len(recorded) : recorded[i] = Rejection.headers[Copied + i]
              /\ response.headers = LastLines(Rejection.headers, Copied)

IInv == TypeOK /\ Judged /\ Course /\ Answered
-----------------------------------------------------------------------------
\* A set of natural numbers that is not empty has a least member.
LEMMA Least ==
    ASSUME NEW S \in SUBSET Nat, S # {}
    PROVE  Min(S) \in S /\ \A n \in S : Min(S) <= n
<1>1. PICK m \in S : \A n \in S : <<n, m>> \notin OpToRel(<, Nat)
  BY WFMin, NatLessThanWellFounded, Zenon
<1>2. \A n \in S : ~(n < m)
  BY <1>1, Zenon DEF OpToRel
<1>3. \A n \in S : m <= n
  BY <1>2
<1> QED
  BY <1>3 DEF Min

Kind == {"origin", "missing", "malformed", "invalid", "store", "revoked"}

\* The verdict on a faulty request names its first fault.
LEMMA FirstFault ==
    ASSUME Failing # {}
    PROVE  /\ Verdict = <<"error", Verdict[2]>>
           /\ Verdict[2] \in Kind
           /\ front = "gateway" => Verdict[2] \in {"missing", "invalid"}
<1>1. Failing \subseteq DOMAIN Checks /\ DOMAIN Checks \subseteq Nat
  BY DEF Failing, Checks
<1>2. Min(Failing) \in DOMAIN Checks
  BY <1>1, Least
<1>3. /\ Checks[Min(Failing)] \in Kind
      /\ front = "gateway" => Checks[Min(Failing)] \in {"missing", "invalid"}
  <2>1. CASE front = "gateway"
    <3>1. Checks = <<"missing", "invalid">>
      BY <2>1 DEF Checks
    <3>2. Min(Failing) \in {1, 2}
      BY <1>2, <3>1
    <3> QED
      BY <3>1, <3>2 DEF Kind
  <2>2. CASE front # "gateway"
    <3>1. Checks = <<"origin", "missing", "malformed", "invalid", "store", "revoked">>
      BY <2>2 DEF Checks
    <3>2. Min(Failing) \in {1, 2, 3, 4, 5, 6}
      BY <1>2, <3>1
    <3> QED
      BY <2>2, <3>1, <3>2 DEF Kind
  <2> QED
    BY <2>1, <2>2
<1> QED
  BY <1>3 DEF Verdict

\* Every rejection says something, in header lines.
LEMMA RejectionType ==
    ASSUME TypeOK, Failing # {}
    PROVE  /\ Rejection = [status |-> Rejection.status, headers |-> Rejection.headers,
                           body |-> Rejection.body]
           /\ Rejection.headers \in Seq(Header)
           /\ Rejection.body # "none"
<1>1. handler.headers \in Seq(Header)
  BY AdaptersAssumption DEF TypeOK
<1>2. Verdict[2] \in Kind
  BY FirstFault
<1>3. <<>> \in Seq(Header)
  BY EmptySeq
<1> QED
  BY <1>1, <1>2, <1>3
  DEF Rejection, UnauthorizedResponse, Written, DefaultErrorHandler, Unauthorized, Kind

\* Nothing that a handshake is judged by changes on its way.
LEMMA Same ==
    ASSUME UNCHANGED callVars
    PROVE  /\ Failing' = Failing
           /\ Verdict' = Verdict
           /\ Rejection' = Rejection
           /\ UNCHANGED <<front, allowed, origin, faults, identity, handler>>
<1>1. UNCHANGED <<front, allowed, origin, faults, identity, handler>>
  BY DEF callVars
<1>2. Checks' = Checks
  BY <1>1 DEF Checks
<1>3. ValidateOrigin' = ValidateOrigin
  BY <1>1 DEF ValidateOrigin
<1>4. \A check : Fails(check)' = Fails(check)
  BY <1>1, <1>3 DEF Fails
<1>5. Failing' = Failing
  BY <1>2, <1>4 DEF Failing
<1>6. Verdict' = Verdict
  BY <1>1, <1>2, <1>5 DEF Verdict
<1>7. Rejection' = Rejection
  BY <1>1, <1>6 DEF Rejection, Written
<1> QED
  BY <1>1, <1>5, <1>6, <1>7

\* Copying one more line replaces the lines of its key.
LEMMA LineReplaced ==
    ASSUME NEW lines \in Seq(Header), NEW k \in Nat, k < Len(lines)
    PROVE  LastLines(lines, k + 1)
             = {line \in LastLines(lines, k) : line[1] # lines[k + 1][1]} \cup {lines[k + 1]}
<1> DEFINE Kept(n) == \A j \in n + 1..k : lines[j][1] # lines[n][1]
           KeptNext(n) == \A j \in n + 1..k + 1 : lines[j][1] # lines[n][1]
<1>1. \A n \in 1..k : KeptNext(n) <=> Kept(n) /\ lines[n][1] # lines[k + 1][1]
  <2> TAKE n \in 1..k
  <2>1. n + 1..k + 1 = (n + 1..k) \cup {k + 1}
    OBVIOUS
  <2> QED
    BY <2>1, Zenon
<1>2. KeptNext(k + 1)
  OBVIOUS
<1>3. 1..k + 1 = (1..k) \cup {k + 1}
  OBVIOUS
<1>4. LastLines(lines, k) = {lines[i] : i \in {n \in 1..k : Kept(n)}}
  BY Zenon DEF LastLines
<1>5. LastLines(lines, k + 1) = {lines[i] : i \in {n \in 1..k + 1 : KeptNext(n)}}
  BY Zenon DEF LastLines
<1> HIDE DEF Kept, KeptNext
<1> QED
  BY <1>1, <1>2, <1>3, <1>4, <1>5
-----------------------------------------------------------------------------
\* Nothing is judged or written at the start.
LEMMA InitInv == Init => IInv
<1> SUFFICES ASSUME Init PROVE IInv
  OBVIOUS
<1>1. TypeOK
  BY EmptySeq DEF Init, TypeOK
<1>2. Judged /\ Course /\ Answered
  BY DEF Init, Judged, Course, Answered
<1> QED
  BY <1>1, <1>2 DEF IInv

\* Authenticate leaves the verdict, and tells the hook of it.
LEMMA AuthenticateInv == IInv /\ Authenticate => IInv'
<1> SUFFICES ASSUME IInv, Authenticate PROVE IInv'
  OBVIOUS
<1> USE DEF IInv
<1>1. UNCHANGED callVars
  BY DEF Authenticate
<1>2. /\ pc = "start" /\ pc' = "asked"
      /\ result' = Verdict
      /\ reports' = IF front = "gateway" THEN reports ELSE Append(reports, result')
      /\ UNCHANGED <<recorded, response, context>>
  BY DEF Authenticate, Verdict
<1>3. TypeOK'
  BY <1>1, <1>2, Same DEF TypeOK
<1>4. Judged'
  <2>1. reports = <<>>
    BY <1>2 DEF Judged
  <2>2. reports' = IF front = "gateway" THEN <<>> ELSE <<Verdict>>
    BY <1>2, <2>1
  <2> QED
    BY <1>1, <1>2, <2>2, Same DEF Judged
<1>5. Course'
  BY <1>2 DEF Course
<1>6. Answered'
  BY <1>2 DEF Answered
<1> QED
  BY <1>3, <1>4, <1>5, <1>6

\* A rejection written in one go is the whole response.
LEMMA WrittenAtOnce ==
    ASSUME IInv, Failing # {}, front # "fiber", recorded = <<>>,
           UNCHANGED callVars, UNCHANGED recorded, response' = Sent(Rejection)
    PROVE  Answered'
<1>1. response' = [status |-> Rejection.status, body |-> Rejection.body,
                   headers |-> ToSet(Rejection.headers)]
  BY RejectionType DEF Sent, IInv
<1> QED
  BY <1>1, Same DEF Answered

\* net/http and echo: the error handler writes the rejection.
LEMMA HandleErrorInv == IInv /\ HandleError => IInv'
<1> SUFFICES ASSUME IInv, HandleError PROVE IInv'
  OBVIOUS
<1> USE DEF IInv
<1>1. UNCHANGED callVars
  BY DEF HandleError
<1>2. /\ pc = "asked" /\ pc' = "done"
      /\ result = Verdict /\ result[1] = "error" /\ front \in {"http", "echo"}
      /\ response' = Sent(Rejection)
      /\ UNCHANGED <<aborted, result, reports, recorded, context>>
  BY DEF HandleError, Rejecting, Judged, Rejection
<1>3. Failing # {}
  BY <1>2 DEF Verdict
<1>4. TypeOK'
  BY <1>1, <1>2, Same DEF TypeOK
<1>5. Judged'
  BY <1>1, <1>2, Same DEF Judged
<1>6. Course'
  BY <1>1, <1>2, <1>3, Same DEF Course
<1>7. Answered'
  BY <1>1, <1>2, <1>3, WrittenAtOnce DEF Course
<1> QED
  BY <1>4, <1>5, <1>6, <1>7

\* The gateway's connect handler returns the rejection.
LEMMA RespondInv == IInv /\ Respond => IInv'
<1> SUFFICES ASSUME IInv, Respond PROVE IInv'
  OBVIOUS
<1> USE DEF IInv
<1>1. UNCHANGED callVars
  BY DEF Respond
<1>2. /\ pc = "asked" /\ pc' = "done"
      /\ result = Verdict /\ result[1] = "error" /\ front = "gateway"
      /\ response' = Sent(Rejection)
      /\ UNCHANGED <<aborted, result, reports, recorded, context>>
  BY DEF Respond, Rejecting, Judged, Rejection
<1>3. Failing # {}
  BY <1>2 DEF Verdict
<1>4. TypeOK'
  BY <1>1, <1>2, Same DEF TypeOK
<1>5. Judged'
  BY <1>1, <1>2, Same DEF Judged
<1>6. Course'
  BY <1>1, <1>2, <1>3, Same DEF Course
<1>7. Answered'
  BY <1>1, <1>2, <1>3, WrittenAtOnce DEF Course
<1> QED
  BY <1>4, <1>5, <1>6, <1>7

\* gin: the error handler writes the rejection, and nothing else has happened.
LEMMA HandleErrorOfGinInv == IInv /\ HandleErrorOfGin => IInv'
<1> SUFFICES ASSUME IInv, HandleErrorOfGin PROVE IInv'
  OBVIOUS
<1> USE DEF IInv
<1>1. UNCHANGED callVars
  BY DEF HandleErrorOfGin
<1>2. /\ pc = "asked" /\ pc' = "rejecting"
      /\ result = Verdict /\ result[1] = "error" /\ front = "gin"
      /\ response' = Sent(Rejection)
      /\ UNCHANGED <<aborted, result, reports, recorded, context>>
  BY DEF HandleErrorOfGin, Rejecting, Judged, Rejection
<1>3. Failing # {}
  BY <1>2 DEF Verdict
<1>4. TypeOK'
  BY <1>1, <1>2, Same DEF TypeOK
<1>5. Judged'
  BY <1>1, <1>2, Same DEF Judged
<1>6. Course'
  BY <1>1, <1>2, <1>3, Same DEF Course
<1>7. Answered'
  BY <1>1, <1>2, <1>3, WrittenAtOnce DEF Course
<1> QED
  BY <1>4, <1>5, <1>6, <1>7

\* gin returns to its engine only after an abort.
LEMMA AbortInv == IInv /\ Abort => IInv'
<1> SUFFICES ASSUME IInv, Abort PROVE IInv'
  OBVIOUS
<1> USE DEF IInv
<1>1. UNCHANGED callVars
  BY DEF Abort
<1>2. /\ front = "gin" /\ pc = "rejecting" /\ pc' = "returned" /\ aborted'
      /\ UNCHANGED <<result, reports, recorded, response, context>>
  BY DEF Abort
<1>3. TypeOK'
  BY <1>1, <1>2, Same DEF TypeOK
<1>4. Judged'
  BY <1>1, <1>2, Same DEF Judged
<1>5. Course'
  BY <1>1, <1>2, Same DEF Course
<1>6. Answered'
  BY <1>1, <1>2, Same DEF Answered, Copied
<1> QED
  BY <1>3, <1>4, <1>5, <1>6

\* After an abort gin's engine calls no further handler.
LEMMA EngineGoesOnInv == IInv /\ EngineGoesOn => IInv'
<1> SUFFICES ASSUME IInv, EngineGoesOn PROVE IInv'
  OBVIOUS
<1> USE DEF IInv
<1>1. UNCHANGED callVars
  BY DEF EngineGoesOn
<1>2. /\ pc = "returned" /\ pc' = "done" /\ aborted /\ front = "gin" /\ Failing # {}
      /\ context' = {} /\ UNCHANGED <<result, reports, recorded, response>>
  BY DEF EngineGoesOn, Course
<1>3. TypeOK'
  BY <1>1, <1>2, Same DEF TypeOK
<1>4. Judged'
  BY <1>1, <1>2, Same DEF Judged
<1>5. Answered'
  BY <1>1, <1>2, Same DEF Answered, Copied
<1>6. recorded = <<>>
  BY <1>2 DEF Answered
<1>7. Course'
  BY <1>1, <1>2, <1>6, Same DEF Course
<1> QED
  BY <1>3, <1>4, <1>5, <1>7

\* The recorder holds the rejection's lines, of which none is copied yet.
LEMMA RecordInv == IInv /\ Record => IInv'
<1> SUFFICES ASSUME IInv, Record PROVE IInv'
  OBVIOUS
<1> USE DEF IInv
<1>1. UNCHANGED callVars
  BY DEF Record
<1>2. /\ pc = "asked" /\ pc' = "rejecting"
      /\ result = Verdict /\ result[1] = "error" /\ front = "fiber"
      /\ recorded' = Rejection.headers
      /\ response' = [NoResponse EXCEPT !.status = Rejection.status]
      /\ UNCHANGED <<result, reports, context>>
  BY DEF Record, Rejecting, Judged, Rejection
<1>3. Failing # {}
  BY <1>2 DEF Verdict
<1>4. Rejection.headers \in Seq(Header)
  BY <1>3, RejectionType
<1>5. TypeOK'
  BY <1>1, <1>2, <1>4, Same DEF TypeOK
<1>6. Judged'
  BY <1>1, <1>2, Same DEF Judged
<1>7. Course'
  BY <1>1, <1>2, <1>3, Same DEF Course
<1>8. Answered'
  <2>1. response' = [status |-> Rejection.status, body |-> "none", headers |-> {}]
    BY <1>2 DEF NoResponse
  <2>2. Copied' = 0
    BY <1>1, <1>2, <1>4, Same, LenProperties DEF Copied
  <2>3. response'.headers = LastLines(Rejection.headers, 0)
    BY <2>1 DEF LastLines
  <2>4. \A i \in 1..Len(recorded') : recorded'[i] = Rejection.headers[0 + i]
    BY <1>2, <1>4
  <2>5. response' = [status |-> Rejection.status, body |-> response'.body,
                     headers |-> response'.headers]
    BY <2>1
  <2> QED
    BY <1>1, <1>2, <2>2, <2>3, <2>4, <2>5, Same DEF Answered
<1> QED
  BY <1>5, <1>6, <1>7, <1>8

\* One line moves from the recorder to the response.
LEMMA CopyHeaderInv == IInv /\ CopyHeader => IInv'
<1> SUFFICES ASSUME IInv, CopyHeader PROVE IInv'
  OBVIOUS
<1> USE DEF IInv
<1>1. UNCHANGED callVars
  BY DEF CopyHeader
<1>2. /\ pc = "rejecting" /\ recorded # <<>>
      /\ response' = [response EXCEPT !.headers =
            {line \in @ : line[1] # Head(recorded)[1]} \cup {Head(recorded)}]
      /\ recorded' = Tail(recorded)
      /\ UNCHANGED <<pc, result, reports, context>>
  BY DEF CopyHeader
<1>3. Failing # {} /\ front = "fiber"
  BY <1>2 DEF Course, Answered
<1>4. /\ recorded \in Seq(Header) /\ Len(recorded) \in Nat /\ Len(recorded) > 0
      /\ Head(recorded) = recorded[1]
      /\ Tail(recorded) \in Seq(Header) /\ Len(Tail(recorded)) = Len(recorded) - 1
      /\ \A i \in 1..Len(recorded) - 1 : Tail(recorded)[i] = recorded[i + 1]
  BY <1>2, EmptySeq, LenProperties, HeadTailProperties DEF TypeOK
<1>5. TypeOK'
  BY <1>1, <1>2, <1>4, Same DEF TypeOK
<1>6. Judged'
  BY <1>1, <1>2, Same DEF Judged
<1>7. Course'
  BY <1>1, <1>2, <1>3, Same DEF Course
<1>8. Answered'
  <2> DEFINE lines == Rejection.headers
             k == Copied
  <2>1. lines \in Seq(Header) /\ Len(lines) \in Nat
    BY <1>3, RejectionType, LenProperties
  <2>2. /\ response = [status |-> Rejection.status, body |-> response.body,
                       headers |-> response.headers]
        /\ k \in Nat
        /\ \A i \in 1..Len(recorded) : recorded[i] = lines[k + i]
        /\ response.headers = LastLines(lines, k)
    BY <1>2, <1>3 DEF Answered
  <2>3. k = Len(lines) - Len(recorded)
    BY DEF Copied
  <2>4. k < Len(lines) /\ Head(recorded) = lines[k + 1]
    BY <1>4, <2>1, <2>2, <2>3
  <2>5. Copied' = k + 1
    BY <1>1, <1>2, <1>4, <2>1, <2>3, Same DEF Copied
  <2>6. \A i \in 1..Len(recorded') : recorded'[i] = lines[k + 1 + i]
    <3> TAKE i \in 1..Len(recorded')
    <3>1. i + 1 \in 1..Len(recorded) /\ recorded'[i] = recorded[i + 1]
      BY <1>2, <1>4
    <3>2. recorded[i + 1] = lines[k + (i + 1)]
      BY <2>2, <3>1
    <3>3. k + (i + 1) = k + 1 + i
      BY <2>2, <1>2, <1>4
    <3> QED
      BY <3>1, <3>2, <3>3
  <2>7. /\ response' = [status |-> Rejection.status, body |-> response'.body,
                        headers |-> response'.headers]
        /\ response'.headers = LastLines(lines, k + 1)
    <3> DEFINE now == {line \in response.headers : line[1] # Head(recorded)[1]}
                         \cup {Head(recorded)}
    <3>1. now = LastLines(lines, k + 1)
      BY <2>1, <2>2, <2>4, LineReplaced
    <3>2. response' = [response EXCEPT !.headers = now]
      BY <1>2
    <3> HIDE DEF now
    <3>3. response' = [status |-> Rejection.status, body |-> response.body, headers |-> now]
      BY <2>2, <3>2
    <3> QED
      BY <3>1, <3>3
  <2> HIDE DEF lines, k
  <2>8. k + 1 \in Nat
    BY <2>2
  <2> QED
    BY <1>1, <1>2, <1>3, <2>5, <2>6, <2>7, <2>8, Same DEF Answered, lines
<1> QED
  BY <1>5, <1>6, <1>7, <1>8

\* The recorded body completes the rejection, with nothing left to copy.
LEMMA SendStringInv == IInv /\ SendString => IInv'
<1> SUFFICES ASSUME IInv, SendString PROVE IInv'
  OBVIOUS
<1> USE DEF IInv
<1>1. UNCHANGED callVars
  BY DEF SendString
<1>2. /\ front = "fiber" /\ pc = "rejecting" /\ recorded = <<>> /\ pc' = "done"
      /\ response' = [response EXCEPT !.body = Rejection.body]
      /\ UNCHANGED <<result, reports, recorded, context>>
  BY DEF SendString, Judged, Rejection
<1>3. TypeOK'
  BY <1>1, <1>2, Same DEF TypeOK
<1>4. Judged'
  BY <1>1, <1>2, Same DEF Judged
<1>5. Course'
  BY <1>1, <1>2, Same DEF Course
<1>6. Answered'
  <2>1. /\ response = [status |-> Rejection.status, body |-> response.body,
                       headers |-> response.headers]
        /\ Copied \in Nat
        /\ response.headers = LastLines(Rejection.headers, Copied)
    BY <1>2 DEF Answered
  <2>2. response' = [status |-> Rejection.status, body |-> Rejection.body,
                     headers |-> response.headers]
    BY <1>2, <2>1
  <2>3. Copied' = Copied
    BY <1>1, <1>2, Same DEF Copied
  <2>4. 1..Len(recorded') = {}
    BY <1>2
  <2> QED
    BY <1>1, <1>2, <2>1, <2>2, <2>3, <2>4, Same DEF Answered
<1> QED
  BY <1>3, <1>4, <1>5, <1>6

\* The next handler runs for a request that nothing is wrong with.
LEMMA RunNextInv == IInv /\ RunNext => IInv'
<1> SUFFICES ASSUME IInv, RunNext PROVE IInv'
  OBVIOUS
<1> USE DEF IInv
<1>1. UNCHANGED callVars
  BY DEF RunNext
<1>2. /\ pc = "asked" /\ result[1] = "claims" /\ result = Verdict
      /\ context' = {result[2]} /\ pc' = "done"
      /\ UNCHANGED <<result, reports, recorded, response>>
  BY DEF RunNext, TypeOK, Judged
<1>3. Failing = {} /\ Verdict = <<"claims", identity>>
  BY <1>2, FirstFault DEF Verdict
<1>4. TypeOK'
  BY <1>1, <1>2, Same DEF TypeOK
<1>5. Judged'
  BY <1>1, <1>2, Same DEF Judged
<1>6. Course'
  BY <1>1, <1>2, <1>3, Same DEF Course
<1>7. Answered'
  BY <1>1, <1>2, <1>3, Same DEF Answered
<1> QED
  BY <1>4, <1>5, <1>6, <1>7

\* In every reachable state: the verdict is the first fault, and the response
\* the rejection of it as far as its lines have been copied.
THEOREM Invariant == Spec => []IInv
<1>1. IInv /\ UNCHANGED vars => IInv'
  <2> SUFFICES ASSUME IInv, UNCHANGED vars PROVE IInv'
    OBVIOUS
  <2>1. UNCHANGED callVars /\ UNCHANGED <<pc, aborted, result, reports, recorded, response, context>>
    BY DEF vars
  <2>2. TypeOK' /\ Judged' /\ Course'
    BY <2>1, Same DEF IInv, TypeOK, Judged, Course
  <2>3. Answered'
    BY <2>1, Same DEF IInv, Answered, Copied
  <2> QED
    BY <2>2, <2>3 DEF IInv
<1>2. IInv /\ [Next]_vars => IInv'
  BY <1>1, AuthenticateInv, RunNextInv, HandleErrorInv, RespondInv, HandleErrorOfGinInv,
     AbortInv, EngineGoesOnInv, RecordInv, CopyHeaderInv, SendStringInv
  DEF Next
<1> QED
  BY InitInv, <1>2, PTL DEF Spec
-----------------------------------------------------------------------------
\* At the end of a handshake the next handler has run, or nobody has answered
\* but the rejection.
LEMMA Ended ==
    ASSUME IInv, pc = "done"
    PROVE  /\ result = Verdict
           /\ front # "gateway" => reports = <<Verdict>>
           /\ Failing = {} => /\ Verdict = <<"claims", identity>>
                              /\ context = {identity} /\ response = NoResponse
           /\ Failing # {} => /\ Verdict[1] = "error" /\ context = {}
                              /\ response.status = Rejection.status
                              /\ response.body = Rejection.body
                              /\ Rejection.body # "none"
<1>1. CASE Failing = {}
  BY <1>1 DEF IInv, Judged, Course, Verdict
<1>2. CASE Failing # {}
  <2>1. Verdict[1] = "error" /\ Rejection.body # "none"
    BY <1>2, FirstFault, RejectionType DEF IInv
  <2>2. response.status = Rejection.status /\ response.body = Rejection.body
    BY <1>2 DEF IInv, Answered
  <2> QED
    BY <1>2, <2>1, <2>2 DEF IInv, Judged, Course
<1> QED
  BY <1>1, <1>2

\* middleware.go:11-22 and the adapters: whatever the request, its front end and
\* its error handler, either the next handler runs with the token's claims or
\* the client is answered, and OnAuthResult is told which, once.
THEOREM Decision == Spec => []SameDecision
<1>1. IInv => SameDecision
  <2> SUFFICES ASSUME IInv, pc = "done"
               PROVE  /\ IF context # {} THEN context = {identity} /\ response = NoResponse
                                         ELSE result[1] = "error" /\ response # NoResponse
                      /\ front # "gateway" =>
                            Len(reports) = 1 /\ (reports[1][1] = "claims" <=> context # {})
    BY DEF SameDecision
  <2>1. response.body # "none" => response # NoResponse
    BY DEF NoResponse
  <2>2. front # "gateway" => Len(reports) = 1 /\ reports[1] = Verdict
    BY Ended
  <2> QED
    BY <2>1, <2>2, Ended
<1> QED
  BY <1>1, Invariant, PTL

\* Origins that match exactly are alike after normalizeOrigin, and only origins
\* with the same scheme and host are.
LEMMA Normalized ==
    ASSUME NEW a \in Origin, NEW b \in Origin
    PROVE  /\ ExactOrigin(a, b) => normalizeOrigin(a) = normalizeOrigin(b)
           /\ normalizeOrigin(a) = normalizeOrigin(b) => a.scheme = b.scheme /\ a.host = b.host
<1> DEFINE Slashes(o) == IF o.scheme # "" \/ o.slashes = 0 THEN 0 ELSE o.slashes - 1
           Extra(o) == IF o.scheme # "" THEN FALSE ELSE o.extra
<1>1. ASSUME NEW o \in Origin
      PROVE  normalizeOrigin(o) = [scheme |-> o.scheme, host |-> o.host, upper |-> FALSE,
                                   pad |-> FALSE, extra |-> Extra(o), slashes |-> Slashes(o)]
  <2>1. o = [scheme |-> o.scheme, host |-> o.host, upper |-> o.upper, pad |-> o.pad,
             extra |-> o.extra, slashes |-> o.slashes]
    BY DEF Origin
  <2>2. CASE o.scheme # ""
    <3>1. Slashes(o) = 0 /\ Extra(o) = FALSE
      BY <2>2
    <3>2. normalizeOrigin(o)
            = [o EXCEPT !.pad = FALSE, !.upper = FALSE, !.extra = FALSE, !.slashes = 0]
      BY <2>2 DEF normalizeOrigin
    <3> HIDE DEF Slashes, Extra
    <3> QED
      BY <2>1, <3>1, <3>2
  <2>3. CASE o.scheme = ""
    <3>1. Extra(o) = o.extra
      BY <2>3
    <3>2. normalizeOrigin(o)
            = [o EXCEPT !.pad = FALSE, !.upper = FALSE, !.slashes = Slashes(o)]
      BY <2>3, Zenon DEF normalizeOrigin
    <3> HIDE DEF Slashes, Extra
    <3> QED
      BY <2>1, <3>1, <3>2
  <2> QED
    BY <2>2, <2>3
<1>2. ASSUME ExactOrigin(a, b) PROVE normalizeOrigin(a) = normalizeOrigin(b)
  <2>1. a.scheme = b.scheme /\ a.host = b.host
    BY <1>2 DEF ExactOrigin
  <2>2. Extra(a) = Extra(b)
    BY <1>2 DEF ExactOrigin
  <2>3. Slashes(a) = Slashes(b)
    <3>1. CASE a.slashes = b.slashes
      BY <2>1, <3>1
    <3>2. CASE {a.slashes, b.slashes} = {0, 1}
      <4>1. a.slashes \in {0, 1} /\ b.slashes \in {0, 1}
        BY <3>2
      <4>2. \A n \in {0, 1} : n = 0 \/ n - 1 = 0
        OBVIOUS
      <4>3. /\ a.slashes = 0 \/ a.slashes - 1 = 0
            /\ b.slashes = 0 \/ b.slashes - 1 = 0
        BY <4>1, <4>2
      <4>4. Slashes(a) = 0
        BY <4>3, Zenon
      <4>5. Slashes(b) = 0
        BY <4>3, Zenon
      <4> QED
        BY <4>4, <4>5
    <3> QED
      BY <1>2, <3>1, <3>2 DEF ExactOrigin
  <2> HIDE DEF Slashes, Extra
  <2> QED
    BY <1>1, <2>1, <2>2, <2>3
<1>3. ASSUME normalizeOrigin(a) = normalizeOrigin(b) PROVE a.scheme = b.scheme /\ a.host = b.host
  <2> HIDE DEF Slashes, Extra
  <2>1. ASSUME NEW o \in {a, b}
        PROVE  normalizeOrigin(o).scheme = o.scheme /\ normalizeOrigin(o).host = o.host
    BY <1>1
  <2> QED
    BY <1>3, <2>1
<1> QED
  BY <1>2, <1>3

\* No check fails exactly if nothing is wrong that the front end looks at.
LEMMA NothingFails ==
    ASSUME TypeOK
    PROVE  Failing = {} <=>
             IF front = "gateway" THEN faults \cap {"missing", "malformed", "invalid"} = {}
             ELSE faults = {} /\ ValidateOrigin
<1>1. Failing = {} <=> \A i \in DOMAIN Checks : ~Fails(Checks[i])
  BY DEF Failing
<1>2. faults \subseteq Fault
  BY AdaptersAssumption DEF TypeOK
<1>3. CASE front = "gateway"
  <2>1. Failing = {} <=> ~Fails("missing") /\ ~Fails("invalid")
    <3>1. Checks = <<"missing", "invalid">>
      BY <1>3 DEF Checks
    <3> QED
      BY <1>1, <3>1
  <2> QED
    BY <1>3, <2>1 DEF Fails
<1>4. CASE front # "gateway"
  <2>1. Failing = {} <=> \A check \in Kind : ~Fails(check)
    <3>1. Checks = <<"origin", "missing", "malformed", "invalid", "store", "revoked">>
      BY <1>4 DEF Checks
    <3> QED
      BY <1>1, <3>1 DEF Kind
  <2>2. Kind = {"origin"} \cup Fault
    BY DEF Kind, Fault
  <2> QED
    BY <1>2, <1>4, <2>1, <2>2 DEF Fails, Fault
<1> QED
  BY <1>3, <1>4

\* auth.go:116-148 and origin.go:34-63: for any allowlist and any origin, a
\* request without another fault passes if its origin matches a configured one
\* exactly, and one that passes has no such fault, and a configured scheme and host.
THEOREM Passing == Spec => []PassesIfRight
<1>1. IInv => PassesIfRight
  <2> SUFFICES ASSUME IInv, pc = "done" PROVE PassesIfRight
    BY DEF PassesIfRight
  <2>1. context # {} <=> Failing = {}
    BY Ended
  <2>2. origin \in Origin /\ allowed \subseteq Origin
    BY AdaptersAssumption DEF IInv, TypeOK
  <2>3. (\E o \in allowed : ExactOrigin(o, origin)) => ValidateOrigin
    BY <2>2, Normalized DEF ValidateOrigin
  <2>4. ValidateOrigin =>
           \/ NoOrigin(origin)
           \/ \E o \in allowed : o.scheme = origin.scheme /\ o.host = origin.host
    BY <2>2, Normalized DEF ValidateOrigin
  <2>5. NoOrigin(origin) => ValidateOrigin
    BY DEF ValidateOrigin
  <2> QED
    BY <2>1, <2>3, <2>4, <2>5, NothingFails DEF IInv, PassesIfRight
<1> QED
  BY <1>1, Invariant, PTL

\* adapters/fiber/fiber.go:38-42 beside the other front ends: however many lines
\* the error handler writes, the last one of every key reaches the client.
THEOREM LastArrive == Spec => []LastValuesArrive
<1>1. IInv => LastValuesArrive
  <2> SUFFICES ASSUME IInv, pc = "done", context = {}, front # "gateway",
                      NEW i \in DOMAIN Written(result[2]).headers,
                      \A j \in i + 1..Len(Written(result[2]).headers) :
                          Written(result[2]).headers[j][1] # Written(result[2]).headers[i][1]
               PROVE  Written(result[2]).headers[i] \in response.headers
    BY DEF LastValuesArrive
  <2> DEFINE lines == Rejection.headers
  <2>1. Failing # {} /\ result = Verdict
    BY Ended
  <2>2. lines = Written(result[2]).headers
    BY <2>1 DEF Rejection
  <2>3. lines \in Seq(Header) /\ Len(lines) \in Nat /\ DOMAIN lines = 1..Len(lines)
    BY <2>1, RejectionType, LenProperties DEF IInv
  <2>4. CASE front # "fiber"
    <3>1. response.headers = ToSet(lines)
      BY <2>1, <2>4 DEF IInv, Answered
    <3> QED
      BY <2>2, <3>1 DEF ToSet
  <2>5. CASE front = "fiber"
    <3>1. recorded = <<>>
      BY DEF IInv, Course
    <3>2. Copied = Len(lines)
      BY <2>3, <3>1 DEF Copied
    <3>3. response.headers = LastLines(lines, Len(lines))
      BY <2>1, <2>5, <3>2 DEF IInv, Answered
    <3> QED
      BY <2>2, <2>3, <3>3 DEF LastLines
  <2> QED
    BY <2>4, <2>5
<1> QED
  BY <1>1, Invariant, PTL

\* Where fiber sends the last line of every key, the other front ends send all
\* that the error handler wrote.
THEOREM WholeElsewhere ==
    Spec => [](front \notin {"fiber", "gateway"} => WholeResponseArrives)
<1>1. IInv => (front \notin {"fiber", "gateway"} => WholeResponseArrives)
  <2> SUFFICES ASSUME IInv, front \notin {"fiber", "gateway"}, pc = "done", context = {}
               PROVE  ToSet(Written(result[2]).headers) \subseteq response.headers
    BY DEF WholeResponseArrives
  <2>1. Failing # {} /\ result = Verdict
    BY Ended
  <2>2. response.headers = ToSet(Rejection.headers)
    BY <2>1 DEF IInv, Answered
  <2> QED
    BY <2>1, <2>2 DEF Rejection
<1> QED
  BY <1>1, Invariant, PTL
=============================================================================
