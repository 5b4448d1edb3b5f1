----------------------------- MODULE SessionProofs -----------------------------
(***************************************************************************)
(* Proofs about Session, for any connections, tokens, leeway, interval and *)
(* horizon: what a connection is admitted on, what ends its supervision    *)
(* and when, and the refinement of Supervision.                            *)
(***************************************************************************)
EXTENDS Session, TLAPS

TypeOK ==
    /\ now \in 0..Horizon /\ lagged \in BOOLEAN
    /\ exp \in [Token -> 0..Horizon] /\ revokedAt \in [Token -> 0..Never]
    /\ revoker \in BOOLEAN
    /\ request \in [Conn -> SUBSET Fault] /\ token \in [Conn -> Token]
    /\ hs \in [Conn -> {"start", "checking", "opened", "refused"}]
    /\ rv \in [Conn -> {"off", "waiting", "checking", "invalid", "ended"}]
    /\ done \in [Conn -> BOOLEAN] /\ pending \in [Conn -> BOOLEAN]
    /\ call \in [Conn -> {"none", "asked"} \cup Answers]
    /\ why \in [Conn -> Fault \cup {"none", "expired", "revoked", "error"}]
    /\ notices \in [Conn -> Nat]
    /\ askedAt \in [Conn -> 0..Horizon] /\ started \in [Conn -> 0..Horizon]
    /\ faulted \in [Conn -> BOOLEAN]

\* A call is under way exactly while a handshake or a check of Reverify waits
\* for it; Reverify runs on open connections only, and a ticker with it.
Stages(c) ==
    /\ rv[c] # "off" => hs[c] = "opened"
    /\ call[c] # "none" <=> hs[c] = "checking" \/ rv[c] = "checking"
    /\ call[c] # "none" => revoker
    /\ pending[c] => rv[c] \in {"waiting", "checking", "invalid"}

\* No event lies in the future, a store's answer says how the token stood at some
\* time since it was asked, and there is a cause for an error.
Answered(c) ==
    /\ askedAt[c] <= now /\ started[c] <= now
    /\ call[c] = "clean" => revokedAt[token[c]] >= askedAt[c]
    /\ call[c] = "revoked" => revokedAt[token[c]] # Never
    /\ call[c] = "asked" /\ (store = "down" \/ done[c]) => faulted[c]
    /\ call[c] = "error" => faulted[c]

\* What the handshake has found out of a connection that Reverify has not taken
\* over: a connection under check lacks no more than the store's answer.
Examined(c) ==
    /\ hs[c] \in {"checking", "opened"} /\ rv[c] = "off" =>
          /\ request[c] = {}
          /\ askedAt[c] < exp[token[c]] + Leeway \/ exp[token[c]] = Horizon
    /\ hs[c] = "opened" /\ rv[c] = "off" /\ revoker => revokedAt[token[c]] >= askedAt[c]

Reason(c) ==
    \/ why[c] = "expired" /\ Expired(token[c])
    \/ why[c] = "revoked" /\ revoker /\ revokedAt[token[c]] # Never
    \/ why[c] = "error" /\ faulted[c]

\* A notice is due for a reason, and none has been given before.
Noticed(c) ==
    /\ notices[c] \in {0, 1}
    /\ rv[c] # "ended" => notices[c] = 0
    /\ rv[c] = "invalid" \/ notices[c] > 0 => Reason(c)
    /\ notices[c] > 0 => done[c]

\* While nobody lags behind the clock a tick is taken at its own time, so that
\* the last check is less than an interval old.
Punctual(c) ==
    /\ pending[c] => rv[c] = "waiting" /\ Due(c, now)
    /\ rv[c] = "checking" =>
          askedAt[c] = now /\ Due(c, now) /\ ~Expired(token[c])
    /\ rv[c] = "waiting" /\ ~pending[c] =>
          \/ now < started[c] + Interval
          \/ /\ Due(c, askedAt[c]) /\ now < askedAt[c] + Interval
             /\ askedAt[c] <= exp[token[c]]
             /\ revoker => revokedAt[token[c]] >= askedAt[c]

\* The inductive invariant: one part per promise, and the bookkeeping they
\* share.
Past == \A t \in Token : revokedAt[t] \in 0..now \cup {Never}

IInv ==
    /\ TypeOK /\ Past
    /\ \A c \in Conn : Stages(c) /\ Answered(c) /\ Examined(c) /\ Noticed(c)
    /\ ~lagged => \A c \in Conn : Punctual(c)

-----------------------------------------------------------------------------
\* The invariant holds before any handshake.
LEMMA InitInv == Init => IInv
<1> SUFFICES ASSUME Init PROVE IInv
  OBVIOUS
<1> USE SessionAssumption DEF Init
<1>1. TypeOK
  <2>1. request \in [Conn -> SUBSET Fault]
    OBVIOUS
  <2>2. /\ now \in 0..Horizon /\ exp \in [Token -> 0..Horizon]
        /\ revokedAt \in [Token -> 0..Never]
    BY DEF Never
  <2>3. /\ hs \in [Conn -> {"start", "checking", "opened", "refused"}]
        /\ rv \in [Conn -> {"off", "waiting", "checking", "invalid", "ended"}]
    OBVIOUS
  <2>4. done \in [Conn -> BOOLEAN] /\ pending \in [Conn -> BOOLEAN]
    OBVIOUS
  <2>5. call \in [Conn -> {"none", "asked"} \cup Answers]
    OBVIOUS
  <2>6. why \in [Conn -> Fault \cup {"none", "expired", "revoked", "error"}]
    OBVIOUS
  <2>7. /\ notices \in [Conn -> Nat]
        /\ askedAt \in [Conn -> 0..Horizon] /\ started \in [Conn -> 0..Horizon]
        /\ faulted \in [Conn -> BOOLEAN]
    OBVIOUS
  <2> QED
    BY <2>1, <2>2, <2>3, <2>4, <2>5, <2>6, <2>7 DEF TypeOK
<1>2. Past
  BY DEF Past
<1>3. ASSUME NEW c \in Conn PROVE Stages(c) /\ Answered(c) /\ Examined(c)
  BY DEF Stages, Answered, Examined
<1>4. ASSUME NEW c \in Conn PROVE Noticed(c) /\ Punctual(c)
  BY DEF Noticed, Punctual
<1> QED
  BY <1>1, <1>2, <1>3, <1>4 DEF IInv

\* Every variable keeps its type, and no event is dated in the future.
LEMMA StepTypes == TypeOK /\ Past /\ [Next]_vars => TypeOK' /\ Past' /\ now <= now'
<1> SUFFICES ASSUME TypeOK, Past, [Next]_vars PROVE TypeOK' /\ Past' /\ now <= now'
  OBVIOUS
<1> USE SessionAssumption DEF TypeOK, Past, Never, Answers, clockVars, storeVars, connVars,
        checkVars
<1>1. ASSUME NEW c \in Conn, Begin(c) PROVE TypeOK' /\ Past' /\ now <= now'
  BY <1>1 DEF Begin, ChecksBegin, FirstFault, Fault
<1>2. ASSUME NEW c \in Conn, StoreAnswers(c) PROVE TypeOK' /\ Past' /\ now <= now'
  BY <1>2 DEF StoreAnswers, GivesUp
<1>3. ASSUME NEW c \in Conn, HandshakeReturns(c) PROVE TypeOK' /\ Past' /\ now <= now'
  BY <1>3 DEF HandshakeReturns, AnswerTaken, Fault, StillValid
<1>4. ASSUME NEW c \in Conn, StartReverify(c) PROVE TypeOK' /\ Past' /\ now <= now'
  BY <1>4 DEF StartReverify
<1>5. ASSUME NEW c \in Conn, TakesDone(c) PROVE TypeOK' /\ Past' /\ now <= now'
  BY <1>5 DEF TakesDone
<1>6. ASSUME NEW c \in Conn, TakesTick(c) PROVE TypeOK' /\ Past' /\ now <= now'
  BY <1>6 DEF TakesTick, ChecksBegin, Call, Fault
<1>7. ASSUME NEW c \in Conn, CheckReturns(c) PROVE TypeOK' /\ Past' /\ now <= now'
  BY <1>7 DEF CheckReturns, AnswerTaken, Fault, StillValid
<1>8. ASSUME NEW c \in Conn, Notifies(c) PROVE TypeOK' /\ Past' /\ now <= now'
  BY <1>8 DEF Notifies, Ending
<1>9. ASSUME NEW c \in Conn, Disconnect(c) PROVE TypeOK' /\ Past' /\ now <= now'
  BY <1>9 DEF Disconnect
<1>10. ASSUME NEW t \in Token, Revoke(t) PROVE TypeOK' /\ Past' /\ now <= now'
  BY <1>10 DEF Revoke
<1>11. CASE StoreFaults
  BY <1>11 DEF StoreFaults
<1>12. CASE Tick
  BY <1>12 DEF Tick
<1>13. CASE UNCHANGED vars
  BY <1>13 DEF vars
<1> QED
  BY <1>1, <1>2, <1>3, <1>4, <1>5, <1>6, <1>7, <1>8, <1>9, <1>10, <1>11, <1>12, <1>13
  DEF Next, Handshake, Reverify, Store, World

-----------------------------------------------------------------------------
Each(c) == Stages(c) /\ Answered(c) /\ Examined(c) /\ Noticed(c)

\* No step of one connection, of the store or of the clock breaks what is known of
\* a connection.
LEMMA StepEach ==
    ASSUME TypeOK, TypeOK', Past, Past', now <= now', [Next]_vars,
           NEW d \in Conn, Each(d)
    PROVE  Each(d)'
<1> USE SessionAssumption DEF TypeOK, Past, Never, clockVars, storeVars, connVars, checkVars,
        Each, Stages, Answered, Examined, Noticed, Reason, Expired
<1>1. ASSUME NEW c \in Conn, Begin(c) PROVE Each(d)'
  BY <1>1 DEF Begin, ChecksBegin, FirstFault, Accepts, Fault
<1>2. ASSUME NEW c \in Conn, StoreAnswers(c) PROVE Each(d)'
  BY <1>2 DEF StoreAnswers, GivesUp
<1>3. ASSUME NEW c \in Conn, HandshakeReturns(c) PROVE Each(d)'
  BY <1>3 DEF HandshakeReturns, AnswerTaken, StillValid, Answers
<1>4. ASSUME NEW c \in Conn, StartReverify(c) PROVE Each(d)'
  BY <1>4 DEF StartReverify
<1>5. ASSUME NEW c \in Conn, TakesDone(c) PROVE Each(d)'
  BY <1>5 DEF TakesDone
<1>6. ASSUME NEW c \in Conn, TakesTick(c) PROVE Each(d)'
  BY <1>6 DEF TakesTick, ChecksBegin, Call, Expired
<1>7. ASSUME NEW c \in Conn, CheckReturns(c) PROVE Each(d)'
  BY <1>7 DEF CheckReturns, AnswerTaken, StillValid, Answers
<1>8. ASSUME NEW c \in Conn, Notifies(c) PROVE Each(d)'
  BY <1>8 DEF Notifies, Ending
<1>9. ASSUME NEW c \in Conn, Disconnect(c) PROVE Each(d)'
  BY <1>9 DEF Disconnect
<1>10. ASSUME NEW t \in Token, Revoke(t) PROVE Each(d)'
  BY <1>10 DEF Revoke
<1>11. CASE StoreFaults
  BY <1>11 DEF StoreFaults
<1>12. CASE Tick
  BY <1>12 DEF Tick
<1>13. CASE UNCHANGED vars
  BY <1>13 DEF vars
<1> QED
  BY <1>1, <1>2, <1>3, <1>4, <1>5, <1>6, <1>7, <1>8, <1>9, <1>10, <1>11, <1>12, <1>13
  DEF Next, Handshake, Reverify, Store, World

-----------------------------------------------------------------------------
\* Ticks are due at the multiples of the interval.
LEMMA Multiple ==
    ASSUME NEW k \in Nat, NEW i \in Nat \ {0}
    PROVE  (i * k) % i = 0
OBVIOUS

\* One interval after a tick the next is due.
LEMMA NextMultiple ==
    ASSUME NEW a \in Nat, NEW i \in Nat \ {0}, a % i = 0
    PROVE  (a + i) % i = 0
<1>1. PICK k \in Nat : a = i * k
  OBVIOUS
<1>2. a + i = i * (k + 1) /\ k + 1 \in Nat
  BY <1>1
<1>3. (i * (k + 1)) % i = 0
  BY <1>2, Multiple
<1> QED
  BY <1>2, <1>3

\* Time passes only when every check has been made, and the next tick is due before
\* the last check is an interval old.
LEMMA NeverLate ==
    ASSUME NEW d \in Conn, TypeOK, Each(d), Punctual(d), Tick, ~lagged'
    PROVE  Punctual(d)'
<1> USE SessionAssumption DEF TypeOK
<1> DEFINE Checked == /\ Due(d, askedAt[d]) /\ askedAt[d] <= exp[token[d]]
                      /\ revoker => revokedAt[token[d]] >= askedAt[d]
<1>1. Settled
  BY DEF Tick
<1>2. /\ rv[d] \notin {"checking", "invalid"}
      /\ rv[d] = "waiting" => ~pending[d]
  BY <1>1 DEF Settled, Each, Stages
<1>3. rv'[d] \notin {"checking", "invalid"} /\ rv'[d] = rv[d]
  BY <1>2 DEF Tick
<1>4. pending'[d] => rv'[d] = "waiting" /\ Due(d, now)'
  BY <1>2 DEF Tick, Due, Each, Stages
<1>5. ASSUME rv[d] = "waiting", ~pending'[d]
      PROVE  \/ now' < started[d] + Interval
             \/ Checked /\ now' < askedAt[d] + Interval
  <2>1. now < Horizon /\ now' = now + 1 /\ ~Due(d, now')
    BY <1>5 DEF Tick, Due
  <2>2. CASE now < started[d] + Interval
    <3>1. Interval % Interval = 0
      BY NextMultiple
    <3>2. now' # started[d] + Interval
      BY <2>1, <3>1, <2>2 DEF Due
    <3> QED
      BY <2>1, <2>2, <3>2
  <2>3. CASE Checked /\ now < askedAt[d] + Interval
    <3>1. askedAt[d] > started[d] /\ (askedAt[d] - started[d]) % Interval = 0
      BY <2>1, <2>3 DEF Due, Each, Answered
    <3>2. (askedAt[d] - started[d] + Interval) % Interval = 0
      BY <3>1, NextMultiple
    <3>3. now' # askedAt[d] + Interval
      BY <2>1, <3>1, <3>2 DEF Due
    <3> QED
      BY <2>1, <2>3, <3>3
  <2> QED
    BY <1>2, <1>5, <2>2, <2>3 DEF Punctual
<1> QED
  BY <1>2, <1>3, <1>4, <1>5 DEF Punctual, Tick, Due, storeVars, connVars,
                                 checkVars

\* While everyone keeps up with the clock, each tick is taken at its time.
LEMMA StepPunctual ==
    ASSUME TypeOK, TypeOK', Past, Past', [Next]_vars, ~lagged',
           NEW d \in Conn, Each(d), ~lagged => Punctual(d)
    PROVE  Punctual(d)'
<1>0. Punctual(d)
  BY DEF Next, Handshake, Reverify, Store, World, Begin, StoreAnswers, HandshakeReturns,
         StartReverify, TakesDone, TakesTick, CheckReturns, Notifies, Disconnect, Revoke,
         StoreFaults, Tick, vars, clockVars, TypeOK
<1> USE <1>0, SessionAssumption DEF TypeOK, Past, Never, clockVars, storeVars, connVars, checkVars,
        Each, Stages, Answered, Punctual, Due, Expired
<1>1. ASSUME NEW c \in Conn, Begin(c) PROVE Punctual(d)'
  BY <1>1 DEF Begin, ChecksBegin, FirstFault, Accepts, Fault
<1>2. ASSUME NEW c \in Conn, StoreAnswers(c) PROVE Punctual(d)'
  BY <1>2 DEF StoreAnswers, GivesUp
<1>3. ASSUME NEW c \in Conn, HandshakeReturns(c) PROVE Punctual(d)'
  BY <1>3 DEF HandshakeReturns, AnswerTaken, StillValid, Answers
<1>4. ASSUME NEW c \in Conn, StartReverify(c) PROVE Punctual(d)'
  BY <1>4 DEF StartReverify, Due
<1>5. ASSUME NEW c \in Conn, TakesDone(c) PROVE Punctual(d)'
  BY <1>5 DEF TakesDone
<1>6. ASSUME NEW c \in Conn, TakesTick(c) PROVE Punctual(d)'
  BY <1>6 DEF TakesTick, ChecksBegin, Call, Expired
<1>7. ASSUME NEW c \in Conn, CheckReturns(c) PROVE Punctual(d)'
  BY <1>7 DEF CheckReturns, AnswerTaken, StillValid, Answers
<1>8. ASSUME NEW c \in Conn, Notifies(c) PROVE Punctual(d)'
  BY <1>8 DEF Notifies, Ending
<1>9. ASSUME NEW c \in Conn, Disconnect(c) PROVE Punctual(d)'
  BY <1>9 DEF Disconnect
<1>10. ASSUME NEW t \in Token, Revoke(t) PROVE Punctual(d)'
  BY <1>10 DEF Revoke
<1>11. CASE StoreFaults
  BY <1>11 DEF StoreFaults
<1>12. CASE Tick
  BY <1>12, NeverLate DEF Tick
<1>13. CASE UNCHANGED vars
  BY <1>13 DEF vars
<1> QED
  BY <1>1, <1>2, <1>3, <1>4, <1>5, <1>6, <1>7, <1>8, <1>9, <1>10, <1>11, <1>12, <1>13
  DEF Next, Handshake, Reverify, Store, World

-----------------------------------------------------------------------------
\* The inductive invariant of a connection's life, whatever clock, store and peers do.
THEOREM Invariant == Spec => []IInv
<1>1. IInv /\ [Next]_vars => IInv'
  <2> SUFFICES ASSUME IInv, [Next]_vars PROVE IInv'
    OBVIOUS
  <2>1. TypeOK' /\ Past' /\ now <= now'
    BY StepTypes DEF IInv
  <2>2. ASSUME NEW d \in Conn PROVE Each(d) /\ Each(d)'
    BY <2>1, StepEach DEF IInv, Each
  <2>3. ASSUME NEW d \in Conn, ~lagged' PROVE Punctual(d)'
    BY <2>1, <2>2, <2>3, StepPunctual DEF IInv
  <2> QED
    BY <2>1, <2>2, <2>3 DEF IInv, Each
<1> QED
  BY <1>1, InitInv, PTL DEF Spec

\* A connection opens only on a token that was accepted and not revoked when the
\* handshake's checks began (authenticate).
THEOREM Admission == Spec => []AdmittedWhileValid
<1>1. IInv => AdmittedWhileValid
  BY DEF IInv, AdmittedWhileValid, Examined, GoodSince
<1> QED
  BY <1>1, Invariant, PTL

\* onInvalid is called once at most, last, and with the true reason (Reverify).
THEOREM OneHonestNotice == Spec => []HonestNotice
<1>1. IInv => HonestNotice
  BY DEF IInv, HonestNotice, Noticed, Reason
<1> QED
  BY <1>1, Invariant, PTL

\* No connection outlives its token by an interval while goroutines keep up with
\* the clock (Reverify's ticker).
THEOREM Dropped == Spec => []DroppedWithinInterval
<1>1. IInv => DroppedWithinInterval
  <2> SUFFICES ASSUME IInv, NEW c \in Conn, rv[c] = "waiting", Settled, ~lagged
               PROVE  LET Within(event) == now < event + Interval \/ now < started[c] + Interval
                      IN  /\ Within(exp[token[c]]) \/ exp[token[c]] = Horizon
                          /\ revoker => Within(revokedAt[token[c]])
    BY DEF DroppedWithinInterval
  <2>1. ~pending[c] /\ Punctual(c)
    BY DEF IInv, Settled
  <2> QED
    BY <2>1, SessionAssumption DEF IInv, TypeOK, Punctual, Never
<1> QED
  BY <1>1, Invariant, PTL

\* No check passes for a token revoked before the check began: every answer of the
\* store is used for the call that asked for it (authenticate, checkStillValid).
THEOREM FreshPass == Spec => NoStalePass
<1>1. IInv /\ [Next]_vars =>
          [\A c \in Conn :
             \/ hs[c] = "checking" /\ hs'[c] = "opened"
             \/ rv[c] = "checking" /\ rv'[c] = "waiting"
             => revokedAt[token[c]] >= askedAt[c]]_vars
  <2> SUFFICES ASSUME IInv, [Next]_vars, NEW d \in Conn,
                      \/ hs[d] = "checking" /\ hs'[d] = "opened"
                      \/ rv[d] = "checking" /\ rv'[d] = "waiting"
               PROVE  revokedAt[token[d]] >= askedAt[d]
    OBVIOUS
  <2>1. call[d] = "clean"
    BY DEF IInv, TypeOK, Stages, Next, Handshake, Reverify, Store, World, Begin,
           StoreAnswers,
       HandshakeReturns, StillValid, StartReverify, TakesDone, TakesTick, CheckReturns,
       Notifies, Ending, Disconnect, Revoke, StoreFaults, Tick, vars
  <2> QED
    BY <2>1 DEF IInv, Answered
<1> QED
  BY <1>1, Invariant, PTL DEF Spec, NoStalePass

-----------------------------------------------------------------------------
\* A connection not yet opened is new to Supervision.
LEMMA InitImplements == Init => Promise!Init
<1> SUFFICES ASSUME Init PROVE Promise!Init
  OBVIOUS
<1>1. \A c \in Conn : GoodSince(c) \in BOOLEAN /\ Spent(c) \in BOOLEAN
  BY DEF GoodSince, Spent, Expired
<1>2. \A c \in Conn : Phase(c) = "new" /\ ~(why[c] = "error" /\ faulted[c]) /\ ~done[c]
  BY DEF Init, Phase
<1> QED
  BY <1>1, <1>2 DEF Promise!Init, Init

\* A token that is spent stays spent, and a context that is done stays done.
LEMMA Lasting ==
    ASSUME IInv, [Next]_vars, NEW d \in Conn
    PROVE  (Spent(d) => Spent(d)') /\ (done[d] => done'[d])
<1>1. now <= now' /\ TypeOK'
  BY StepTypes DEF IInv
<1>2. UNCHANGED <<exp, token, revoker>>
  BY DEF Next, Handshake, Reverify, Store, World, Begin, StoreAnswers,
     HandshakeReturns, StartReverify, TakesDone, TakesTick, CheckReturns, Notifies,
     Disconnect, Revoke, StoreFaults, Tick, vars, storeVars, connVars
<1>3. \A t \in Token : revokedAt[t] # Never => revokedAt'[t] # Never
  BY SessionAssumption
  DEF IInv, TypeOK, Past, Never, Next, Handshake, Reverify, Store, World, Begin,
      StoreAnswers,
     HandshakeReturns, StartReverify, TakesDone, TakesTick, CheckReturns, Notifies,
     Disconnect, Revoke, StoreFaults, Tick, vars, storeVars, connVars
<1>4. done[d] => done'[d]
  BY DEF IInv, TypeOK, Next, Handshake, Reverify, Store, World, Begin, StoreAnswers,
     HandshakeReturns, StartReverify, TakesDone, TakesTick, CheckReturns, Notifies,
     Disconnect, Revoke, StoreFaults, Tick, vars, storeVars, connVars
<1> QED
  BY <1>1, <1>2, <1>3, <1>4, SessionAssumption DEF IInv, TypeOK, Spent, Expired

\* The phases of a connection, as Supervision sees them, and the steps between them.
Turns(c, from, to) ==
    Phase(c) = from /\ Phase(c)' = to /\ \A d \in Conn \ {c} : Phase(d)' = Phase(d)

\* A turn of one connection is a move of it in Supervision.
LEMMA TurnIsMove ==
    ASSUME NEW c \in Conn, NEW from, NEW to, Turns(c, from, to)
    PROVE  Promise!Moves(c, from, to)
BY DEF Turns, Promise!Moves

\* A handshake that ends well admits on a good token, and every other end of a
\* connection has its reason.
LEMMA StepImplements == IInv /\ [Next]_vars => [Promise!Next]_Promise!vars
<1> SUFFICES ASSUME IInv, [Next]_vars PROVE Promise!Next
  OBVIOUS
<1> DEFINE Stays == \A d \in Conn : Phase(d)' = Phase(d)
           Turn == \E c \in Conn :
              \/ Turns(c, "new", "refused")
              \/ Turns(c, "new", "open") /\ GoodSince(c)'
              \/ Turns(c, "open", "watched")
              \/ /\ Turns(c, "watched", "dismissed")
                 /\ Spent(c) \/ (why[c] = "error" /\ faulted[c])
                 /\ done'[c]
              \/ Turns(c, "watched", "left") /\ done[c]
<1>1. Promise!Lasts([c \in Conn |-> Spent(c)]) /\ Promise!Lasts(done)
  BY Lasting DEF Promise!Lasts
<1>2. Stays \/ Turn
  <2> USE DEF IInv, TypeOK, Phase
  <2>1. ASSUME NEW c \in Conn, Begin(c) PROVE Stays \/ Turn
    <3>1. ASSUME FirstFault(c) # "none" PROVE Turns(c, "new", "refused")
      BY <2>1, <3>1 DEF Begin, ChecksBegin, Turns
    <3>2. ASSUME FirstFault(c) = "none", ~revoker
          PROVE  Turns(c, "new", "open") /\ GoodSince(c)'
      BY <2>1, <3>2
      DEF Begin, ChecksBegin, Turns, GoodSince, FirstFault, Accepts, storeVars, connVars, Stages
    <3>3. ASSUME FirstFault(c) = "none", revoker PROVE Stays
      BY <2>1, <3>3 DEF Begin
    <3> QED
      BY <3>1, <3>2, <3>3
  <2>2. ASSUME NEW c \in Conn, HandshakeReturns(c) PROVE Turn
    <3>1. ASSUME ~StillValid(c) PROVE Turns(c, "new", "refused")
      BY <2>2, <3>1 DEF HandshakeReturns, Turns
    <3>2. ASSUME StillValid(c) PROVE Turns(c, "new", "open") /\ GoodSince(c)'
      BY <2>2, <3>2 DEF HandshakeReturns, Turns, StillValid, GoodSince, Stages, Answered,
                        Examined, storeVars, connVars, checkVars
    <3> QED
      BY <3>1, <3>2
  <2>3. ASSUME NEW c \in Conn, StartReverify(c) PROVE Turns(c, "open", "watched")
    BY <2>3 DEF StartReverify, Turns
  <2>4. ASSUME NEW c \in Conn, TakesDone(c) PROVE Turns(c, "watched", "left") /\ done[c]
    BY <2>4 DEF TakesDone, Turns, Stages, Noticed
  <2>5. ASSUME NEW c \in Conn, Notifies(c)
        PROVE  /\ Turns(c, "watched", "dismissed")
               /\ Spent(c) \/ (why[c] = "error" /\ faulted[c])
               /\ done'[c]
    <3>1. Turns(c, "watched", "dismissed") /\ done'[c]
      BY <2>5 DEF Notifies, Ending, Turns, Stages, Noticed
    <3>2. Spent(c) \/ (why[c] = "error" /\ faulted[c])
      BY <2>5 DEF Notifies, Noticed, Reason, Spent
    <3> QED
      BY <3>1, <3>2
  <2>6. ASSUME NEW c \in Conn, TakesTick(c) \/ CheckReturns(c) PROVE Stays
    BY <2>6 DEF TakesTick, ChecksBegin, CheckReturns
  <2>7. CASE Store \/ StoreFaults \/ Tick \/ UNCHANGED vars
    BY <2>7 DEF Store, StoreAnswers, StoreFaults, Tick, vars
  <2>8. CASE (\E c \in Conn : Disconnect(c)) \/ (\E t \in Token : Revoke(t))
    BY <2>8 DEF Disconnect, Revoke
  <2> QED
    BY <2>1, <2>2, <2>3, <2>4, <2>5, <2>6, <2>7, <2>8 DEF Next, Handshake, Reverify, World
<1>3. Stays => UNCHANGED [c \in Conn |-> Phase(c)]
  OBVIOUS
<1> QED
  BY <1>1, <1>2, <1>3, TurnIsMove
  DEF Promise!Next, Promise!Refuse, Promise!Admit, Promise!Watch, Promise!Dismiss, Promise!Leave

\* What an Auth does to a connection is what Supervision promises: the clock, the
\* calls and the goroutines of Session explain nothing more.
THEOREM Refinement == Spec => ImplementsSupervision
BY InitImplements, StepImplements, Invariant, PTL DEF Spec, ImplementsSupervision, Promise!Spec
=============================================================================
