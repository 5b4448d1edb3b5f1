-------------------------------- MODULE Session --------------------------------
(***************************************************************************)
(* A connection's life under one Auth: the handshake (Auth.authenticate),  *)
(* then Auth.Reverify, run as its doc comment shows, against a clock, a    *)
(* revocation store that may fail, and the other connections.              *)
(***************************************************************************)
EXTENDS Naturals, FiniteSets

CONSTANTS
    Conn,       \* connections
    Token,      \* tokens, which connections may share
    Requests,   \* what can be wrong with a handshake: sets of faults
    Leeway,     \* the validator's leeway on expiry
    Interval,   \* the interval passed to Reverify
    Horizon     \* bound on the clock: it stays at Horizon for ever

\* The faults authenticate meets before it looks at the token's expiry: origin
\* refused, no token found, token invalid whatever the time.
Fault == {"origin", "missing", "invalid"}

ASSUME SessionAssumption ==
    /\ Requests \subseteq SUBSET Fault
    /\ Leeway \in Nat
    /\ Interval \in Nat \ {0}
    /\ Horizon \in Nat

VARIABLES
    now,         \* the clock
    lagged,      \* the clock has moved while a goroutine or the store had work
    exp,         \* per token: its expiry; Horizon stands for never
    revokedAt,   \* per token: when it was revoked; Horizon + 1 for not at all
    store,       \* "up"; "down": IsRevoked fails; "hung": it waits for its context
    revoker,     \* whether the Auth has a Revoker
    request,     \* per connection: the faults of its handshake
    token,       \* per connection: the token it presents
    hs,          \* per connection: the handshake's step
    rv,          \* per connection: Reverify's step
    done,        \* per connection: its context is done
    pending,     \* per connection: the ticker's channel holds a tick
    call,        \* per connection: IsRevoked, its state or its answer
    why,         \* per connection: the error of the handshake or of Reverify
    notices,     \* per connection: how often onInvalid was called
    started,     \* per connection: when Reverify started
    askedAt,     \* history, per connection: when the validity checks in force began
    faulted      \* history, per connection: since then, before the store's answer,
                 \* the store was down or the connection's context done

clockVars == <<now, lagged>>
storeVars == <<exp, revokedAt, store, revoker>>
connVars == <<request, token>>
checkVars == <<askedAt, faulted>>
vars == <<clockVars, storeVars, connVars, checkVars, hs, rv, done, pending, call, why,
          notices, started>>

-----------------------------------------------------------------------------
Never == Horizon + 1

\* Mutant: an error of the Revoker is waited out.
AnswersButError == {"clean", "revoked"}
Answers == {"clean", "revoked", "error"}

Init ==
    /\ now = 0
    /\ lagged = FALSE
    /\ exp \in [Token -> 0..Horizon]
    /\ revokedAt = [t \in Token |-> Never]
    /\ store = "up"
    /\ revoker \in BOOLEAN
    /\ request \in [Conn -> Requests]
    /\ token \in [Conn -> Token]
    /\ hs = [c \in Conn |-> "start"]
    /\ rv = [c \in Conn |-> "off"]
    /\ done = [c \in Conn |-> FALSE]
    /\ pending = [c \in Conn |-> FALSE]
    /\ call = [c \in Conn |-> "none"]
    /\ why = [c \in Conn |-> "none"]
    /\ notices = [c \in Conn |-> 0]
    /\ started = [c \in Conn |-> 0]
    /\ askedAt = [c \in Conn |-> 0]
    /\ faulted = [c \in Conn |-> FALSE]

-----------------------------------------------------------------------------
\* The validator accepts an expired token for the length of the leeway.
Accepts(t) == now < exp[t] + Leeway \/ exp[t] = Horizon

\* checkStillValid knows no leeway.
Expired(t) == now > exp[t]

\* The first check that fails: origin, extraction, validation.
FirstFault(c) ==
    IF "origin" \in request[c] THEN "origin"
    ELSE IF "missing" \in request[c] THEN "missing"
    ELSE IF "invalid" \in request[c] \/ ~Accepts(token[c]) THEN "invalid"
    ELSE "none"

\* The validity checks in force begin.
ChecksBegin(c) ==
    /\ askedAt' = [askedAt EXCEPT ![c] = now]
    /\ faulted' = [faulted EXCEPT ![c] = store = "down" \/ done[c]]

\* authenticate up to the Revoker, none of which blocks.
Begin(c) ==
    /\ hs[c] = "start"
    /\ ChecksBegin(c)
    /\ why' = [why EXCEPT ![c] = FirstFault(c)]
    /\ \/ /\ FirstFault(c) # "none"
          /\ hs' = [hs EXCEPT ![c] = "refused"]
          /\ UNCHANGED call
       \/ /\ FirstFault(c) = "none" /\ ~revoker
          /\ hs' = [hs EXCEPT ![c] = "opened"]
          /\ UNCHANGED call
       \/ /\ FirstFault(c) = "none" /\ revoker
          /\ hs' = [hs EXCEPT ![c] = "checking"]
          /\ call' = [call EXCEPT ![c] = "asked"]
    /\ UNCHANGED <<clockVars, storeVars, connVars, rv, done, pending, notices,
                   started>>

\* Mutant: the Revoker is not given the connection's context.
Detached(c) == FALSE
GivesUp(c) == done[c]

\* The store evaluates an IsRevoked call, or the call ends with its context; the
\* answer is still under way to the caller.
StoreAnswers(c) ==
    /\ call[c] = "asked"
    /\ \/ /\ store = "up"
          /\ call' = [call EXCEPT ![c] =
                         IF revokedAt[token[c]] # Never THEN "revoked" ELSE "clean"]
       \/ /\ store = "down" \/ GivesUp(c)
          /\ call' = [call EXCEPT ![c] = "error"]
    /\ UNCHANGED <<clockVars, storeVars, connVars, hs, rv, done, pending, why,
                   notices, checkVars, started>>

\* Mutant: an error of the Revoker is taken for a clean answer.
StillValidOrError(c) == call[c] \in {"clean", "error"}
StillValid(c) == call[c] = "clean"

AnswerTaken(c) == [call EXCEPT ![c] = "none"]

\* IsRevoked returns to authenticate, and Authenticate to the middleware, which
\* calls the error handler or, with the claims, the next handler.
HandshakeReturns(c) ==
    /\ hs[c] = "checking"
    /\ call[c] \in Answers
    /\ IF StillValid(c)
       THEN hs' = [hs EXCEPT ![c] = "opened"] /\ UNCHANGED why
       ELSE hs' = [hs EXCEPT ![c] = "refused"] /\ why' = [why EXCEPT ![c] = call[c]]
    /\ call' = AnswerTaken(c)
    /\ UNCHANGED <<clockVars, storeVars, connVars, rv, done, pending, notices,
                   checkVars, started>>

-----------------------------------------------------------------------------
\* The application starts Reverify on the connection's own context.  Without an
\* Auth, claims or a callback Reverify returns at once, which is a stuttering step,
\* and an interval that is not positive becomes 30 s: Interval is the one in force.
StartReverify(c) ==
    /\ hs[c] = "opened"
    /\ rv[c] = "off"
    /\ rv' = [rv EXCEPT ![c] = "waiting"]
    /\ started' = [started EXCEPT ![c] = now]
    /\ UNCHANGED <<clockVars, storeVars, connVars, hs, done, pending, call,
                   why, notices, checkVars>>

\* Of a tick and a context that is done, select may take either.
TakesDone(c) ==
    /\ rv[c] = "waiting"
    /\ done[c]
    /\ rv' = [rv EXCEPT ![c] = "ended"]
    /\ pending' = [pending EXCEPT ![c] = FALSE]
    /\ UNCHANGED <<clockVars, storeVars, connVars, hs, done, call, why,
                   notices, checkVars, started>>

\* Mutant: an answer of an earlier check is taken again.
CallFromCache(c) == IF call[c] = "none" THEN "clean" ELSE call[c]
Call(c) == "asked"

TakesTick(c) ==
    /\ rv[c] = "waiting"
    /\ pending[c]
    /\ pending' = [pending EXCEPT ![c] = FALSE]
    /\ ChecksBegin(c)
    /\ \/ /\ Expired(token[c])
          /\ rv' = [rv EXCEPT ![c] = "invalid"]
          /\ why' = [why EXCEPT ![c] = "expired"]
          /\ UNCHANGED call
       \/ /\ ~Expired(token[c]) /\ ~revoker
          /\ UNCHANGED <<rv, why, call>>
       \/ /\ ~Expired(token[c]) /\ revoker
          /\ rv' = [rv EXCEPT ![c] = "checking"]
          /\ call' = [call EXCEPT ![c] = Call(c)]
          /\ UNCHANGED why
    /\ UNCHANGED <<clockVars, storeVars, connVars, hs, done, notices, started>>

\* IsRevoked returns to checkStillValid.
CheckReturns(c) ==
    /\ rv[c] = "checking"
    /\ call[c] \in Answers
    /\ IF StillValid(c)
       THEN rv' = [rv EXCEPT ![c] = "waiting"] /\ UNCHANGED why
       ELSE rv' = [rv EXCEPT ![c] = "invalid"] /\ why' = [why EXCEPT ![c] = call[c]]
    /\ call' = AnswerTaken(c)
    /\ UNCHANGED <<clockVars, storeVars, connVars, hs, done, pending, notices,
                   checkVars, started>>

\* Mutant: Reverify goes on after onInvalid.
AfterNotice == "waiting"
Ending == "ended"

\* onInvalid, which cancels the connection's context, and the return.
Notifies(c) ==
    /\ rv[c] = "invalid"
    /\ notices' = [notices EXCEPT ![c] = @ + 1]
    /\ done' = [done EXCEPT ![c] = TRUE]
    /\ rv' = [rv EXCEPT ![c] = Ending]
    /\ pending' = [pending EXCEPT ![c] = FALSE]
    /\ UNCHANGED <<clockVars, storeVars, connVars, hs, call, why, checkVars,
                   started>>

-----------------------------------------------------------------------------
\* The peer or the application closes the connection, or gives up a handshake
\* that is not answered.
Disconnect(c) ==
    /\ hs[c] \in {"checking", "opened"}
    /\ ~done[c]
    /\ done' = [done EXCEPT ![c] = TRUE]
    /\ faulted' = [faulted EXCEPT ![c] = @ \/ call[c] = "asked"]
    /\ UNCHANGED <<clockVars, storeVars, connVars, hs, rv, pending, call, why,
                   notices, askedAt, started>>

Revoke(t) ==
    /\ revokedAt[t] = Never
    /\ revokedAt' = [revokedAt EXCEPT ![t] = now]
    /\ UNCHANGED <<clockVars, exp, store, revoker, connVars, hs, rv, done, pending,
                   call, why, notices, checkVars, started>>

StoreFaults ==
    /\ \/ store = "up" /\ store' \in {"down", "hung"}
       \/ store # "up" /\ store' = "up"
    /\ faulted' = [c \in Conn |-> faulted[c] \/ (store' = "down" /\ call[c] = "asked")]
    /\ UNCHANGED <<clockVars, exp, revokedAt, revoker, connVars, hs, rv, done,
                   pending, call, why, notices, askedAt, started>>

\* Mutant: the ticker runs at half the rate.
DueLate(c, t) == t = Horizon \/ (t > started[c] /\ (t - started[c]) % (2 * Interval) = 0)
\* A tick is due; beyond the horizon, at every step of the clock.
Due(c, t) == t = Horizon \/ (t > started[c] /\ (t - started[c]) % Interval = 0)

\* No goroutine has anything to do and no IsRevoked is under way.
Settled ==
    \A c \in Conn : /\ call[c] = "none"
                    /\ rv[c] # "invalid"
                    /\ rv[c] = "waiting" => ~pending[c] /\ ~done[c]

\* Time passes.  A ticker holds one tick and drops the others.
Tick ==
    LET t == IF now < Horizon THEN now + 1 ELSE Horizon IN
    /\ now' = t
    /\ lagged' = (lagged \/ ~Settled)
    /\ pending' = [c \in Conn |->
          pending[c] \/ (rv[c] \in {"waiting", "checking", "invalid"} /\ Due(c, t))]
    /\ UNCHANGED <<storeVars, connVars, hs, rv, done, call, why, notices, checkVars,
                   started>>

Handshake(c) == Begin(c) \/ HandshakeReturns(c)
Reverify(c) == TakesDone(c) \/ TakesTick(c) \/ CheckReturns(c) \/ Notifies(c)
Store == \E c \in Conn : StoreAnswers(c)
World ==
    \/ \E c \in Conn : StartReverify(c) \/ Disconnect(c)
    \/ \E t \in Token : Revoke(t)
    \/ StoreFaults

Next ==
    \/ \E c \in Conn : Handshake(c) \/ Reverify(c)
    \/ Store \/ World \/ Tick

Spec == Init /\ [][Next]_vars

\* The Go scheduler runs every goroutine that can run, IsRevoked answers unless
\* the store hangs and the context is live, and time passes.  The select picks at
\* random among the cases that are ready, so a context that is done is taken in
\* the end, were there a tick every time.
Fairness ==
    /\ \A c \in Conn : WF_vars(Handshake(c)) /\ WF_vars(Reverify(c))
                       /\ WF_vars(StoreAnswers(c)) /\ SF_vars(TakesDone(c))
    /\ WF_vars(Tick)

FairSpec == Spec /\ Fairness
-----------------------------------------------------------------------------
Spent(c) == Expired(token[c]) \/ (revoker /\ revokedAt[token[c]] # Never)

\* Accepted by the validator and not revoked when the checks in force began.
GoodSince(c) ==
    /\ askedAt[c] < exp[token[c]] + Leeway \/ exp[token[c]] = Horizon
    /\ revoker => revokedAt[token[c]] >= askedAt[c]

\* A connection is open only if the handshake found no fault and began before
\* the leeway ran out and no later than a revocation: what a store answers
\* slowly is not admitted on an older answer.
AdmittedWhileValid ==
    \A c \in Conn : hs[c] = "opened" /\ rv[c] = "off" => request[c] = {} /\ GoodSince(c)

\* A check never passes for a token revoked before the check began, in the
\* handshake or later: no answer of the store is used twice.
NoStalePass ==
    [][\A c \in Conn :
          \/ hs[c] = "checking" /\ hs'[c] = "opened"
          \/ rv[c] = "checking" /\ rv'[c] = "waiting"
          => revokedAt[token[c]] >= askedAt[c]]_vars

\* onInvalid is called once at most, as Reverify ends, and names what is wrong:
\* expiry when the token has expired, revocation when it is revoked, and an error
\* only if the store was down, or the connection gone, during the very check.
HonestNotice ==
    \A c \in Conn : notices[c] > 0 =>
        /\ notices[c] = 1 /\ rv[c] = "ended" /\ done[c]
        /\ \/ why[c] = "expired" /\ Expired(token[c])
           \/ why[c] = "revoked" /\ revokedAt[token[c]] # Never
           \/ why[c] = "error" /\ faulted[c]

\* While goroutines and store keep up with the clock, a supervised connection
\* outlives the expiry or the revocation of its token by less than one interval,
\* from the start of Reverify on, even if the store is down.
DroppedWithinInterval ==
    \A c \in Conn : rv[c] = "waiting" /\ Settled /\ ~lagged =>
        LET Within(event) == now < event + Interval \/ now < started[c] + Interval
        IN  /\ Within(exp[token[c]]) \/ exp[token[c]] = Horizon
            /\ revoker => Within(revokedAt[token[c]])

\* Every handshake is answered, once its client gives up at the latest, unless
\* the store hangs over and over.
HandshakeEnds ==
    \A c \in Conn :
        <>[](store # "hung" \/ done[c]) => <>(hs[c] \in {"opened", "refused"})

\* Reverify ends the supervision of every token that expires or is revoked,
\* unless the store hangs over and over: a check that hangs holds up the next.
InvalidIsDropped ==
    <>[](store # "hung") =>
        \A c \in Conn : rv[c] = "waiting" /\ Spent(c) ~> rv[c] = "ended"

\* Reverify does not outlive its connection, whatever it was doing, a check that
\* hangs included.
EndsWithConnection == \A c \in Conn : rv[c] # "off" /\ done[c] ~> rv[c] = "ended"

\* Session implements Supervision: what its clock, calls and goroutines do to a
\* connection is explained by its token and its peer.
Phase(c) ==
    IF hs[c] # "opened" THEN IF hs[c] = "refused" THEN "refused" ELSE "new"
    ELSE IF rv[c] = "off" THEN "open"
    ELSE IF rv[c] # "ended" THEN "watched"
    ELSE IF notices[c] > 0 THEN "dismissed" ELSE "left"

Promise == INSTANCE Supervision WITH
    phase <- [c \in Conn |-> Phase(c)],
    good <- [c \in Conn |-> GoodSince(c)],
    spent <- [c \in Conn |-> Spent(c)],
    unsure <- [c \in Conn |-> why[c] = "error" /\ faulted[c]],
    gone <- done
ImplementsSupervision == Promise!Spec
=============================================================================
