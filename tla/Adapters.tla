------------------------------- MODULE Adapters -------------------------------
(***************************************************************************)
(* One handshake through each front end: Auth.Authenticate (auth.go) with  *)
(* its origin check (origin.go), then Middleware of the core               *)
(* (middleware.go) or of the gin, echo and fiber adapters; and the API     *)
(* Gateway adapter (apigateway/) under a connect handler like its example. *)
(* Where a token is found is the business of Extraction, when it is valid  *)
(* that of Validation and Session: here a request has faults.              *)
(***************************************************************************)
EXTENDS Naturals, Sequences, FiniteSets, SequencesExt

CONSTANTS
    FrontEnds,   \* a subset of "http", "gin", "echo", "fiber", "gateway"
    Claims,      \* the claims a valid token carries
    Faults,      \* what can be wrong with a request: sets of Fault
    Origins,     \* Origin headers
    Allowlists,  \* arguments of AllowedOrigins: sets of origins
    Handlers     \* error handlers: what they write, or NoHandler

\* No token, a malformed header, an invalid token, a Revoker that fails, a
\* revoked token.
Fault == {"missing", "malformed", "invalid", "store", "revoked"}

\* An origin is a URL with scheme and host or another string, its "host" alone;
\* with capitals or not, blanks around it or not, and slashes at its end.  A URL
\* may have something extra: userinfo, a path, a query or a fragment.
Origin == [scheme : {"", "http", "https"}, host : STRING, upper : BOOLEAN,
           pad : BOOLEAN, extra : BOOLEAN, slashes : Nat]

\* A header line: its key, and its value by number.
Header == STRING \X Nat

ASSUME AdaptersAssumption ==
    /\ FrontEnds \subseteq {"http", "gin", "echo", "fiber", "gateway"}
    /\ Faults \subseteq SUBSET Fault
    /\ Origins \subseteq Origin /\ Allowlists \subseteq SUBSET Origin
    /\ Handlers \subseteq [status : Nat, headers : Seq(Header)]

VARIABLES
    front,      \* the front end at work
    allowed,    \* the origins its Auth allows
    origin,     \* the request's Origin header
    faults,     \* what else is wrong with the request
    identity,   \* the claims of its token
    handler,    \* what the configured error handler writes: status and headers
    pc,         \* "start", "asked", "rejecting", "returned", "done"
    aborted,    \* gin's Context has been told to abort
    result,     \* what Authenticate returns: <<"claims", c>> or <<"error", kind>>
    reports,    \* the calls of OnAuthResult
    recorded,   \* fiber's recorder: the headers still to be copied
    response,   \* what the client gets, NoResponse while there is nothing
    context     \* the claims the next handler found, as a set; it ran if not {}

callVars == <<front, allowed, origin, faults, identity, handler>>
vars == <<callVars, pc, aborted, result, reports, recorded, response, context>>

-----------------------------------------------------------------------------
\* Mutant: capitals count.
normalizeOriginCased(o) ==
    IF o.scheme # "" THEN [o EXCEPT !.pad = FALSE, !.extra = FALSE, !.slashes = 0]
    ELSE [o EXCEPT !.pad = FALSE, !.slashes = IF @ = 0 THEN 0 ELSE @ - 1]
\* Of a URL scheme and host are kept, another string loses one slash.
normalizeOrigin(o) ==
    IF o.scheme # ""
    THEN [o EXCEPT !.pad = FALSE, !.upper = FALSE, !.extra = FALSE, !.slashes = 0]
    ELSE [o EXCEPT !.pad = FALSE, !.upper = FALSE, !.slashes = IF @ = 0 THEN 0 ELSE @ - 1]

NoOrigin(o) == o.scheme = "" /\ o.host = "" /\ o.slashes = 0
ValidateOrigin ==
    NoOrigin(origin) \/ normalizeOrigin(origin) \in {normalizeOrigin(o) : o \in allowed}

\* The checks of Authenticate, in order.  The gateway's has no origin check and
\* no Revoker, and passes over a malformed header.
Checks ==
    IF front = "gateway" THEN <<"missing", "invalid">>
    ELSE <<"origin", "missing", "malformed", "invalid", "store", "revoked">>

Fails(check) ==
    \/ check \in faults
    \/ check = "origin" /\ ~ValidateOrigin
    \/ check = "missing" /\ front = "gateway" /\ "malformed" \in faults

Failing == {i \in DOMAIN Checks : Fails(Checks[i])}

\* None is configured.
NoHandler == [status |-> 0, headers |-> <<>>]

\* What the client gets has its header lines in no order.
NoResponse == [status |-> 0, headers |-> {}, body |-> "none"]
Sent(written) == [written EXCEPT !.headers = ToSet(@)]
Unauthorized(body) == [status |-> 401, headers |-> <<>>, body |-> body]

DefaultErrorHandler(kind) ==
    Unauthorized(IF kind \in {"malformed", "missing", "invalid"} THEN kind
                 ELSE "unauthorized")
UnauthorizedResponse(kind) ==
    Unauthorized(IF kind \in {"missing", "malformed", "invalid"} THEN kind
                 ELSE "unauthorized")

Written(kind) ==
    IF handler = NoHandler THEN DefaultErrorHandler(kind)
    ELSE [status |-> handler.status, headers |-> handler.headers, body |-> "custom"]

Init ==
    /\ front \in FrontEnds
    /\ allowed \in Allowlists
    /\ origin \in Origins
    /\ faults \in Faults
    /\ identity \in Claims
    /\ handler \in Handlers
    /\ pc = "start"
    /\ aborted = FALSE
    /\ result = <<"none">>
    /\ reports = <<>>
    /\ recorded = <<>>
    /\ response = NoResponse
    /\ context = {}

-----------------------------------------------------------------------------
\* The first check that fails decides; OnAuthResult, which the gateway has not,
\* is called before the return.
Authenticate ==
    /\ pc = "start"
    /\ result' = IF Failing = {} THEN <<"claims", identity>>
                 ELSE <<"error", Checks[Min(Failing)]>>
    /\ reports' = IF front = "gateway" THEN reports ELSE Append(reports, result')
    /\ pc' = "asked"
    /\ UNCHANGED <<callVars, aborted, recorded, response, context>>

Rejecting(fronts) == pc = "asked" /\ result[1] = "error" /\ front \in fronts

\* net/http and echo: the error handler writes on the framework's own writer,
\* and the middleware returns without a call of the next handler.
HandleError ==
    /\ Rejecting({"http", "echo"})
    /\ response' = Sent(Written(result[2]))
    /\ pc' = "done"
    /\ UNCHANGED <<callVars, aborted, result, reports, recorded, context>>

\* The gateway's connect handler returns the package's response.
Respond ==
    /\ Rejecting({"gateway"})
    /\ response' = Sent(UnauthorizedResponse(result[2]))
    /\ pc' = "done"
    /\ UNCHANGED <<callVars, aborted, result, reports, recorded, context>>

\* gin: the same writing, after which the engine calls the next handler by itself ...
HandleErrorOfGin ==
    /\ Rejecting({"gin"})
    /\ response' = Sent(Written(result[2]))
    /\ pc' = "rejecting"
    /\ UNCHANGED <<callVars, aborted, result, reports, recorded, context>>

\* Mutant: ... for it is not told to abort.
AbortForgotten ==
    /\ front = "gin" /\ pc = "rejecting"
    /\ pc' = "returned"
    /\ UNCHANGED <<callVars, aborted, result, reports, recorded, response, context>>
\* ... unless it is told to abort.
Abort ==
    /\ front = "gin" /\ pc = "rejecting"
    /\ aborted' = TRUE
    /\ pc' = "returned"
    /\ UNCHANGED <<callVars, result, reports, recorded, response, context>>

\* The loop of gin's engine; a handler it calls now finds no claims.
NoClaims == <<>>
EngineGoesOn ==
    /\ pc = "returned"
    /\ context' = IF aborted THEN {} ELSE {NoClaims}
    /\ pc' = "done"
    /\ UNCHANGED <<callVars, aborted, result, reports, recorded, response>>

\* fiber has no http.ResponseWriter: the handler writes into a recorder, whose
\* status is taken over first.
Record ==
    /\ Rejecting({"fiber"})
    /\ recorded' = Written(result[2]).headers
    /\ response' = [NoResponse EXCEPT !.status = Written(result[2]).status]
    /\ pc' = "rejecting"
    /\ UNCHANGED <<callVars, aborted, result, reports, context>>

\* Mutant: the first value of a key stays.
CopyHeaderOnce ==
    /\ front = "fiber" /\ pc = "rejecting" /\ recorded # <<>>
    /\ response' = [response EXCEPT !.headers =
                       IF \E line \in @ : line[1] = Head(recorded)[1] THEN @
                       ELSE @ \cup {Head(recorded)}]
    /\ recorded' = Tail(recorded)
    /\ UNCHANGED <<callVars, pc, aborted, result, reports, context>>

\* c.Set replaces what the response holds under the key.
CopyHeader ==
    /\ front = "fiber" /\ pc = "rejecting" /\ recorded # <<>>
    /\ response' = [response EXCEPT !.headers =
                       {line \in @ : line[1] # Head(recorded)[1]} \cup {Head(recorded)}]
    /\ recorded' = Tail(recorded)
    /\ UNCHANGED <<callVars, pc, aborted, result, reports, context>>

\* The recorded body follows, and the middleware returns.
SendString ==
    /\ front = "fiber" /\ pc = "rejecting" /\ recorded = <<>>
    /\ response' = [response EXCEPT !.body = Written(result[2]).body]
    /\ pc' = "done"
    /\ UNCHANGED <<callVars, aborted, result, reports, recorded, context>>

\* The next handler runs, with the claims in the request's context, for fiber
\* in its locals.
RunNext ==
    /\ pc = "asked" /\ result[1] = "claims"
    /\ context' = {result[2]}
    /\ pc' = "done"
    /\ UNCHANGED <<callVars, aborted, result, reports, recorded, response>>

Next == Authenticate \/ RunNext \/ HandleError \/ Respond
        \/ HandleErrorOfGin \/ Abort \/ EngineGoesOn
        \/ Record \/ CopyHeader \/ SendString

Spec == Init /\ [][Next]_vars
-----------------------------------------------------------------------------
\* A handshake ends in one of two ways in every front end: the next handler runs
\* with the token's claims and nothing has been written, or the client is
\* answered and it does not run; OnAuthResult was told which, once.
SameDecision ==
    pc = "done" =>
        /\ IF context # {} THEN context = {identity} /\ response = NoResponse
                           ELSE result[1] = "error" /\ response # NoResponse
        /\ front # "gateway" =>
              Len(reports) = 1 /\ (reports[1][1] = "claims" <=> context # {})

\* origin.go:27-29: scheme and host in any case, a trailing slash ignored, and
\* for the rest exactly the same.
ExactOrigin(a, b) ==
    /\ a.scheme = b.scheme /\ a.host = b.host /\ a.extra = b.extra
    /\ a.slashes = b.slashes \/ {a.slashes, b.slashes} = {0, 1}

\* A request passes if nothing is wrong with it that its front end checks, and
\* only if so: its origin is surely right if it matches a configured one exactly,
\* or if it has none, and surely wrong if no configured one has its scheme and host.
PassesIfRight ==
    pc = "done" =>
        IF front = "gateway"
        THEN context # {} <=> faults \cap {"missing", "malformed", "invalid"} = {}
        ELSE /\ faults = {} /\ (NoOrigin(origin) \/ \E o \in allowed : ExactOrigin(o, origin))
                => context # {}
             /\ context # {} =>
                   /\ faults = {}
                   /\ \/ NoOrigin(origin)
                      \/ \E o \in allowed : o.scheme = origin.scheme /\ o.host = origin.host

\* origin.go:27-29: an origin that passes matches a configured one exactly.
OriginsExact ==
    pc = "done" /\ context # {} /\ front # "gateway" =>
        NoOrigin(origin) \/ \E o \in allowed : ExactOrigin(o, origin)

\* A rejected client gets the last value of every header the handler wrote.
LastValuesArrive ==
    pc = "done" /\ context = {} /\ front # "gateway" =>
        LET headers == Written(result[2]).headers IN
        \A i \in DOMAIN headers :
            (\A j \in i + 1..Len(headers) : headers[j][1] # headers[i][1])
            => headers[i] \in response.headers

\* adapters/fiber/fiber.go:23-24: the response of a rejected request is the one
\* the configured ErrorHandler writes, all its header values included.
WholeResponseArrives ==
    pc = "done" /\ context = {} =>
        ToSet(Written(result[2]).headers) \subseteq response.headers
=============================================================================
