------------------------------ MODULE Extraction ------------------------------
(***************************************************************************)
(* Where a token is looked for in a handshake: the chain of the core       *)
(* (extractor.go), configured or by default, and the extraction of the API *)
(* Gateway adapter (apigateway/auth.go), run on the same request.          *)
(***************************************************************************)
EXTENDS Naturals, Sequences, FiniteSets, SequencesExt

\* A word is a string without commas or blanks around it, by what the code can tell
\* of it: a "bearer." or "jwt." prefix, in any case, with a blank behind it or not,
\* and the shape of the rest.  "jwt": three segments between dots, none empty;
\* "gap": three, one of them empty; "pair": two; "pairgap": two, one of them empty;
\* "bearer" and "keyword": that word ("jwt", "token").
Word == [prefixed : BOOLEAN, pad : BOOLEAN,
         body : {"jwt", "gap", "pair", "pairgap", "plain", "bearer", "keyword", "empty"}]

CONSTANTS
    Headers,    \* Authorization values, as sequences of fields
    Protocols,  \* Sec-WebSocket-Protocol values, as lists with empty entries
    Queries,    \* values of the query parameters, in the configured order
    Cookies,    \* values of the cookie, blank if there is none
    Chains      \* what Config.Extractors may be

ASSUME ExtractionAssumption ==
    /\ Headers \cup Protocols \cup Queries \subseteq Seq(Word)
    /\ Cookies \subseteq Word
    /\ Chains \subseteq Seq({"nil", "header", "protocol", "cookie"})

VARIABLES
    extractors,                               \* Config.Extractors
    authorization, protocol, query, cookie,   \* the request
    core,                                     \* what the core's ExtractToken returns
    gateway                                   \* what the adapter's returns

request == <<extractors, authorization, protocol, query, cookie>>
vars == <<request, core, gateway>>

-----------------------------------------------------------------------------
Blank == [prefixed |-> FALSE, pad |-> FALSE, body |-> "empty"]
Found(w) == <<"token", w>>
Missing == <<"missing">>
Malformed == <<"malformed">>
Unasked == <<"unasked">>

Dots(w) ==
    (IF w.body \in {"jwt", "gap"} THEN 2 ELSE IF w.body \in {"pair", "pairgap"} THEN 1 ELSE 0)
    + (IF w.prefixed THEN 1 ELSE 0)

\* Three non-empty segments: "bearer.a.b" has them too.
looksLikeJWT(w) == IF w.prefixed THEN w.body = "pair" ELSE w.body = "jwt"

IsBearer(w) == ~w.prefixed /\ w.body = "bearer"
IsKeyword(w) == ~w.prefixed /\ w.body \in {"bearer", "keyword"}
\* What follows a prefix, trimmed.
Unprefixed(w) == [w EXCEPT !.prefixed = FALSE, !.pad = FALSE]

\* The first of some words, each at the position it has in a list.
FirstWord(words) ==
    IF DOMAIN words = {} THEN Missing ELSE Found(words[Min(DOMAIN words)])

AuthorizationHeader(fields) ==
    IF fields = <<>> THEN Missing
    ELSE IF Len(fields) = 1 THEN Found(fields[1])
    ELSE IF Len(fields) = 2 /\ IsBearer(fields[1]) THEN Found(fields[2])
    ELSE Malformed

\* The entries that are not blank, at the positions they have in the list.
splitHeaderList(list) == Restrict(list, {i \in DOMAIN list : list[i] # Blank})

\* What one entry offers: itself, the entry after a keyword, or what follows
\* its prefix.
Offer(values, i) ==
    LET after == {j \in DOMAIN values : j > i}
    IN  IF looksLikeJWT(values[i]) THEN values[i]
        ELSE IF IsKeyword(values[i]) /\ after # {} THEN values[Min(after)]
        ELSE Unprefixed(values[i])

Offers(values) ==
    [i \in {j \in DOMAIN values : looksLikeJWT(Offer(values, j))} |-> Offer(values, i)]

SecWebSocketProtocol(list) ==
    LET values == splitHeaderList(list)
    IN  IF list \in {<<>>, <<Blank>>} THEN Missing
        ELSE IF DOMAIN values = {} THEN Malformed
        ELSE FirstWord(Offers(values))

\* Mutant: any error makes the chain go on.
ChainPastErrors(outcomes) ==
    LET hits == {i \in DOMAIN outcomes : outcomes[i][1] = "token"}
    IN  IF hits = {} THEN Missing
        ELSE outcomes[Min(hits)]

\* The first outcome but ErrTokenMissing, a malformed header included.
ChainExtractors(outcomes) ==
    LET hits == {i \in DOMAIN outcomes : outcomes[i] # Missing}
    IN  IF hits = {} THEN Missing
        ELSE outcomes[Min(hits)]

CookieToken == IF cookie = Blank THEN Missing ELSE Found(cookie)

DefaultExtractor == <<"header", "protocol">>

\* Mutant: a chain with a nil in it is taken for unconfigured.
ChainUnlessNil ==
    IF "nil" \in ToSet(extractors) \/ extractors = <<>> THEN DefaultExtractor ELSE extractors
\* What is not nil of the configured chain, each at its position, or else the
\* default.
Chain ==
    LET filtered == {i \in DOMAIN extractors : extractors[i] # "nil"}
    IN  IF filtered = {} THEN DefaultExtractor ELSE Restrict(extractors, filtered)

Extracted(x) ==
    CASE x = "header" -> AuthorizationHeader(authorization)
      [] x = "protocol" -> SecWebSocketProtocol(protocol)
      [] x = "cookie" -> CookieToken
CoreToken == ChainExtractors([i \in DOMAIN Chain |-> Extracted(Chain[i])])

\* The adapter passes over a header it cannot read.
bearerToken(fields) ==
    IF Len(fields) = 2 /\ IsBearer(fields[1]) THEN Found(fields[2])
    ELSE IF Len(fields) = 1 /\ Dots(fields[1]) = 2 THEN Found(fields[1])
    ELSE Missing

\* Mutant: the prefix stays.
GatewayOfferWhole(w) == w
GatewayOffer(w) == IF Dots(w) = 2 THEN w ELSE Unprefixed(w)

\* It counts dots only.
subprotocolToken(list) ==
    FirstWord([i \in {j \in DOMAIN list : Dots(GatewayOffer(list[j])) = 2}
                   |-> GatewayOffer(list[i])])

QueryToken(values) == FirstWord(Restrict(values, {i \in DOMAIN values : values[i] # Blank}))

GatewayToken ==
    ChainExtractors(<<bearerToken(authorization), QueryToken(query),
                      subprotocolToken(protocol)>>)

Init ==
    /\ extractors \in Chains
    /\ cookie \in Cookies
    /\ authorization \in Headers
    /\ protocol \in Protocols
    /\ query \in Queries
    /\ core = Unasked
    /\ gateway = Unasked

AskCore == core = Unasked /\ core' = CoreToken /\ UNCHANGED <<request, gateway>>
AskGateway == gateway = Unasked /\ gateway' = GatewayToken /\ UNCHANGED <<request, core>>

Next == AskCore \/ AskGateway
Spec == Init /\ [][Next]_vars
-----------------------------------------------------------------------------
Asked == core # Unasked /\ gateway # Unasked
Usable(outcome) == outcome[1] = "token" /\ looksLikeJWT(outcome[2])
Plain == ToSet(extractors) \subseteq {"nil"}

\* The adapter finds a token wherever a core without extractors of its own finds
\* one, and the same if the client sends no query token and no entry with an empty
\* segment.  The other way round, a token that the adapter finds in the headers the
\* core finds too, unless it answers from an Authorization header that is of no
\* use, which the adapter passes over.
SameToken ==
    Asked /\ Plain =>
        /\ Usable(core) =>
              /\ gateway # Missing
              /\ /\ QueryToken(query) = Missing
                 /\ \A i \in DOMAIN protocol : protocol[i].body \notin {"gap", "pairgap"}
                 => gateway = core
        /\ Usable(gateway) /\ QueryToken(query) = Missing =>
              \/ core = gateway
              \/ /\ core = AuthorizationHeader(authorization)
                 /\ core # Missing /\ ~Usable(core)

\* In a core that asks the Authorization header first it decides alone: a
\* malformed one is never covered up by a token of the subprotocol header, nor
\* by the cookie a browser sends by itself.
HeaderDecides ==
    core # Unasked /\ authorization # <<>> /\ Chain[Min(DOMAIN Chain)] = "header" =>
        core = AuthorizationHeader(authorization)

\* Only configured carriers count, each in its turn: nil entries neither bring
\* the default carriers back nor take configured ones away, and the first carrier
\* with anything in it decides.  Where all are nil the default ones count.
ConfiguredOnly ==
    LET Configured == {i \in DOMAIN extractors : extractors[i] # "nil"}
        Outcome(i) == Extracted(extractors[i])
    IN  core # Unasked =>
            IF Configured = {}
            THEN core = IF authorization # <<>> THEN AuthorizationHeader(authorization)
                        ELSE SecWebSocketProtocol(protocol)
            ELSE \/ core = Missing /\ \A i \in Configured : Outcome(i) = Missing
                 \/ \E i \in Configured :
                       /\ core = Outcome(i) /\ core # Missing
                       /\ \A j \in Configured : j < i => Outcome(j) = Missing
=============================================================================
