--------------------------- MODULE ExtractionProofs ---------------------------
(***************************************************************************)
(* Proofs about Extraction, for any headers, query values, cookies and     *)
(* chains, of any length: which carrier decides, and that the two          *)
(* extractors agree.                                                       *)
(***************************************************************************)
EXTENDS Extraction, SequenceTheorems, WellFoundedInduction, TLAPS

TypeOK ==
    /\ extractors \in Chains /\ cookie \in Cookies
    /\ authorization \in Headers /\ protocol \in Protocols /\ query \in Queries

\* Either extractor has not been asked, or returned what it finds in the request.
Answered ==
    /\ core # Unasked => core = CoreToken
    /\ gateway # Unasked => gateway = GatewayToken

IInv == TypeOK /\ Answered
-----------------------------------------------------------------------------
\* Nobody has been asked at first.
LEMMA InitInv == Init => IInv
  BY DEF Init, IInv, TypeOK, Answered

\* Each extractor reads the request and leaves it as it is.
LEMMA NextInv == IInv /\ [Next]_vars => IInv'
<1> SUFFICES ASSUME IInv, [Next]_vars PROVE IInv'
  OBVIOUS
<1>1. UNCHANGED <<extractors, authorization, protocol, query, cookie>>
  BY DEF Next, AskCore, AskGateway, vars, request
<1>2. TypeOK'
  BY <1>1 DEF IInv, TypeOK
<1>3. CoreToken' = CoreToken
  <2>1. Chain' = Chain
    BY <1>1 DEF Chain
  <2>2. \A x : Extracted(x)' = Extracted(x)
    BY <1>1 DEF Extracted, CookieToken
  <2> QED
    BY <2>1, <2>2 DEF CoreToken
<1>4. GatewayToken' = GatewayToken
  BY <1>1 DEF GatewayToken
<1>5. \/ core' = CoreToken /\ UNCHANGED gateway
      \/ gateway' = GatewayToken /\ UNCHANGED core
      \/ UNCHANGED <<core, gateway>>
  BY DEF Next, AskCore, AskGateway, vars
<1>6. Answered'
  BY <1>3, <1>4, <1>5 DEF IInv, Answered
<1> QED
  BY <1>2, <1>6 DEF IInv

\* In every reachable state an answer is what the extractor finds in the request.
THEOREM Invariant == Spec => []IInv
<1> QED
  BY InitInv, NextInv, PTL DEF Spec
-----------------------------------------------------------------------------
\* A set of positions that is not empty has a first one.
LEMMA Least ==
    ASSUME NEW S \in SUBSET Nat, S # {}
    PROVE  Min(S) \in S /\ \A n \in S : Min(S) <= n
<1>1. PICK m \in S : \A n \in S : <<n, m>> \notin OpToRel(<, Nat)
  BY WFMin, NatLessThanWellFounded, Zenon
<1>2. \A n \in S : ~(n < m)
  BY <1>1, Zenon DEF OpToRel
<1>3. \A n \in S : m <= n
  BY <1>2
<1> QED
  BY <1>3 DEF Min

\* A chain stands at positions.
LEMMA ChainType ==
    ASSUME TypeOK
    PROVE  DOMAIN Chain \in SUBSET Nat /\ DOMAIN Chain # {}
<1>1. extractors \in Seq({"nil", "header", "protocol", "cookie"})
  BY ExtractionAssumption DEF TypeOK
<1>2. DOMAIN extractors \subseteq Nat
  BY <1>1, LenProperties
<1>3. DOMAIN DefaultExtractor = {1, 2}
  BY DEF DefaultExtractor
<1> QED
  BY <1>2, <1>3 DEF Chain, Restrict

\* The outcome of a chain is that of its first entry which does not miss.
LEMMA FirstDecides ==
    ASSUME NEW outcomes, DOMAIN outcomes \in SUBSET Nat
    PROVE  \/ /\ ChainExtractors(outcomes) = Missing
              /\ \A i \in DOMAIN outcomes : outcomes[i] = Missing
           \/ \E i \in DOMAIN outcomes :
                 /\ ChainExtractors(outcomes) = outcomes[i] /\ outcomes[i] # Missing
                 /\ \A j \in DOMAIN outcomes : j < i => outcomes[j] = Missing
<1> DEFINE hits == {i \in DOMAIN outcomes : outcomes[i] # Missing}
<1>1. CASE hits = {}
  BY <1>1 DEF ChainExtractors
<1>2. CASE hits # {}
  <2>1. Min(hits) \in hits /\ \A n \in hits : Min(hits) <= n
    BY <1>2, Least
  <2>2. ChainExtractors(outcomes) = outcomes[Min(hits)]
    BY <1>2 DEF ChainExtractors
  <2>3. \A j \in DOMAIN outcomes : j < Min(hits) => outcomes[j] = Missing
    <3> SUFFICES ASSUME NEW j \in DOMAIN outcomes, j < Min(hits), outcomes[j] # Missing
                 PROVE  FALSE
      OBVIOUS
    <3>1. j \in hits /\ j \in Nat /\ Min(hits) \in Nat
      BY <2>1
    <3> HIDE DEF hits
    <3> QED
      BY <2>1, <3>1
  <2> QED
    BY <2>1, <2>2, <2>3
<1> QED
  BY <1>1, <1>2

\* extractor.go:41-62: where the Authorization header comes first and is there,
\* nothing else in the request counts, however long the chain.
THEOREM Header == Spec => []HeaderDecides
<1>1. IInv => HeaderDecides
  <2> SUFFICES ASSUME IInv, core # Unasked, authorization # <<>>,
                      Chain[Min(DOMAIN Chain)] = "header"
               PROVE  core = AuthorizationHeader(authorization)
    BY DEF HeaderDecides
  <2> DEFINE outcomes == [i \in DOMAIN Chain |-> Extracted(Chain[i])]
             first == Min(DOMAIN Chain)
  <2>1. core = ChainExtractors(outcomes)
    BY DEF IInv, Answered, CoreToken
  <2>2. DOMAIN outcomes = DOMAIN Chain /\ DOMAIN Chain \in SUBSET Nat
    BY ChainType DEF IInv
  <2>3. first \in DOMAIN Chain /\ \A n \in DOMAIN Chain : first <= n
    BY ChainType, Least DEF IInv
  <2>4. outcomes[first] = AuthorizationHeader(authorization)
    BY <2>3 DEF Extracted
  <2>5. AuthorizationHeader(authorization) # Missing
    BY DEF AuthorizationHeader, Found, Missing, Malformed
  <2> HIDE DEF outcomes, first
  <2>6. PICK i \in DOMAIN outcomes :
           /\ ChainExtractors(outcomes) = outcomes[i]
           /\ \A j \in DOMAIN outcomes : j < i => outcomes[j] = Missing
    BY <2>2, <2>3, <2>4, <2>5, FirstDecides
  <2>7. i = first
    <3>1. i \in Nat /\ first \in Nat /\ first <= i /\ ~(first < i)
      BY <2>2, <2>3, <2>4, <2>5, <2>6
    <3> QED
      BY <3>1
  <2> QED
    BY <2>1, <2>4, <2>6, <2>7
<1> QED
  BY <1>1, Invariant, PTL

-----------------------------------------------------------------------------
\* What the adapter takes for a token.
Carrier(w) == Dots(GatewayOffer(w)) = 2

\* Three non-empty segments are two dots, and no keyword.
LEMMA TwoDots ==
    ASSUME NEW w \in Word, looksLikeJWT(w)
    PROVE  Dots(w) = 2 /\ GatewayOffer(w) = w /\ Carrier(w) /\ ~IsKeyword(w) /\ w # Blank
<1>1. Dots(w) = 2
  BY DEF Word, looksLikeJWT, Dots
<1>2. GatewayOffer(w) = w
  BY <1>1 DEF GatewayOffer
<1>3. ~IsKeyword(w) /\ w # Blank
  BY DEF looksLikeJWT, IsKeyword, Blank
<1> QED
  BY <1>1, <1>2, <1>3 DEF Carrier

\* What the core takes from behind a prefix, the adapter takes too.
LEMMA BehindPrefix ==
    ASSUME NEW w \in Word, looksLikeJWT(Unprefixed(w))
    PROVE  Carrier(w)
<1>1. w.body = "jwt" /\ w.prefixed \in BOOLEAN
  BY DEF Word, looksLikeJWT, Unprefixed
<1>2. Dots(Unprefixed(w)) = 2
  BY <1>1 DEF Word, Dots, Unprefixed
<1>3. CASE w.prefixed
  BY <1>1, <1>2, <1>3 DEF Dots, GatewayOffer, Carrier
<1>4. CASE ~w.prefixed
  BY <1>1, <1>4 DEF Dots, GatewayOffer, Carrier
<1> QED
  BY <1>1, <1>3, <1>4

\* The core takes from an entry what the adapter takes from it, if that is of use.
LEMMA OfferOf ==
    ASSUME NEW w \in Word, looksLikeJWT(GatewayOffer(w))
    PROVE  /\ w # Blank /\ ~IsKeyword(w) /\ Carrier(w)
           /\ GatewayOffer(w) = IF looksLikeJWT(w) THEN w ELSE Unprefixed(w)
<1>1. CASE looksLikeJWT(w)
  BY <1>1, TwoDots
<1>2. CASE ~looksLikeJWT(w)
  <2>1. GatewayOffer(w) = Unprefixed(w)
    BY <1>2 DEF GatewayOffer
  <2>2. Unprefixed(w).prefixed = FALSE /\ Unprefixed(w).body = w.body
    BY DEF Word, Unprefixed
  <2>3. w.body = "jwt"
    BY <2>1, <2>2 DEF looksLikeJWT
  <2>4. Carrier(w)
    BY <2>1, BehindPrefix
  <2> QED
    BY <1>2, <2>1, <2>3, <2>4 DEF IsKeyword, Blank
<1> QED
  BY <1>1, <1>2

\* Without an empty segment what the adapter takes is of use.
LEMMA NoGap ==
    ASSUME NEW w \in Word, Carrier(w), w.body \notin {"gap", "pairgap"}
    PROVE  looksLikeJWT(GatewayOffer(w))
<1>1. w.prefixed \in BOOLEAN
      /\ w.body \in {"jwt", "pair", "plain", "bearer", "keyword", "empty"}
  BY DEF Word
<1>2. /\ Unprefixed(w).prefixed = FALSE
      /\ Unprefixed(w).body = w.body
  BY DEF Word, Unprefixed
<1>3. CASE Dots(w) = 2
  BY <1>1, <1>3 DEF Dots, looksLikeJWT, GatewayOffer
<1>4. CASE Dots(w) # 2
  <2>1. GatewayOffer(w) = Unprefixed(w) /\ Dots(Unprefixed(w)) = 2
    BY <1>4 DEF GatewayOffer, Carrier
  <2>2. w.body = "jwt"
    BY <1>1, <1>2, <2>1 DEF Dots
  <2> QED
    BY <1>2, <2>1, <2>2 DEF looksLikeJWT
<1> QED
  BY <1>3, <1>4

\* The positions at which the core finds a token in a list, and the adapter.
CoreHits(values) == {i \in DOMAIN values : looksLikeJWT(Offer(values, i))}
GatewayHits(list) == {i \in DOMAIN list : Carrier(list[i])}

\* Where the core finds a token the adapter finds one, in the same entry or, if
\* that is a keyword, in the next.
LEMMA FoundByBoth ==
    ASSUME NEW list \in Seq(Word), NEW i \in CoreHits(splitHeaderList(list))
    PROVE  LET values == splitHeaderList(list)
               after == {j \in DOMAIN values : j > i}
           IN  \/ i \in GatewayHits(list)
               \/ /\ after # {} /\ Min(after) \in GatewayHits(list)
                  /\ looksLikeJWT(list[Min(after)])
                  /\ Offer(values, i) = list[Min(after)]
<1> DEFINE values == splitHeaderList(list)
           after == {j \in DOMAIN values : j > i}
<1>1. /\ DOMAIN values \subseteq DOMAIN list /\ DOMAIN list \subseteq Nat
      /\ \A j \in DOMAIN values : values[j] = list[j]
  BY LenProperties DEF splitHeaderList, Restrict
<1>2. \A j \in DOMAIN list : list[j] \in Word
  OBVIOUS
<1>3. i \in DOMAIN values /\ looksLikeJWT(Offer(values, i))
  BY DEF CoreHits
<1>4. Offer(values, i) = IF looksLikeJWT(values[i]) THEN values[i]
                         ELSE IF IsKeyword(values[i]) /\ after # {} THEN values[Min(after)]
                         ELSE Unprefixed(values[i])
  BY DEF Offer
<1> HIDE DEF values
<1>5. CASE looksLikeJWT(list[i])
  BY <1>1, <1>2, <1>3, <1>5, TwoDots DEF GatewayHits
<1>6. CASE ~looksLikeJWT(list[i]) /\ IsKeyword(list[i]) /\ after # {}
  <2>1. Min(after) \in after
    BY <1>1, <1>6, Least
  <2>2. Min(after) \in DOMAIN list /\ values[Min(after)] = list[Min(after)]
    BY <1>1, <2>1
  <2>3. Offer(values, i) = list[Min(after)]
    BY <1>1, <1>3, <1>4, <1>6, <2>2
  <2>4. looksLikeJWT(list[Min(after)])
    BY <1>3, <2>3
  <2> QED
    BY <1>2, <1>6, <2>2, <2>3, <2>4, TwoDots DEF GatewayHits, values
<1>7. CASE ~looksLikeJWT(list[i]) /\ ~(IsKeyword(list[i]) /\ after # {})
  <2>1. Offer(values, i) = Unprefixed(list[i])
    BY <1>1, <1>3, <1>4, <1>7
  <2> QED
    BY <1>1, <1>2, <1>3, <2>1, BehindPrefix DEF GatewayHits
<1> QED
  BY <1>5, <1>6, <1>7

\* If the first entry that the adapter takes is of use, it is what the core takes.
LEMMA SameFirst ==
    ASSUME NEW list \in Seq(Word), GatewayHits(list) # {},
           looksLikeJWT(GatewayOffer(list[Min(GatewayHits(list))]))
    PROVE  /\ CoreHits(splitHeaderList(list)) # {}
           /\ GatewayOffer(list[Min(GatewayHits(list))])
                = Offer(splitHeaderList(list), Min(CoreHits(splitHeaderList(list))))
<1> DEFINE values == splitHeaderList(list)
           H == CoreHits(values)
           G == GatewayHits(list)
           h == Min(H)
           g == Min(G)
           after == {j \in DOMAIN values : j > h}
<1>1. /\ DOMAIN list \subseteq Nat /\ \A j \in DOMAIN list : list[j] \in Word
      /\ DOMAIN values = {j \in DOMAIN list : list[j] # Blank}
      /\ \A j \in DOMAIN values : values[j] = list[j]
  BY LenProperties DEF splitHeaderList, Restrict
<1>2. H \in SUBSET Nat /\ G \in SUBSET Nat
  BY <1>1 DEF CoreHits, GatewayHits
<1>3. g \in G /\ \A n \in G : g <= n
  BY <1>2, Least
<1>4. g \in H /\ Offer(values, g) = GatewayOffer(list[g])
  <2>1. g \in DOMAIN list /\ list[g] \in Word
    BY <1>1, <1>3 DEF GatewayHits
  <2>2. g \in DOMAIN values /\ values[g] = list[g]
    BY <1>1, <2>1, OfferOf
  <2>3. Offer(values, g) = IF looksLikeJWT(list[g]) THEN list[g] ELSE Unprefixed(list[g])
    BY <2>1, <2>2, OfferOf DEF Offer
  <2> QED
    BY <2>1, <2>2, <2>3, OfferOf DEF CoreHits
<1>5. h \in H /\ \A n \in H : h <= n
  BY <1>2, <1>4, Least
<1>6. \/ h \in G
      \/ /\ after # {} /\ Min(after) \in G
         /\ looksLikeJWT(list[Min(after)])
         /\ Offer(values, h) = list[Min(after)]
  BY <1>5, FoundByBoth
<1>7. h \in Nat /\ g \in Nat /\ h <= g
  BY <1>2, <1>3, <1>4, <1>5
<1>8. CASE h \in G
  <2>1. g = h
    BY <1>3, <1>7, <1>8
  <2> QED
    BY <1>4, <2>1
<1>9. CASE h \notin G
  <2>1. /\ after # {} /\ Min(after) \in G
        /\ looksLikeJWT(list[Min(after)])
        /\ Offer(values, h) = list[Min(after)]
    BY <1>6, <1>9
  <2>2. g > h /\ g \in DOMAIN values
    <3>1. g # h
      BY <1>3, <1>9
    <3>2. g \in DOMAIN values
      BY <1>4 DEF CoreHits
    <3> QED
      BY <1>7, <3>1, <3>2
  <2>3. g = Min(after)
    <3>1. after \in SUBSET Nat /\ g \in after
      BY <1>1, <2>2
    <3>2. Min(after) \in Nat /\ Min(after) <= g
      BY <3>1, Least
    <3>3. g <= Min(after)
      BY <1>3, <2>1
    <3> QED
      BY <1>7, <3>2, <3>3
  <2>4. GatewayOffer(list[g]) = list[g]
    <3>1. list[g] \in Word
      BY <1>1, <1>3 DEF GatewayHits
    <3> QED
      BY <2>1, <2>3, <3>1, TwoDots
  <2> QED
    BY <1>4, <2>1, <2>3, <2>4
<1> QED
  BY <1>8, <1>9

\* The default chain asks the Authorization header, then the subprotocols.
LEMMA ByDefault ==
    ASSUME TypeOK, Plain
    PROVE  CoreToken = IF AuthorizationHeader(authorization) # Missing
                       THEN AuthorizationHeader(authorization)
                       ELSE SecWebSocketProtocol(protocol)
<1>1. {i \in DOMAIN extractors : extractors[i] # "nil"} = {}
  BY DEF Plain, ToSet
<1>2. Chain = <<"header", "protocol">>
  BY <1>1 DEF Chain, DefaultExtractor
<1> DEFINE outcomes == [i \in DOMAIN Chain |-> Extracted(Chain[i])]
<1>3. /\ DOMAIN outcomes = {1, 2}
      /\ outcomes[1] = AuthorizationHeader(authorization)
      /\ outcomes[2] = SecWebSocketProtocol(protocol)
  BY <1>2 DEF Extracted
<1>4. CoreToken = ChainExtractors(outcomes)
  BY DEF CoreToken
<1> HIDE DEF outcomes
<1> QED
  BY <1>3, <1>4, FirstDecides

\* extractor.go:28-39, 41-62: for any chain, nil entries or not, the first of the
\* configured carriers with anything in it decides, and without one the default.
THEOREM Configured == Spec => []ConfiguredOnly
<1>1. IInv => ConfiguredOnly
  <2> DEFINE filtered == {i \in DOMAIN extractors : extractors[i] # "nil"}
             outcomes == [i \in DOMAIN Chain |-> Extracted(Chain[i])]
  <2> SUFFICES ASSUME IInv, core # Unasked
               PROVE  IF filtered = {}
                      THEN core = IF authorization # <<>>
                                  THEN AuthorizationHeader(authorization)
                                  ELSE SecWebSocketProtocol(protocol)
                      ELSE \/ /\ core = Missing
                              /\ \A i \in filtered : Extracted(extractors[i]) = Missing
                           \/ \E i \in filtered :
                                 /\ core = Extracted(extractors[i]) /\ core # Missing
                                 /\ \A j \in filtered :
                                       j < i => Extracted(extractors[j]) = Missing
    BY DEF ConfiguredOnly
  <2>1. core = CoreToken /\ TypeOK
    BY DEF IInv, Answered
  <2>2. CASE filtered = {}
    <3>1. Plain
      BY <2>2 DEF Plain, ToSet
    <3>2. AuthorizationHeader(authorization) # Missing <=> authorization # <<>>
      BY DEF AuthorizationHeader, Found, Missing, Malformed
    <3> QED
      BY <2>1, <2>2, <3>1, <3>2, ByDefault
  <2>3. CASE filtered # {}
    <3>1. DOMAIN Chain = filtered /\ \A i \in filtered : Chain[i] = extractors[i]
      BY <2>3 DEF Chain, Restrict
    <3>2. /\ DOMAIN outcomes = filtered /\ DOMAIN outcomes \in SUBSET Nat
          /\ \A i \in filtered : outcomes[i] = Extracted(extractors[i])
      BY <2>1, <3>1, ChainType
    <3>3. core = ChainExtractors(outcomes)
      BY <2>1 DEF CoreToken
    <3> HIDE DEF outcomes, filtered
    <3>4. CASE core = Missing /\ \A i \in DOMAIN outcomes : outcomes[i] = Missing
      BY <2>3, <3>2, <3>4
    <3>5. CASE \E i \in DOMAIN outcomes :
                  /\ core = outcomes[i] /\ outcomes[i] # Missing
                  /\ \A j \in DOMAIN outcomes : j < i => outcomes[j] = Missing
      BY <2>3, <3>2, <3>5
    <3> QED
      BY <3>2, <3>3, <3>4, <3>5, FirstDecides
  <2> QED
    BY <2>2, <2>3
<1> QED
  BY <1>1, Invariant, PTL

\* The adapter asks three carriers in turn.
LEMMA InTurn ==
    GatewayToken = IF bearerToken(authorization) # Missing THEN bearerToken(authorization)
                   ELSE IF QueryToken(query) # Missing THEN QueryToken(query)
                   ELSE subprotocolToken(protocol)
<1> DEFINE outcomes == <<bearerToken(authorization), QueryToken(query),
                         subprotocolToken(protocol)>>
<1>1. /\ DOMAIN outcomes = {1, 2, 3}
      /\ outcomes[1] = bearerToken(authorization)
      /\ outcomes[2] = QueryToken(query)
      /\ outcomes[3] = subprotocolToken(protocol)
  OBVIOUS
<1>2. GatewayToken = ChainExtractors(outcomes)
  BY DEF GatewayToken
<1> HIDE DEF outcomes
<1> QED
  BY <1>1, <1>2, FirstDecides

\* What either extractor returns from a subprotocol header.
LEMMA SubprotocolTokens ==
    ASSUME NEW list \in Seq(Word)
    PROVE  /\ Usable(SecWebSocketProtocol(list)) => CoreHits(splitHeaderList(list)) # {}
           /\ CoreHits(splitHeaderList(list)) # {} =>
                 SecWebSocketProtocol(list) =
                    Found(Offer(splitHeaderList(list), Min(CoreHits(splitHeaderList(list)))))
           /\ subprotocolToken(list) =
                 IF GatewayHits(list) = {} THEN Missing
                 ELSE Found(GatewayOffer(list[Min(GatewayHits(list))]))
<1> DEFINE values == splitHeaderList(list)
<1>1. DOMAIN Offers(values) = CoreHits(values)
  BY DEF Offers, CoreHits
<1>2. ASSUME Usable(SecWebSocketProtocol(list))
      PROVE  CoreHits(values) # {}
  <2>1. SecWebSocketProtocol(list) = FirstWord(Offers(values))
    BY <1>2 DEF SecWebSocketProtocol, Usable, Missing, Malformed
  <2> QED
    BY <1>1, <1>2, <2>1 DEF FirstWord, Usable, Missing
<1>3. ASSUME CoreHits(values) # {}
      PROVE  SecWebSocketProtocol(list) = Found(Offer(values, Min(CoreHits(values))))
  <2>1. Min(CoreHits(values)) \in CoreHits(values)
    <3>1. CoreHits(values) \in SUBSET Nat
      BY LenProperties DEF CoreHits, splitHeaderList, Restrict
    <3> QED
      BY <1>3, <3>1, Least
  <2>2. DOMAIN values # {}
    BY <1>3 DEF CoreHits
  <2>3. list # <<>> /\ list # <<Blank>>
    BY <2>2 DEF splitHeaderList, Restrict
  <2>4. SecWebSocketProtocol(list) = FirstWord(Offers(values))
    BY <2>2, <2>3 DEF SecWebSocketProtocol
  <2>5. Offers(values)[Min(CoreHits(values))] = Offer(values, Min(CoreHits(values)))
    BY <2>1 DEF Offers, CoreHits
  <2> QED
    BY <1>1, <1>3, <2>4, <2>5 DEF FirstWord
<1>4. subprotocolToken(list) =
        IF GatewayHits(list) = {} THEN Missing
        ELSE Found(GatewayOffer(list[Min(GatewayHits(list))]))
  <2> DEFINE words == [i \in {j \in DOMAIN list : Dots(GatewayOffer(list[j])) = 2}
                           |-> GatewayOffer(list[i])]
  <2>1. DOMAIN words = GatewayHits(list)
    BY DEF GatewayHits, Carrier
  <2>2. subprotocolToken(list) = FirstWord(words)
    BY DEF subprotocolToken
  <2>3. GatewayHits(list) # {} =>
          words[Min(GatewayHits(list))] = GatewayOffer(list[Min(GatewayHits(list))])
    <3> SUFFICES ASSUME GatewayHits(list) # {}
                 PROVE  words[Min(GatewayHits(list))] = GatewayOffer(list[Min(GatewayHits(list))])
      OBVIOUS
    <3>1. GatewayHits(list) \in SUBSET Nat
      BY LenProperties DEF GatewayHits
    <3>2. Min(GatewayHits(list)) \in GatewayHits(list)
      BY <3>1, Least
    <3> QED
      BY <3>2 DEF GatewayHits, Carrier
  <2> HIDE DEF words
  <2> QED
    BY <2>1, <2>2, <2>3 DEF FirstWord
<1> QED
  BY <1>2, <1>3, <1>4

\* A token of use in the Authorization header is the same for both.
LEMMA SameBearer ==
    ASSUME authorization \in Seq(Word), authorization # <<>>,
           Usable(AuthorizationHeader(authorization))
    PROVE  bearerToken(authorization) = AuthorizationHeader(authorization)
<1> DEFINE token == AuthorizationHeader(authorization)
<1>1. CASE Len(authorization) = 1
  <2>1. token = Found(authorization[1])
    BY <1>1 DEF AuthorizationHeader
  <2>2. authorization[1] \in Word /\ looksLikeJWT(authorization[1])
    <3>1. token[2] = authorization[1]
      BY <2>1 DEF Found
    <3>2. authorization[1] \in Word
      BY <1>1
    <3> QED
      BY <3>1, <3>2, Zenon DEF Usable
  <2>3. Dots(authorization[1]) = 2
    BY <2>2, TwoDots
  <2> QED
    BY <1>1, <2>1, <2>3 DEF bearerToken
<1>2. CASE Len(authorization) = 2 /\ IsBearer(authorization[1])
  BY <1>2 DEF AuthorizationHeader, bearerToken
<1>3. CASE Len(authorization) # 1 /\ ~(Len(authorization) = 2 /\ IsBearer(authorization[1]))
  BY <1>3 DEF AuthorizationHeader, Malformed, Usable
<1> QED
  BY <1>1, <1>2, <1>3

\* extractor.go:65-124 beside apigateway/auth.go:67-138: on a request of any
\* size the adapter finds a token wherever the core's default chain finds one, and
\* the same, but for the query string and empty segments; and the core finds in
\* the headers what the adapter finds there, but for a useless Authorization
\* header, which only the adapter passes over.
THEOREM Same == Spec => []SameToken
<1>1. IInv => SameToken
  <2> DEFINE NoGaps == \A i \in DOMAIN protocol : protocol[i].body \notin {"gap", "pairgap"}
             header == AuthorizationHeader(authorization)
             H == CoreHits(splitHeaderList(protocol))
             G == GatewayHits(protocol)
             taken == GatewayOffer(protocol[Min(G)])
  <2> SUFFICES ASSUME IInv, Asked, Plain
               PROVE  /\ Usable(core) =>
                            /\ gateway # Missing
                            /\ QueryToken(query) = Missing /\ NoGaps => gateway = core
                      /\ Usable(gateway) /\ QueryToken(query) = Missing =>
                            core = gateway \/ (core = header /\ core # Missing /\ ~Usable(core))
    BY DEF SameToken
  <2>1. core = CoreToken /\ gateway = GatewayToken
    BY DEF IInv, Answered, Asked
  <2>2. authorization \in Seq(Word) /\ protocol \in Seq(Word) /\ TypeOK
    BY ExtractionAssumption DEF IInv, TypeOK
  <2>3. \A w : Found(w) # Missing /\ Found(w)[2] = w
    BY DEF Found, Missing
  <2>4. CASE authorization # <<>>
    <3>1. header # Missing
      BY <2>3, <2>4 DEF AuthorizationHeader, Malformed, Missing
    <3>2. core = header
      BY <2>1, <2>2, <3>1, ByDefault
    <3>3. Usable(core) => gateway = core
      BY <2>1, <2>2, <2>4, <3>1, <3>2, SameBearer, InTurn
    <3> QED
      BY <3>1, <3>2, <3>3
  <2>5. CASE authorization = <<>>
    <3>1. header = Missing /\ bearerToken(authorization) = Missing
      BY <2>5 DEF AuthorizationHeader, bearerToken
    <3>2. core = SecWebSocketProtocol(protocol)
      BY <2>1, <2>2, <3>1, ByDefault
    <3>3. gateway = IF QueryToken(query) # Missing THEN QueryToken(query)
                    ELSE subprotocolToken(protocol)
      BY <2>1, <3>1, InTurn
    <3>4. subprotocolToken(protocol) = IF G = {} THEN Missing ELSE Found(taken)
      BY <2>2, SubprotocolTokens
    <3>5. ASSUME G # {}, looksLikeJWT(taken)
          PROVE  core = Found(taken)
      <4>1. H # {} /\ taken = Offer(splitHeaderList(protocol), Min(H))
        BY <2>2, <3>5, SameFirst
      <4> QED
        BY <2>2, <3>2, <4>1, SubprotocolTokens
    <3>6. Usable(core) => G # {}
      <4>1. Usable(core) => H # {}
        BY <2>2, <3>2, SubprotocolTokens
      <4> QED
        BY <2>2, <4>1, FoundByBoth
    <3>7. NoGaps /\ G # {} => looksLikeJWT(taken)
      <4> SUFFICES ASSUME NoGaps, G # {} PROVE looksLikeJWT(taken)
        OBVIOUS
      <4>1. G \in SUBSET Nat
        BY <2>2, LenProperties DEF GatewayHits
      <4>2. Min(G) \in G
        BY <4>1, Least
      <4>3. Min(G) \in DOMAIN protocol /\ Carrier(protocol[Min(G)])
        BY <4>2 DEF GatewayHits
      <4>4. protocol[Min(G)] \in Word
        BY <2>2, <4>3
      <4> QED
        BY <4>3, <4>4, NoGap
    <3> HIDE DEF NoGaps, G, H, taken
    <3>8. Usable(gateway) /\ QueryToken(query) = Missing => core = gateway
      <4> SUFFICES ASSUME Usable(gateway), QueryToken(query) = Missing
                   PROVE  core = gateway
        OBVIOUS
      <4>1. G # {} /\ gateway = Found(taken)
        BY <3>3, <3>4 DEF Usable, Missing
      <4>2. looksLikeJWT(taken)
        BY <2>3, <4>1, Zenon DEF Usable
      <4> QED
        BY <3>5, <4>1, <4>2
    <3> QED
      BY <2>3, <3>3, <3>4, <3>5, <3>6, <3>7, <3>8
  <2> QED
    BY <2>4, <2>5
<1> QED
  BY <1>1, Invariant, PTL
=============================================================================
