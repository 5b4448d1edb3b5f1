----------------------------- MODULE MCExtraction -----------------------------
(***************************************************************************)
(* Instances of Extraction: every word, every header of at most three      *)
(* fields over the words that matter there, every list of two entries.     *)
(***************************************************************************)
EXTENDS Extraction

w(p, b) == [prefixed |-> p, pad |-> FALSE, body |-> b]
Words == {x \in Word : x.pad => x.prefixed /\ x.body = "jwt"}
Unpadded == {x \in Words : ~x.pad}
Some == {w(FALSE, "jwt"), w(FALSE, "gap"), w(FALSE, "bearer"), w(FALSE, "plain")}

SomeHeaders ==
    {<<>>} \cup {<<x>> : x \in Unpadded \ {Blank}} \cup {<<x, y>> : x, y \in Some}
           \cup {<<w(FALSE, "bearer"), w(FALSE, "jwt"), w(FALSE, "plain")>>}
SomeProtocols ==
    {<<>>} \cup {<<x>> : x \in Words} \cup {<<x, y>> : x, y \in Words}
           \cup {<<w(FALSE, "plain"), w(FALSE, "keyword"), x>> : x \in Words}
SomeCookies == {Blank, w(FALSE, "jwt")}
SomeChains == {<<>>, <<"nil">>, <<"nil", "cookie", "header">>, <<"header", "protocol", "cookie">>}
SomeQueries == {<<>>, <<Blank, w(FALSE, "jwt")>>, <<w(FALSE, "plain")>>}
=============================================================================
