-------------------------------- MODULE MCRbac --------------------------------
(***************************************************************************)
(* An instance of Rbac: names with and without a colon, blanks in front    *)
(* and behind a colon, wildcards on either side, a grant without a colon.  *)
(***************************************************************************)
EXTENDS Rbac

\* The texts of a string, and whether it starts with blanks.
s(p, texts) == [i \in DOMAIN texts |-> [pad |-> p /\ i = 1, text |-> texts[i]]]

SomeActions == {s(FALSE, <<"read">>), s(TRUE, <<"read">>), s(FALSE, <<"doc", "read">>)}
SomeResources == {s(FALSE, <<"w">>), s(FALSE, <<"w", "1">>), s(TRUE, <<"w">>)}
SomeGrants ==
    {s(FALSE, <<"read", "w">>), s(TRUE, <<"read", "w", "1">>), s(FALSE, <<"*", "w">>),
     s(FALSE, <<"read", "*">>), s(FALSE, <<"write", "*">>), s(FALSE, <<"read">>),
     s(FALSE, <<"doc", "read", "w">>), s(FALSE, <<"read">>) \o s(TRUE, <<"w">>)}
Viewer(pad) == [text |-> TRUE, name |-> "viewer", pad |-> pad]
Nothing(pad) == [text |-> TRUE, name |-> "", pad |-> pad]
Number == [text |-> FALSE, name |-> "", pad |-> FALSE]
claims(kind, values) == [kind |-> kind, values |-> values]
SomeClaims ==
    {claims("absent", {}), claims("other", {}), claims("strings", {}), claims("list", {})}
    \cup {claims("string", {v}) : v \in {Viewer(FALSE), Viewer(TRUE), Nothing(FALSE), Nothing(TRUE)}}
    \cup {claims("strings", {v, Nothing(FALSE)}) : v \in {Viewer(FALSE), Viewer(TRUE)}}
    \cup {claims("list", {Viewer(FALSE), Nothing(TRUE)}),
          claims("list", {Viewer(FALSE), Nothing(FALSE), Number})}
=============================================================================
