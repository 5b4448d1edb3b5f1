---------------------------- MODULE MCValidation ----------------------------
(***************************************************************************)
(* An instance of Validation: allowlists of none, one and two values, with *)
(* empty strings, audiences of every kind, expiries whole and with a half. *)
(***************************************************************************)
EXTENDS Validation

c(kind, values, time) == [kind |-> kind, values |-> values, time |-> time]

SomeAllowlists ==
    {[single |-> s, plural |-> p] : s \in {"", "a"}, p \in {<<>>, <<"">>, <<"b", "a">>}}
SomeAudiences ==
    {Absent, OfText(""), OfText("a"), c("other", <<>>, 0), c("list", <<"", "b">>, 0),
     c("list", <<NotText, "x">>, 0), c("list", <<"">>, 0)}
SomeExpiries ==
    {Absent, c("other", <<>>, 0)} \cup {c("float", <<>>, t) : t \in 0..6}
=============================================================================
