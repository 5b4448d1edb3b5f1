------------------------------ MODULE MCAdapters ------------------------------
(***************************************************************************)
(* Instances of Adapters: origins in all their spellings, with a path and  *)
(* without, one or two faults, up to three headers over two keys, so that  *)
(* a key may come twice.                                                   *)
(***************************************************************************)
EXTENDS Adapters

o(scheme, host, upper, pad, extra, slashes) ==
    [scheme |-> scheme, host |-> host, upper |-> upper, pad |-> pad, extra |-> extra,
     slashes |-> slashes]
NoHeader == o("", "", FALSE, FALSE, FALSE, 0)
SomeOrigins ==
    {NoHeader, o("", "", FALSE, TRUE, FALSE, 0), o("https", "app", FALSE, FALSE, FALSE, 0),
     o("https", "app", TRUE, TRUE, FALSE, 1), o("https", "app", FALSE, FALSE, TRUE, 0),
     o("http", "app", FALSE, FALSE, FALSE, 1), o("http", "app", TRUE, FALSE, TRUE, 1),
     o("https", "site", FALSE, FALSE, FALSE, 0), o("", "null", TRUE, FALSE, FALSE, 0),
     o("", "null", FALSE, FALSE, FALSE, 2)}
SomeAllowlists ==
    {{}, {o("https", "app", TRUE, FALSE, FALSE, 1)}, {o("https", "app", FALSE, FALSE, TRUE, 0)},
     {o("", "null", FALSE, FALSE, FALSE, 1), o("http", "app", FALSE, TRUE, FALSE, 0)}}
\* A URL, alone and with a path.
Paths == {o("https", "app", FALSE, FALSE, extra, 0) : extra \in BOOLEAN}
PathAllowlists == {{path} : path \in Paths}
SomeFaults ==
    {{}, {"malformed", "invalid"}, {"invalid", "store"}} \cup {{f} : f \in Fault}

Pair == {"challenge", "retry"} \X {1, 2}
Custom(list) == [status |-> 403, headers |-> list]
SomeHandlers ==
    {NoHandler} \cup {Custom(<<a, b>>) : a, b \in Pair}
                \cup {Custom(<<a, <<"retry", 2>>, b>>) : a, b \in Pair}
TwoHeaders == {Custom(<<a, b>>) : a, b \in Pair}
=============================================================================
