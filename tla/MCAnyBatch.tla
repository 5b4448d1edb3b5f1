------------------------------ MODULE MCAnyBatch ------------------------------
(***************************************************************************)
(* Instances of AnyBatch: every chain of at most two children, chains of   *)
(* three in which each kind meets the others, lists that are empty, that   *)
(* name one resource twice, or two.                                        *)
(***************************************************************************)
EXTENDS AnyBatch

CONSTANTS r1, r2

ShortLists == {<<>>, <<r1, r2>>, <<r1, r2, r1>>}

MixedChains ==
    {<<a>> : a \in Kind} \cup {<<a, b>> : a, b \in Kind} \cup
    {<<"fanout", "nil", "single">>, <<"rbac", "fanout", "bulk">>,
     <<"single", "fanout", "rbac">>, <<"batch", "fanout", "batch">>, <<>>}

FanOutChains == {<<"fanout">>, <<"fanout", "rbac">>}
=============================================================================
