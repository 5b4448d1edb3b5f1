------------------------------- MODULE MCFanOut -------------------------------
(***************************************************************************)
(* Instances of FanOut: batches below, at and above the worker limit, and  *)
(* one that names a resource twice.                                        *)
(***************************************************************************)
EXTENDS FanOutInv

CONSTANTS r1, r2, r3

TwoOrThree == {<<r1, r2>>, <<r1, r1, r2>>, <<r1, r2, r3>>}
OneToThree == {<<r1>>, <<r1, r2>>, <<r1, r1, r2>>, <<r1, r2, r3>>}
=============================================================================
