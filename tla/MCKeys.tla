-------------------------------- MODULE MCKeys --------------------------------
(***************************************************************************)
(* An instance of Keys: three keys, of which the KeyFunc has one, the      *)
(* SigningKey is another, and the provider publishes any.                  *)
(***************************************************************************)
EXTENDS Keys

CONSTANTS k1, k2, k3
SomeFuncKeys == {k1}
=============================================================================
