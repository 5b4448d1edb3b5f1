------------------------------- MODULE MCSession -------------------------------
(***************************************************************************)
(* An instance of Session: a connection over two intervals and more, with  *)
(* a sound handshake or one that has two faults at once.                   *)
(***************************************************************************)
EXTENDS Session

OneFault == {{}, {"origin", "invalid"}}
=============================================================================
