------------------------------ MODULE Supervision ------------------------------
(***************************************************************************)
(* What an Auth promises of a connection, without tickers, calls or store: *)
(* it opens on a token that was good when the handshake's checks began,    *)
(* and once watched it ends when the token is spent, when a check cannot   *)
(* be made, or when the peer is gone, and for no other reason.  Session    *)
(* implements this module.                                                 *)
(***************************************************************************)

CONSTANT Conn   \* connections

VARIABLES
    phase,      \* per connection: "new", "open", "watched", "dismissed",
                \* "left" or "refused"
    good,       \* its token is good, as of the start of the checks in force
    spent,      \* its token has expired or is revoked
    unsure,     \* the check in force could not find out: while it was made the
                \* store was down, or the peer gone
    gone        \* its context is done

vars == <<phase, good, spent, unsure, gone>>

Init ==
    /\ phase = [c \in Conn |-> "new"]
    /\ good \in [Conn -> BOOLEAN]
    /\ spent \in [Conn -> BOOLEAN]
    /\ unsure = [c \in Conn |-> FALSE]
    /\ gone = [c \in Conn |-> FALSE]

-----------------------------------------------------------------------------
Moves(c, from, to) == phase[c] = from /\ phase' = [phase EXCEPT ![c] = to]

Refuse(c) == Moves(c, "new", "refused")
Admit(c) == good'[c] /\ Moves(c, "new", "open")
Watch(c) == Moves(c, "open", "watched")
Dismiss(c) == (spent[c] \/ unsure[c]) /\ gone'[c] /\ Moves(c, "watched", "dismissed")
Leave(c) == gone[c] /\ Moves(c, "watched", "left")

\* A token spent stays spent, and a peer gone stays gone.
Lasts(fact) == \A c \in Conn : fact[c] => fact'[c]

Next ==
    /\ Lasts(spent) /\ Lasts(gone)
    /\ \/ UNCHANGED phase
       \/ \E c \in Conn : Refuse(c) \/ Admit(c) \/ Watch(c) \/ Dismiss(c) \/ Leave(c)

Spec == Init /\ [][Next]_vars
=============================================================================
