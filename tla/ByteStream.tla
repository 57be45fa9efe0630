----------------------------- MODULE ByteStream -----------------------------
(***************************************************************************)
(* What TcpConnection promises of the bytes given to send, without         *)
(* buffers, events or partial writes: the socket gets them in order, each  *)
(* once, and the end of the stream comes after the last of them.  A stream *)
(* may be spoiled, by the peer or by the program; then the end may come    *)
(* early, and still nothing is reordered or repeated.                      *)
(***************************************************************************)
EXTENDS Naturals, Sequences

VARIABLES
    accepted,   \* all that send was given
    sent,       \* what the socket has got
    ended,      \* shutdown(SHUT_WR) was called
    spoiled

vars == <<accepted, sent, ended, spoiled>>

Extends(t, s) == Len(s) <= Len(t) /\ SubSeq(t, 1, Len(s)) = s

Init ==
    /\ accepted = <<>> /\ sent = <<>>
    /\ ended = FALSE
    /\ spoiled \in BOOLEAN

Accept ==
    /\ ended => spoiled
    /\ Extends(accepted', accepted)
    /\ UNCHANGED <<sent, ended, spoiled>>

Write ==
    /\ ~ended
    /\ Extends(sent', sent) /\ Extends(accepted, sent')
    /\ UNCHANGED <<accepted, ended, spoiled>>

End ==
    /\ sent = accepted \/ spoiled
    /\ ended' = TRUE
    /\ UNCHANGED <<accepted, sent, spoiled>>

Spoil ==
    /\ spoiled' = TRUE
    /\ UNCHANGED <<accepted, sent, ended>>

Next == Accept \/ Write \/ End \/ Spoil

Spec == Init /\ [][Next]_vars
=============================================================================
