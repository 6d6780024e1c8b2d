--------------------------- MODULE MessageChannel ---------------------------
(***************************************************************************)
(* What the protocol makes of a TCP connection: a channel that delivers    *)
(* whole messages, unchanged, in order and at most once, and every one of  *)
(* them as long as the connection stays up.                                *)
(***************************************************************************)
EXTENDS Naturals, Sequences

CONSTANT Messages
VARIABLES sent, received, up

Init == sent = <<>> /\ received = <<>> /\ up = TRUE

Send ==
    /\ \E m \in Messages : sent' = Append(sent, m)
    /\ UNCHANGED <<received, up>>

Deliver ==
    /\ Len(received) < Len(sent)
    /\ received' = Append(received, sent[Len(received) + 1])
    /\ UNCHANGED <<sent, up>>

Break ==
    /\ up' = FALSE
    /\ UNCHANGED <<sent, received>>

Next == Send \/ Deliver \/ Break

Safe == Init /\ [][Next]_<<sent, received, up>>

Spec ==
    /\ Safe
    /\ WF_<<sent, received, up>>(up /\ Deliver)
=============================================================================
