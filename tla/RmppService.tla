----------------------------- MODULE RmppService ----------------------------
(***************************************************************************)
(* What an RMPP transfer promises the two clients: whatever the receiver   *)
(* is handed is the whole message, its segments in order; it is not handed *)
(* the message again while the receiving agent remembers that it was; the  *)
(* sender is told once how the send ended, and success only after a        *)
(* handover.                                                               *)
(***************************************************************************)
EXTENDS Integers, Sequences

CONSTANTS
    N,         \* the segments of the message
    Handovers  \* the occasions on which the receiver may be handed it

VARIABLES
    sent,   \* the client has posted the send
    got,    \* what the receiver's client has been handed, by occasion
    known,  \* the agent remembers that the transfer is over
    end     \* what the sender's client has been told

vars == <<sent, got, known, end>>

Message == [i \in 1..N |-> i]

Init ==
    /\ sent = FALSE /\ known = FALSE /\ end = "none"
    /\ got = [h \in Handovers |-> <<>>]

Send == ~sent /\ sent' = TRUE /\ UNCHANGED <<got, known, end>>

(* A post that fails tells the client at once. *)
Refuse == ~sent /\ sent' = TRUE /\ end' = "failed" /\ UNCHANGED <<got, known>>

(* A handover of which a timeout takes the memory is not remembered. *)
Deliver(h) ==
    /\ sent /\ ~known /\ got[h] = <<>>
    /\ got' = [got EXCEPT ![h] = Message]
    /\ known' \in BOOLEAN
    /\ UNCHANGED <<sent, end>>

(* The packets of the transfer are taken to be dead. *)
Forget == known /\ known' = FALSE /\ UNCHANGED <<sent, got, end>>

Succeed ==
    /\ sent /\ end = "none" /\ \E h \in Handovers : got[h] # <<>>
    /\ end' = "ok"
    /\ UNCHANGED <<sent, got, known>>

Fail == sent /\ end = "none" /\ end' = "failed" /\ UNCHANGED <<sent, got, known>>

Next ==
    \/ Send \/ Refuse \/ Forget \/ Succeed \/ Fail
    \/ \E h \in Handovers : Deliver(h)

Spec == Init /\ [][Next]_vars
=============================================================================
