---------------------------- MODULE CmConnection ----------------------------
(***************************************************************************)
(* What the connection manager promises to its clients about connections.  *)
(* An ID that asks is connected to at most one ID that accepted it, an ID  *)
(* that accepts only to the one it accepted, which has confirmed it, and a *)
(* connection that has ended does not come back.                           *)
(***************************************************************************)
CONSTANTS Act, Pas   \* the IDs that ask, and those that are asked

VARIABLES
    phase,     \* of each ID: "none", "asking", "up", "closed"
    accepted,  \* <<p, a>>: the client of p has accepted the request of a
    confirmed  \* <<a, p>>: the client of a has confirmed that answer

vars == <<phase, accepted, confirmed>>

Init ==
    /\ phase = [i \in Act \cup Pas |-> "none"]
    /\ accepted = {} /\ confirmed = {}

Ask(a) ==
    /\ phase[a] = "none"
    /\ phase' = [phase EXCEPT ![a] = "asking"]
    /\ UNCHANGED <<accepted, confirmed>>

Accept(p, a) ==
    /\ phase[p] = "none" /\ phase[a] # "none"
    /\ phase' = [phase EXCEPT ![p] = "asking"]
    /\ accepted' = accepted \cup {<<p, a>>}
    /\ UNCHANGED confirmed

Confirm(a, p) ==
    /\ phase[a] = "asking" /\ <<p, a>> \in accepted
    /\ phase' = [phase EXCEPT ![a] = "up"]
    /\ confirmed' = confirmed \cup {<<a, p>>}
    /\ UNCHANGED accepted

Establish(p, a) ==
    /\ phase[p] = "asking" /\ <<p, a>> \in accepted /\ <<a, p>> \in confirmed
    /\ phase' = [phase EXCEPT ![p] = "up"]
    /\ UNCHANGED <<accepted, confirmed>>

(* A connection, or an attempt, ends at one side; a crash ends several. *)
Close(S) ==
    /\ phase' = [i \in Act \cup Pas |-> IF i \in S THEN "closed" ELSE phase[i]]
    /\ UNCHANGED <<accepted, confirmed>>

Next ==
    \/ \E a \in Act : Ask(a)
    \/ \E a \in Act, p \in Pas : Accept(p, a) \/ Confirm(a, p) \/ Establish(p, a)
    \/ \E S \in SUBSET (Act \cup Pas) : Close(S)

Spec == Init /\ [][Next]_vars
=============================================================================
