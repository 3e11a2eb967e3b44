------------------------- MODULE CmConnectionProofs -------------------------
(***************************************************************************)
(* What the promises of CmConnection amount to, for any sets of IDs:       *)
(* connections pair the IDs off.                                           *)
(***************************************************************************)
EXTENDS CmConnection, TLAPS

Phases == {"none", "asking", "up", "closed"}

TypeOK ==
    /\ phase \in [Act \cup Pas -> Phases]
    /\ accepted \subseteq Pas \X Act
    /\ confirmed \subseteq Act \X Pas

(* An ID that accepts does so once, and has begun with it. *)
AcceptsOnce ==
    \A p \in Pas, a \in Act : <<p, a>> \in accepted =>
        /\ phase[p] # "none"
        /\ \A b \in Act : <<p, b>> \in accepted => b = a

(* An ID that confirms does so once, for an answer it got, and does not ask  *)
(* any more.                                                                 *)
ConfirmsOnce ==
    \A a \in Act, p \in Pas : <<a, p>> \in confirmed =>
        /\ <<p, a>> \in accepted
        /\ phase[a] \in {"up", "closed"}
        /\ \A q \in Pas : <<a, q>> \in confirmed => q = p

(* A connection rests on an acceptance and its confirmation. *)
UpConfirmed ==
    \A p \in Pas \ Act : phase[p] = "up" =>
        \E a \in Act : <<p, a>> \in accepted /\ <<a, p>> \in confirmed

IInv == TypeOK /\ AcceptsOnce /\ ConfirmsOnce /\ UpConfirmed

(* Two IDs are joined when each has agreed to the other. *)
Joined(a, p) == <<p, a>> \in accepted /\ <<a, p>> \in confirmed

(* Nobody is joined to two, and an ID that was asked and is up is joined to  *)
(* one that has confirmed it and is not asking anybody else: a connection    *)
(* has one ID at each end.                                                   *)
Paired ==
    /\ \A a, b \in Act, p, q \in Pas :
          Joined(a, p) /\ Joined(b, q) => (a = b <=> p = q)
    /\ \A p \in Pas \ Act : phase[p] = "up" =>
          \E a \in Act : Joined(a, p) /\ phase[a] \in {"up", "closed"}
-----------------------------------------------------------------------------
(* The inductive invariant of the promises of ib_send_cm_rep(),              *)
(* ib_send_cm_rtu(), cm_rtu_handler() and the ends of a connection.          *)
LEMMA Inductive == Spec => []IInv
<1>1. Init => IInv
  BY DEF Init, IInv, TypeOK, AcceptsOnce, ConfirmsOnce, UpConfirmed, Phases
<1>2. IInv /\ [Next]_vars => IInv'
  <2> SUFFICES ASSUME IInv, [Next]_vars PROVE IInv'
    OBVIOUS
  <2> USE DEF IInv
  <2>1. ASSUME NEW a \in Act, Ask(a) PROVE IInv'
    <3>1. TypeOK' BY <2>1 DEF Ask, TypeOK, Phases
    <3>2. AcceptsOnce' BY <2>1 DEF Ask, TypeOK, AcceptsOnce
    <3>3. ConfirmsOnce' BY <2>1 DEF Ask, TypeOK, ConfirmsOnce
    <3>4. UpConfirmed' BY <2>1 DEF Ask, TypeOK, UpConfirmed
    <3> QED BY <3>1, <3>2, <3>3, <3>4
  <2>2. ASSUME NEW a \in Act, NEW p \in Pas, Accept(p, a) PROVE IInv'
    <3>1. TypeOK' BY <2>2 DEF Accept, TypeOK, Phases
    <3>2. AcceptsOnce' BY <2>2 DEF Accept, TypeOK, AcceptsOnce
    <3>3. ConfirmsOnce' BY <2>2 DEF Accept, TypeOK, ConfirmsOnce
    <3>4. UpConfirmed' BY <2>2 DEF Accept, TypeOK, UpConfirmed
    <3> QED BY <3>1, <3>2, <3>3, <3>4
  <2>3. ASSUME NEW a \in Act, NEW p \in Pas, Confirm(a, p) PROVE IInv'
    <3>1. TypeOK' BY <2>3 DEF Confirm, TypeOK, Phases
    <3>2. AcceptsOnce' BY <2>3 DEF Confirm, TypeOK, AcceptsOnce
    <3>3. ConfirmsOnce' BY <2>3 DEF Confirm, TypeOK, ConfirmsOnce
    <3>4. UpConfirmed' BY <2>3 DEF Confirm, TypeOK, UpConfirmed
    <3> QED BY <3>1, <3>2, <3>3, <3>4
  <2>4. ASSUME NEW a \in Act, NEW p \in Pas, Establish(p, a) PROVE IInv'
    <3>1. TypeOK' BY <2>4 DEF Establish, TypeOK, Phases
    <3>2. AcceptsOnce' BY <2>4 DEF Establish, TypeOK, AcceptsOnce
    <3>3. ConfirmsOnce' BY <2>4 DEF Establish, TypeOK, ConfirmsOnce
    <3>4. UpConfirmed' BY <2>4 DEF Establish, TypeOK, UpConfirmed
    <3> QED BY <3>1, <3>2, <3>3, <3>4
  <2>5. ASSUME NEW S \in SUBSET (Act \cup Pas), Close(S) PROVE IInv'
    <3>1. TypeOK' BY <2>5 DEF Close, TypeOK, Phases
    <3>2. AcceptsOnce' BY <2>5 DEF Close, TypeOK, AcceptsOnce
    <3>3. ConfirmsOnce' BY <2>5 DEF Close, TypeOK, ConfirmsOnce
    <3>4. UpConfirmed' BY <2>5 DEF Close, TypeOK, UpConfirmed
    <3> QED BY <3>1, <3>2, <3>3, <3>4
  <2>6. CASE UNCHANGED vars
    BY <2>6 DEF vars, TypeOK, AcceptsOnce, ConfirmsOnce, UpConfirmed
  <2> QED BY <2>1, <2>2, <2>3, <2>4, <2>5, <2>6 DEF Next
<1> QED BY <1>1, <1>2, PTL DEF Spec

(* Whatever implements CmConnection, as IbCm does (Refinement in             *)
(* IbCmProofs), pairs its IDs off.                                           *)
THEOREM PairedAlways == Spec => []Paired
<1>1. IInv => Paired
  BY DEF IInv, TypeOK, AcceptsOnce, ConfirmsOnce, UpConfirmed, Paired, Joined
<1> QED BY <1>1, Inductive, PTL
=============================================================================
