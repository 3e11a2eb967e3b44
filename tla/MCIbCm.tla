------------------------------- MODULE MCIbCm -------------------------------
(***************************************************************************)
(* Instances of IbCm for TLC.                                              *)
(***************************************************************************)
EXTENDS IbCm

CONSTANTS a1, a2, p1, p2

(* The connecting host uses one QP again, the listening host new ones. *)
MCQpn == [i \in Ids |-> IF i \in Act THEN 1 ELSE IF i = p1 THEN 2 ELSE 3]

(* The client of p1 is slow and gives up; the others are prompt. *)
MCCalls == [i \in Ids |->
    CASE i = p1 -> {"slow", "destroy", "fail"}
      [] i = a1 -> {"dreq", "rej"}
      [] i = a2 -> {"mra"}
      [] i = p2 -> {"mra"}]

(* One slow client that also disconnects. *)
SlowCalls == [i \in Ids |-> IF i \in Act THEN {"slow", "destroy", "dreq"} ELSE {}]
=============================================================================
