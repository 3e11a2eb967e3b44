------------------------------- MODULE MCRmpp -------------------------------
(***************************************************************************)
(* Instances of Rmpp for TLC.                                              *)
(***************************************************************************)
EXTENDS Rmpp

=============================================================================
