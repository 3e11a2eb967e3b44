------------------------------ MODULE MCCmdApi -----------------------------
(***************************************************************************)
(* Instance of CmdApi for TLC.  Each of the two calls may be of any kind,  *)
(* so that two callbacks, or a callback and a waiting call, run together.  *)
(***************************************************************************)
EXTENDS CmdApi

CONSTANTS c1, c2
=============================================================================
