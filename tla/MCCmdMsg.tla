------------------------------ MODULE MCCmdMsg -----------------------------
(***************************************************************************)
(* Instance of CmdMsg for TLC: two caches, for chains of one and of two    *)
(* mailboxes, and inboxes at the edges of the sizes.                       *)
(***************************************************************************)
EXTENDS CmdMsg

CONSTANTS c1, c2, s1, s2, m1, m2, m3

MCBlocks == <<1, 2>>
MCEnts == <<1, 0>>
Perms == Permutations(Msgs) \cup Permutations(Writers)
=============================================================================
