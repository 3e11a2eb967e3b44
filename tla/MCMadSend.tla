----------------------------- MODULE MCMadSend ------------------------------
(***************************************************************************)
(* Instances of MadSend for TLC: the MADs of the port are all SA MADs, or  *)
(* all SMPs.                                                               *)
(***************************************************************************)
EXTENDS MadSend

CONSTANTS m1, m2, m3, a1, a2

MCAgentOf == [m \in Mads |-> IF m = m1 THEN a1 ELSE a2]
MCClasses == {[m \in Mads |-> "sa"], [m \in Mads |-> "smp"]}
MCRetries == [sa |-> 1, smp |-> 1]
MCUnreg == {<<a1, "sa">>}
MCUnregSmp == {<<a1, "smp">>}
MCSa == {[m \in Mads |-> "sa"]}
MCSmp == {[m \in Mads |-> "smp"]}
=============================================================================
