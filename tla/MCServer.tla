------------------------------ MODULE MCServer ------------------------------
(* Runs of one jobspec for two nodes, on a cluster of any kind. *)
EXTENDS Server

MCAppName == [s \in Subs |-> 7]
MCPods == [s \in Subs |-> 2]
MCKindChoices == [Clusters -> Kinds]
=============================================================================
