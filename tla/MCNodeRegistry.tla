-------------------------- MODULE MCNodeRegistry ---------------------------
(* Instances of NodeRegistry for TLC. *)
EXTENDS NodeRegistry, TLC

\* All nodes are bound to the same address, one after the other.
SameAddr == [n \in Nodes |-> CHOOSE a \in Addrs : TRUE]

\* The profile of the address may have been disabled earlier.
Profiles == [enabled : BOOLEAN, drain : {FALSE}]
=============================================================================
