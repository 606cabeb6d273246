----------------------------- MODULE MCDeployed -----------------------------
(***************************************************************************)
(* Instances for TLC of what a client puts on the nodes: the package of    *)
(* its program (Packaging), the code on a node's disk (NodeCode), and the  *)
(* values it sets in what it has deployed (ManagedGlobals).  part says     *)
(* which of the three a behaviour is about; they share nothing.            *)
(***************************************************************************)
EXTENDS Packaging, NodeCode, ManagedGlobals, TLC

VARIABLE part

\* What the kind of a deployment is matters to its globals only.
DeployedInit ==
  /\ PackInit /\ CodeInit /\ GlobalsInit
  /\ part \in {"package", "code", "globals"}
  /\ part = "globals" \/ kind = "service"

DeployedNext ==
  /\ UNCHANGED part
  /\ \/ part = "package" /\ PackNext /\ UNCHANGED <<codeVars, globalsVars>>
     \/ part = "code" /\ CodeNext /\ UNCHANGED <<packVars, globalsVars>>
     \/ part = "globals" /\ GlobalsNext /\ UNCHANGED <<packVars, codeVars>>

DeployedSpec == DeployedInit /\ [][DeployedNext]_<<part, packVars, codeVars, globalsVars>>

\* The entry a, its sibling s in the project; a module m of the package k that
\* lies outside of the project.
TopV     == <<1, 2, 3, 3>>
ParentsV == <<{}, {}, {}, {3}>>
ImportsV == {{}, {4}, {2, 4}}

\* Two names that are set together, in a batch each.
Together  == {{"a", "b"}}
InBatches == {<<{"a"}, {"b"}>>}

\* No action tells two nodes apart.
Symmetry == Permutations(Nodes)
=============================================================================
