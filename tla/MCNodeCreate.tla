---------------------------- MODULE MCNodeCreate ----------------------------
(***************************************************************************)
(* Instances for TLC of NodeCreate, creates of services and creates of     *)
(* task pools (which have the same variables but other steps), and of      *)
(* ObjectStore, the objects such a service or pool reads.  part says which *)
(* of the three a behaviour is about; creates and objects share nothing.   *)
(***************************************************************************)
EXTENDS NodeCreate, ObjectStore, TLC

CONSTANTS PoolWants, PoolCapacity

VARIABLE part

PoolCreates == INSTANCE NodeCreate WITH
  Kind <- "task_pool", Wants <- PoolWants, Capacity <- PoolCapacity

\* What the references name matters to the objects only.
NodeInit ==
  /\ Init /\ ObjInit
  /\ part \in {"service", "task_pool", "objects"}
  /\ part = "objects" \/ objOf = <<1, 2>>

NodeNext ==
  /\ UNCHANGED part
  /\ \/ part = "service" /\ Next /\ UNCHANGED objVars
     \/ part = "task_pool" /\ PoolCreates!Next /\ UNCHANGED objVars
     \/ part = "objects" /\ ObjNext /\ UNCHANGED vars

NodeSpec == NodeInit /\ [][NodeNext]_<<part, vars, objVars>>

\* Two references to one object, or to two.
Pairs == {<<1, 1>>, <<1, 2>>}

Symmetry == Permutations(Ids) \cup Permutations(Reqs)
=============================================================================
