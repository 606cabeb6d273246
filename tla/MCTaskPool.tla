----------------------------- MODULE MCTaskPool -----------------------------
(***************************************************************************)
(* Instances for TLC of what the client of a task pool does: TaskPoolImap  *)
(* and TaskPoolResults, which share the client's tables but are not used   *)
(* at the same time, and HttpPool, which carries the requests of both; way *)
(* says which one a behaviour is about.                                    *)
(***************************************************************************)
EXTENDS TaskPoolImap, HttpPool

CONSTANTS t1, t2, t3, Wanted, MaxIters

ASSUME ResultsAssumption == Wanted \subseteq Nat /\ MaxIters \in Nat

VARIABLES way, accepting, awaited, buffered, held, fresh, sub, it, given, changes, iters

imapVars    == <<active, tripped, black, pending, recs, at, tries, ran, call, out, flaps>>
resultsVars == <<accepting, awaited, buffered, held, fresh, sub, it, given, changes, iters>>

Ids == {t1, t2, t3}

Results == INSTANCE TaskPoolResults WITH
  Tasks <- Ids, Filters <- {Ids}, Concurrent <- FALSE, active <- accepting, pending <- awaited,
  at <- held, out <- given, flaps <- changes

ClientInit ==
  /\ Init /\ Results!Init /\ PoolInit
  /\ way \in {"imap_unordered", "iter_results", "connections"}

ClientNext ==
  /\ UNCHANGED way
  /\ \/ way = "imap_unordered" /\ Next /\ UNCHANGED <<resultsVars, poolVars>>
     \/ way = "iter_results" /\ Results!Next /\ UNCHANGED <<imapVars, poolVars>>
     \/ way = "connections" /\ PoolNext /\ UNCHANGED <<imapVars, resultsVars>>

ClientSpec == ClientInit /\ [][ClientNext]_<<way, imapVars, resultsVars, poolVars>>

\* No action tells two nodes apart.
Symmetry == Permutations(Nodes)

\* EachTaskOnce of TaskPoolResults: iter_results neither loses nor repeats an answer.
EachTaskOnce == Results!EachTaskOnce
=============================================================================
