----------------------------- MODULE MCJobQueue -----------------------------
(***************************************************************************)
(* Small instances of JobQueue for TLC.  Job ids, artifacts, references    *)
(* and pools are interchangeable: no definition tells two of them apart.   *)
(***************************************************************************)
EXTENDS JobQueue, TLC

Symmetry == Permutations(JobIds) \cup Permutations(Artifacts)
              \cup Permutations(RefIds) \cup Permutations(PoolIds)
=============================================================================
