--------------------------- MODULE MCTaskPoolLive ---------------------------
(***************************************************************************)
(* The two ends of a task pool, for liveness: a call of imap_unordered on  *)
(* the client (TaskPoolImap), and a pool on a node whose executor hosts do *)
(* not die (NodePool; MCNodePool has those that do).  side says which one  *)
(* the behaviour is about; they share nothing that changes.                *)
(***************************************************************************)
EXTENDS TaskPoolImap

CONSTANTS PoolIds, TaskIds, Threads, Capacity, MaxRecords, None

VARIABLES
  side,
  pools, tasks, live, reserved, results, thr, records, answers, backend, gens, host, run,
  ev, reb, stopq

imapVars == <<active, tripped, black, pending, recs, at, tries, ran, call, out, flaps>>
nodeVars == <<pools, tasks, live, reserved, results, thr, records, answers, backend, gens,
              host, run, ev, reb, stopq>>

Node == INSTANCE NodePool WITH MaxBackends <- 1, MayCrash <- FALSE, active <- live

LiveInit == Init /\ Node!Init /\ side \in {"client", "node"}

LiveNext ==
  /\ UNCHANGED side
  /\ \/ side = "client" /\ Next /\ UNCHANGED nodeVars
     \/ side = "node" /\ Node!Next /\ UNCHANGED imapVars

LiveSpec ==
  /\ LiveInit /\ [][LiveNext]_<<side, imapVars, nodeVars>>
  /\ Fairness /\ Node!Fairness

\* TasksAnswered of NodePool: a task that has a record gets its result.
TasksAnswered == Node!TasksAnswered
=============================================================================
