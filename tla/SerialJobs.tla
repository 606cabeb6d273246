----------------------------- MODULE SerialJobs -----------------------------
(***************************************************************************)
(* What the job queue promises its clients, without saying how: jobs are   *)
(* submitted under an id, one at a time is run, a job that waits can be    *)
(* cancelled at once, a job that runs can be asked to stop and then does   *)
(* not succeed, and an ended job keeps its outcome until the queue forgets *)
(* it (docs of JobQueueManager; wait_for_terminal and cancel of            *)
(* execution/queue.py rely on it).  JobQueue implements this specification *)
(* as long as an id is not submitted again before its job has ended.       *)
(***************************************************************************)
CONSTANTS Jobs

VARIABLES
  status,  \* of each job id
  asked    \* running jobs that were asked to stop

serialVars == <<status, asked>>

Ended == {"SUCCEEDED", "FAILED", "CANCELLED"}

SerialInit == status = [j \in Jobs |-> "ABSENT"] /\ asked = {}

\* An id is free when nothing is known of it or its job has ended.
SubmitJob(j) ==
  /\ status[j] \in Ended \cup {"ABSENT"}
  /\ status' = [status EXCEPT ![j] = "WAITING"] /\ UNCHANGED asked

\* A job begins when none runs; ended jobs may be forgotten at any time.
Begin(j, F) ==
  /\ status[j] = "WAITING" /\ \A k \in Jobs : status[k] # "RUNNING"
  /\ F \subseteq {k \in Jobs : status[k] \in Ended}
  /\ status' = [k \in Jobs |-> IF k = j THEN "RUNNING" ELSE IF k \in F THEN "ABSENT" ELSE status[k]]
  /\ UNCHANGED asked

Forget(F) ==
  /\ F # {} /\ F \subseteq {k \in Jobs : status[k] \in Ended}
  /\ status' = [k \in Jobs |-> IF k \in F THEN "ABSENT" ELSE status[k]]
  /\ UNCHANGED asked

\* Waiting jobs are cancelled, running ones are asked to stop.
CancelJobs(C) ==
  /\ C # {} /\ \A j \in C : status[j] \in {"WAITING", "RUNNING"}
  /\ status' = [k \in Jobs |-> IF k \in C /\ status[k] = "WAITING" THEN "CANCELLED" ELSE status[k]]
  /\ asked' = asked \cup {j \in C : status[j] = "RUNNING"}

\* A job that was asked to stop does not succeed.
EndJob(j, outcome) ==
  /\ status[j] = "RUNNING"
  /\ j \in asked => outcome # "SUCCEEDED"
  /\ status' = [status EXCEPT ![j] = outcome] /\ asked' = asked \ {j}

SerialNext ==
  \/ \E j \in Jobs : SubmitJob(j)
  \/ \E j \in Jobs, F \in SUBSET Jobs : Begin(j, F)
  \/ \E F \in SUBSET Jobs : Forget(F)
  \/ \E C \in SUBSET Jobs : CancelJobs(C)
  \/ \E j \in Jobs, outcome \in Ended : EndJob(j, outcome)

SerialSpec == SerialInit /\ [][SerialNext]_serialVars
=============================================================================
