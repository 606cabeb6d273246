---------------------------- MODULE NodeCreate -----------------------------
(***************************************************************************)
(* How a node creates its services and task pools: create_service and      *)
(* create_task_pool of controlplane/nodecontrol_state.py, with the table   *)
(* of create requests that makes a create idempotent, the reservation of   *)
(* worker slots, and the asynchronous creates that go on after their call  *)
(* has returned, while the owner or its lease may stop the resource.       *)
(*                                                                         *)
(* The two kinds share their code but for the name of a service, what is   *)
(* released on a failure and what counts as an active worker; Kind says    *)
(* which one an instance is about.  An action is one critical section of   *)
(* the node's lock or one call of the executor backend.  The 300 s limit   *)
(* of a waiting call and the limit of 200 records per table are left out,  *)
(* and so are fingerprints: a collision raises and changes nothing.        *)
(***************************************************************************)
EXTENDS Integers, FiniteSets, Sequences, Functions

CONSTANTS
  Kind,      \* "service" or "task_pool"
  Ids,       \* identities (uuid4) of the resources that get created
  Reqs,      \* create_request_ids
  Names,     \* service names
  Wants,     \* numbers of workers that are asked for
  Capacity,  \* service_worker_capacity, task_pool_worker_capacity
  None

\* A record of the table of create requests.
Request == [st : {"CREATING", "SUCCEEDED", "FAILED"}, id : Ids \cup {None}]

ASSUME NodeCreateAssumption ==
  /\ Kind \in {"service", "task_pool"} /\ None \notin Reqs \cup Ids \cup Request
  /\ IsFiniteSet(Ids) \* uuid4 has 2^122 values
  /\ Wants \subseteq Nat \ {0} /\ Capacity \in Nat

VARIABLES
  res,    \* _services or _task_pools; the status is NONE when the id is not in it
  reqs,   \* _service_create_requests or _task_pool_create_requests
  call,   \* the create call of each id
  slots,  \* _service_worker_reserved or _task_pool_worker_reserved
  host,   \* the ids that have an executor host process
  stopq   \* the stops queued on _cleanup_executor

vars == <<res, reqs, call, slots, host, stopq>>

Live    == {"STARTING", "RUNNING"}
Absent  == [status |-> "NONE", ready |-> FALSE, workers |-> 0, name |-> None]
NewCall == [pc |-> "new", async |-> FALSE, req |-> None, name |-> None, want |-> 0,
            active |-> 0, got |-> 0, globals |-> FALSE, todo |-> <<>>]

IsLive(i)  == res[i].status \in Live
Goto(i, l) == call' = [call EXCEPT ![i] = [call[i] EXCEPT !.pc = l]]
At(i, l)   == call[i].pc = l

\* The exception leaves the create call through these clean-up steps.
Fail(i, steps) == call' = [call EXCEPT ![i] = [call[i] EXCEPT !.pc = "cleanup", !.todo = steps]]

Init ==
  /\ res = [i \in Ids |-> Absent]
  /\ reqs = [r \in Reqs |-> None]
  /\ call = [i \in Ids |-> NewCall]
  /\ slots = 0 /\ host = {} /\ stopq = {}

-----------------------------------------------------------------------------
(* Create requests. *)

\* _prune_create_requests_locked: records of resources that are gone.
Pruned(q) ==
  [r \in Reqs |-> IF q[r] # None /\ q[r].st = "SUCCEEDED" /\ ~IsLive(q[r].id)
                    THEN None ELSE q[r]]

\* Mutant: the request is not recorded before the work begins.
BeginUnrecorded(i, r, n, w, async, g) ==
  /\ At(i, "new")
  /\ r # None => Pruned(reqs)[r] = None
  /\ UNCHANGED reqs
  /\ call' = [call EXCEPT ![i] = [NewCall EXCEPT !.pc = "name", !.async = async, !.req = r,
                                   !.name = n, !.want = w, !.globals = g]]
  /\ UNCHANGED <<res, slots, host, stopq>>

\* _begin_create_request_locked: the call that finds no record makes it and
\* creates the resource.  A call may come without a request id.
Begin(i, r, n, w, async, g) ==
  /\ At(i, "new")
  /\ r # None => Pruned(reqs)[r] = None
  /\ reqs' = IF r = None THEN reqs
             ELSE [Pruned(reqs) EXCEPT ![r] = [st |-> "CREATING", id |-> None]]
  /\ call' = [call EXCEPT ![i] = [NewCall EXCEPT !.pc = "name", !.async = async, !.req = r,
                                   !.name = n, !.want = w, !.globals = g]]
  /\ UNCHANGED <<res, slots, host, stopq>>

\* The call that finds a record waits for its outcome and creates nothing
\* (_wait_for_create_request_result).
Retry(r) ==
  /\ Pruned(reqs)[r] # None
  /\ reqs' = Pruned(reqs)
  /\ UNCHANGED <<res, call, slots, host, stopq>>

SetReq(r, rec) == reqs' = IF r = None THEN reqs ELSE Pruned([reqs EXCEPT ![r] = rec])

-----------------------------------------------------------------------------
(* The steps of a create call. *)

\* _ensure_service_name_available_locked
NameFree(i) ==
  Kind = "service" => \A k \in Ids \ {i} : IsLive(k) => res[k].name # call[i].name

CheckName(i) ==
  /\ At(i, "name")
  /\ IF NameFree(i) THEN Goto(i, IF call[i].async THEN "accept" ELSE "prepare")
                    ELSE Fail(i, <<"request">>)
  /\ UNCHANGED <<res, reqs, slots, host, stopq>>

\* An asynchronous create puts the resource into the table at once ...
Accept(i) ==
  /\ At(i, "accept")
  /\ res' = [res EXCEPT ![i] = [status |-> IF Kind = "service" THEN "STARTING" ELSE "RUNNING",
                                ready |-> FALSE, workers |-> call[i].want,
                                name |-> call[i].name]]
  /\ Goto(i, "accepted")
  /\ UNCHANGED <<reqs, slots, host, stopq>>

\* ... and its id into the request, after which the call returns the resource.
AcceptRequest(i) ==
  /\ At(i, "accepted")
  /\ SetReq(call[i].req, [st |-> "CREATING", id |-> i])
  /\ Goto(i, "start")
  /\ UNCHANGED <<res, slots, host, stopq>>

Cancelled(i) == ~IsLive(i)

\* The background thread starts; the resource may have been stopped by now.
Start(i) ==
  /\ At(i, "start")
  /\ IF Cancelled(i) THEN Fail(i, <<"mark", "request">>) ELSE Goto(i, "prepare")
  /\ UNCHANGED <<res, reqs, slots, host, stopq>>

\* put_code and _ensure_artifact_ready: the artifact is prepared in the host
\* process of the resource, which is started for it.
Prepare(i, started, ok) ==
  /\ At(i, "prepare")
  /\ ok => started
  /\ host' = IF started THEN host \cup {i} ELSE host
  /\ IF ok THEN Goto(i, "active")
     ELSE Fail(i, IF call[i].async THEN <<"mark", "request">> ELSE <<"remember", "request">>)
  /\ UNCHANGED <<res, reqs, slots, stopq>>

\* The workers in use, read in a section of its own.  An asynchronous create
\* leaves itself out, and every resource that is not ready.
ActiveWorkers(i) ==
  SumFunctionOnSet([k \in Ids |-> res[k].workers],
    {k \in Ids \ {i} : IsLive(k) /\ (call[i].async => res[k].ready)})

CountActive(i) ==
  /\ At(i, "active")
  /\ CASE call[i].async /\ Cancelled(i) -> Fail(i, <<"mark", "request">>)
       [] ~call[i].async /\ ~NameFree(i) -> Fail(i, <<"request">>)
       [] OTHER -> call' = [call EXCEPT ![i] = [call[i] EXCEPT !.pc = "reserve",
                                                           !.active = ActiveWorkers(i)]]
  /\ UNCHANGED <<res, reqs, slots, host, stopq>>

\* _reserve_worker_slots_for_create: what is left after the active workers read
\* before and the slots reserved now.
Reserve(i) ==
  /\ At(i, "reserve")
  /\ LET used == call[i].active + slots
         got  == IF call[i].want < Capacity - used THEN call[i].want ELSE Capacity - used
     IN IF used >= Capacity
          THEN /\ Fail(i, IF call[i].async THEN <<"mark", "request">> ELSE <<"request">>)
               /\ UNCHANGED slots
          ELSE /\ slots' = slots + got
               /\ call' = [call EXCEPT ![i] = [call[i] EXCEPT !.pc = "build", !.got = got]]
  /\ UNCHANGED <<res, reqs, host, stopq>>

\* Mutant: the failure of the executor keeps the slots.
BuildFailureKeepingSlots(i) ==
  IF call[i].async THEN <<"stop", "mark", "request">> ELSE <<"stop", "remember", "request">>

\* The failure of _create_executor_session_skeleton: the skeleton gives the
\* slots back and stops the executor, and most of its callers do so again.
BuildFailure(i) ==
  IF call[i].async
    THEN <<"release", "stop", "release", "stop", "mark", "request">>
  ELSE IF Kind = "service" THEN <<"release", "stop", "remember", "request">>
  ELSE <<"release", "stop", "release", "stop", "remember", "request">>

Build(i, ok) ==
  /\ At(i, "build")
  /\ host' = host \cup {i}
  /\ IF ok THEN Goto(i, IF call[i].async THEN "attach" ELSE "warm")
           ELSE Fail(i, BuildFailure(i))
  /\ UNCHANGED <<res, reqs, slots, stopq>>

\* An asynchronous create hands the executor to its resource ...
Attach(i) ==
  /\ At(i, "attach")
  /\ IF Cancelled(i)
       THEN Fail(i, <<"release", "stop", "mark", "request">>) /\ UNCHANGED res
       ELSE /\ res' = [res EXCEPT ![i] = [res[i] EXCEPT !.status = "RUNNING", !.ready = TRUE,
                                                 !.workers = call[i].got]]
            /\ Goto(i, "attached")
  /\ UNCHANGED <<reqs, slots, host, stopq>>

\* _release_reserved_worker_slots
Release(n) == slots' = IF slots < n THEN 0 ELSE slots - n

\* ... and only then gives the slots back, since the workers now count as active.
AttachRelease(i) ==
  /\ At(i, "attached")
  /\ Release(call[i].got)
  /\ Goto(i, "warm")
  /\ UNCHANGED <<res, reqs, host, stopq>>

\* The initial globals are sent to the workers, if there are any; this fails
\* when the executor has been stopped meanwhile.
Warm(i, ok) ==
  /\ At(i, "warm")
  /\ call[i].globals \/ ok
  /\ call[i].globals /\ ok => i \in host
  /\ IF ok THEN Goto(i, IF call[i].async THEN "final" ELSE "insert")
     ELSE Fail(i, IF call[i].async THEN <<"stop", "mark", "request">>
                  ELSE IF Kind = "service" THEN <<"release", "stop", "remember", "request">>
                  ELSE <<"release", "stop", "request">>)
  /\ UNCHANGED <<res, reqs, slots, host, stopq>>

\* The end of an asynchronous create only looks whether its resource is there.
Final(i) ==
  /\ At(i, "final")
  /\ IF res[i].status = "NONE"
       THEN Fail(i, <<"stop", "mark", "request">>) /\ UNCHANGED res
       ELSE /\ res' = [res EXCEPT ![i] = [res[i] EXCEPT !.status = "RUNNING", !.ready = TRUE]]
            /\ Goto(i, "finish")
  /\ UNCHANGED <<reqs, slots, host, stopq>>

\* The end of a synchronous one puts the resource into the table.
Insert(i) ==
  /\ At(i, "insert")
  /\ res' = [res EXCEPT ![i] = [status |-> "RUNNING", ready |-> TRUE,
                                workers |-> call[i].got, name |-> call[i].name]]
  /\ Goto(i, "finish")
  /\ UNCHANGED <<reqs, slots, host, stopq>>

\* _finish_create_request
Finish(i) ==
  /\ At(i, "finish")
  /\ SetReq(call[i].req, [st |-> "SUCCEEDED", id |-> i])
  /\ Goto(i, IF call[i].async THEN "done" ELSE "return")
  /\ UNCHANGED <<res, slots, host, stopq>>

Return(i) ==
  /\ At(i, "return")
  /\ Release(call[i].got)
  /\ Goto(i, "done")
  /\ UNCHANGED <<res, reqs, host, stopq>>

-----------------------------------------------------------------------------
(* The clean-up steps of a create that failed. *)

Popped(i) == call' = [call EXCEPT ![i] = [call[i] EXCEPT !.todo = Tail(call[i].todo)]]
Next1(i, step) == At(i, "cleanup") /\ call[i].todo # <<>> /\ Head(call[i].todo) = step

CleanRelease(i) ==
  /\ Next1(i, "release") /\ Popped(i)
  /\ Release(call[i].got)
  /\ UNCHANGED <<res, reqs, host, stopq>>

CleanStop(i) ==
  /\ Next1(i, "stop") /\ Popped(i)
  /\ host' = host \ {i}
  /\ UNCHANGED <<res, reqs, slots, stopq>>

\* _remember_failed_service_create, _remember_failed_task_pool_create
CleanRemember(i) ==
  /\ Next1(i, "remember") /\ Popped(i)
  /\ res' = [res EXCEPT ![i] = [Absent EXCEPT !.status = "STOPPED", !.name = call[i].name,
                                              !.workers = call[i].want]]
  /\ UNCHANGED <<reqs, slots, host, stopq>>

\* _mark_resource_create_failed_locked
CleanMark(i) ==
  /\ Next1(i, "mark") /\ Popped(i)
  /\ res' = IF res[i].status = "NONE" THEN res
            ELSE [res EXCEPT ![i] = [res[i] EXCEPT !.status = "STOPPED", !.ready = FALSE]]
  /\ UNCHANGED <<reqs, slots, host, stopq>>

\* Mutant: the failure is not recorded, and calls wait for it in vain.
CleanRequestSilent(i) ==
  /\ Next1(i, "request") /\ Goto(i, "done")
  /\ UNCHANGED <<res, reqs, slots, host, stopq>>

\* _fail_create_request, the last step
CleanRequest(i) ==
  /\ Next1(i, "request") /\ Goto(i, "done")
  /\ LET r == call[i].req IN
       reqs' = IF r = None \/ reqs[r] = None \/ reqs[r].st = "SUCCEEDED" THEN reqs
               ELSE Pruned([reqs EXCEPT ![r] = [reqs[r] EXCEPT !.st = "FAILED"]])
  /\ UNCHANGED <<res, slots, host, stopq>>

-----------------------------------------------------------------------------
(* Stopping a resource. *)

\* The owner may stop the resource once the call, or one that waited for it,
\* has returned it, which an asynchronous call does before the work is done.
\* The monitor stops a resource whose lease has expired, unless it is still
\* being created.
Stoppable(i) == IsLive(i) /\ ~At(i, "accepted")

Stop(i) ==
  /\ Stoppable(i)
  /\ res' = [res EXCEPT ![i] = [res[i] EXCEPT !.status = "STOPPED", !.ready = FALSE]]
  /\ stopq' = IF res[i].ready THEN stopq \cup {i} ELSE stopq
  /\ reqs' = [r \in Reqs |-> IF reqs[r] # None /\ reqs[r].st = "SUCCEEDED" /\ reqs[r].id = i
                               THEN None ELSE reqs[r]]
  /\ UNCHANGED <<call, slots, host>>

StopHost(i) ==
  /\ i \in stopq
  /\ stopq' = stopq \ {i} /\ host' = host \ {i}
  /\ UNCHANGED <<res, reqs, call, slots>>

\* _prune_inactive_resource_history_locked forgets a stopped resource.
Forget(i) ==
  /\ res[i].status = "STOPPED"
  /\ res' = [res EXCEPT ![i] = Absent]
  /\ UNCHANGED <<reqs, call, slots, host, stopq>>

-----------------------------------------------------------------------------
CallStep(i) ==
  \/ CheckName(i) \/ Accept(i) \/ AcceptRequest(i) \/ Start(i)
  \/ \E started, ok \in BOOLEAN : Prepare(i, started, ok)
  \/ CountActive(i) \/ Reserve(i)
  \/ \E ok \in BOOLEAN : Build(i, ok)
  \/ Attach(i) \/ AttachRelease(i)
  \/ \E ok \in BOOLEAN : Warm(i, ok)
  \/ Final(i) \/ Insert(i) \/ Finish(i) \/ Return(i)
  \/ CleanRelease(i) \/ CleanStop(i) \/ CleanRemember(i) \/ CleanMark(i) \/ CleanRequest(i)

Next ==
  \/ \E i \in Ids, r \in Reqs \cup {None}, n \in Names, w \in Wants, async, g \in BOOLEAN :
       Begin(i, r, n, w, async, g)
  \/ \E r \in Reqs : Retry(r)
  \/ \E i \in Ids : CallStep(i)
  \/ \E i \in Ids : Stop(i) \/ StopHost(i) \/ Forget(i)

Spec == Init /\ [][Next]_vars

\* The thread of a call goes on: what it waits for (the upload, the executor's
\* answers) is bounded by timeouts.
FairSpec == Spec /\ \A i \in Ids : WF_vars(CallStep(i))

-----------------------------------------------------------------------------
(* Correctness. *)

\* The steps of a call at which it holds its reservation.
Holding(i) ==
  \/ call[i].pc \in {"build", "attach", "attached", "insert", "return"}
  \/ ~call[i].async /\ call[i].pc \in {"warm", "finish"}
  \/ At(i, "cleanup") /\ \E k \in DOMAIN call[i].todo : call[i].todo[k] = "release"

\* The call is still making its resource, or cleaning up after it.
InProgress(i) == call[i].pc \notin {"new", "return", "done"}

Steps == {"release", "stop", "remember", "mark", "request"}

TypeOK ==
  /\ \A i \in Ids :
       /\ res[i].status \in {"NONE", "STARTING", "RUNNING", "STOPPED"}
       /\ res[i].ready => res[i].status = "RUNNING"
       /\ res[i].workers \in Nat
       /\ call[i].req \in Reqs \cup {None}
       /\ call[i].got \in 0..Capacity
       /\ \A k \in DOMAIN call[i].todo : call[i].todo[k] \in Steps
       /\ At(i, "cleanup") <=> call[i].pc # "done" /\ call[i].todo # <<>>
  /\ reqs \in [Reqs -> {None} \cup Request]
  /\ slots \in Nat
  /\ host \subseteq Ids /\ stopq \subseteq Ids

\* A create that is retried with its create_request_id, however often and at
\* whatever time, never has two resources, being created or live.
IdempotentCreate ==
  \A i, k \in Ids : i # k /\ call[i].req = call[k].req /\ call[i].req # None =>
    ~(InProgress(i) /\ (InProgress(k) \/ IsLive(k)))

\* A call that waits for a request that is CREATING waits for another call that
\* is still at work (_wait_for_create_request_result waits up to 300 s).
NoVainWait ==
  \A r \in Reqs : reqs[r] # None /\ reqs[r].st = "CREATING" =>
    \E i \in Ids : call[i].req = r /\ InProgress(i)

\* A request that is SUCCEEDED names a live resource, also when the resource was
\* stopped between its last step and the end of the request.
SucceededIsLive ==
  \A r \in Reqs : reqs[r] # None /\ reqs[r].st = "SUCCEEDED" => IsLive(reqs[r].id)

\* What the table of create requests says can be relied on: a wait ends, and a
\* retry that is answered from the table gets a resource that is there.
RequestsTrue == NoVainWait /\ SucceededIsLive

\* Slots are not lost: what is reserved belongs to calls that will give it back.
SlotsReturned ==
  slots <= SumFunctionOnSet([i \in Ids |-> IF Holding(i) THEN call[i].got ELSE 0], Ids)

\* A create request does not stay CREATING for ever.
RequestsEnd ==
  \A r \in Reqs : (reqs[r] # None /\ reqs[r].st = "CREATING")
                    ~> (reqs[r] = None \/ reqs[r].st # "CREATING")
-----------------------------------------------------------------------------
(* What one would expect of a create and TLC refutes: no passing run checks *)
(* these, the README has the interleavings.                                 *)

\* A node never runs two services of one name
\* (_ensure_service_name_available_locked).
OneServicePerName ==
  \A i, k \in Ids : i # k /\ IsLive(i) /\ IsLive(k) => res[i].name # res[k].name

\* The workers of the resources that are ready do not exceed the capacity of
\* the node (--worker-capacity).
WithinCapacity ==
  SumFunctionOnSet([i \in Ids |-> res[i].workers], {i \in Ids : res[i].ready}) <= Capacity

\* A host process serves a resource that is live or being created, or its stop
\* is queued (a create that fails rolls back).
HostsOwned == \A i \in host : IsLive(i) \/ InProgress(i) \/ i \in stopq

\* A service that was stopped stays stopped.
StoppedIsFinal ==
  [][\A i \in Ids : res[i].status = "STOPPED" => res'[i].status \notin Live]_vars
=============================================================================
