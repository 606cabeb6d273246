------------------------------ MODULE NodePool ------------------------------
(***************************************************************************)
(* The task pools of one node (controlplane/nodecontrol_state.py) and the  *)
(* executor hosts behind them (executor_backend.py, executor_host.py,      *)
(* executor_core.py).  Threads of the node submit tasks, pull results and  *)
(* drain the events of the hosts; pools are stopped by their owner, by the *)
(* owner's heartbeat lease or by a dependency failure; when a host process *)
(* dies the whole backend is rebuilt while the other threads go on.        *)
(*                                                                         *)
(* An action is one critical section of the node's lock, or one call of an *)
(* executor host.  Heartbeats only move the time at which a lease expires, *)
(* and a lease may expire at any time here; cancel_pool_job only sets      *)
(* cancel_requested on running tasks, which nothing reads.  Queues are     *)
(* sets: the code never looks at the order of results or events.           *)
(***************************************************************************)
EXTENDS Naturals, FiniteSets

CONSTANTS
  PoolIds,      \* identities (uuid4) of the pools that get created
  TaskIds,      \* task ids
  Threads,      \* HTTP handler threads and the dispatcher
  Capacity,     \* queue_capacity
  MaxRecords,   \* bound on the number of task records
  MaxBackends,  \* bound on the number of executor backends: the last never dies
  MayCrash,     \* may executor host processes die or hang?
  None

VARIABLES
  pools,     \* _task_pools: status and executor_ready; NEW and GONE are not in it
  tasks,     \* _pool_tasks: the TaskState of an id, or None
  active,    \* _active_pool_task_ids
  reserved,  \* _pool_task_reserved_ids
  results,   \* _pool_result_hook: the queued results of each pool
  thr,       \* what each thread is doing
  records,   \* number of task records made: a record's identity is its number
  answers,   \* how many results have been queued for a record
  backend,   \* _executor_host: its number, 0 for None
  gens,      \* number of backends made
  host,      \* per backend and pool: "none", "alive" or "dead"
  run,       \* the tasks in flight in the hosts
  ev,        \* the pool_task_done events that have not been drained
  reb,       \* the rebuild in progress, or None
  stopq      \* the stops queued on _cleanup_executor

tableVars == <<pools, tasks, active, reserved, results, records, answers>>
hostVars  == <<backend, gens, host, run, ev, reb, stopq>>
vars      == <<tableVars, thr, hostVars>>

Gens     == 1..MaxBackends
Records  == 1..MaxRecords
Terminal == {"SUCCEEDED", "FAILED_USER", "FAILED_INFRA"}
Outcomes == {"SUCCEEDED", "FAILED_USER", "FAILED_INFRA", "DEPENDENCY"}

TaskState == [pool : PoolIds, status : {"RUNNING"} \cup Terminal, rec : Records]
Event     == [gen : Gens, pool : PoolIds, task : TaskIds, rec : Records, st : Outcomes]
Flight    == [gen : Gens, pool : PoolIds, task : TaskIds, rec : Records]
Result    == [task : TaskIds, rec : Records, status : Terminal]

\* What a drain keeps of an ended task until its result is queued.
Snapshots == [task : TaskIds, rec : Records, pool : PoolIds, status : Terminal]

ASSUME NodePoolAssumption ==
  /\ IsFiniteSet(TaskIds)
  /\ Capacity \in Nat /\ MaxRecords \in Nat /\ MaxBackends \in Nat \ {0}
  /\ MayCrash \in BOOLEAN
  /\ None \notin TaskIds \cup TaskState \cup Snapshots

Known(p)    == pools[p].status \in {"RUNNING", "STOPPED"}
Running(p)  == pools[p].status = "RUNNING"
Occupancy   == Cardinality(active) + Cardinality(reserved)
Idle        == [op |-> "idle"]
Alive(g)    == \A p \in PoolIds : host[g][p] # "dead"
OfPool(p)   == {t \in TaskIds : tasks[t] # None /\ tasks[t].pool = p}
Unended(p)  == {t \in OfPool(p) : tasks[t].status \notin Terminal}
StatusOf(o) == IF o = "DEPENDENCY" THEN "FAILED_INFRA" ELSE o

-----------------------------------------------------------------------------
Init ==
  /\ pools = [p \in PoolIds |-> [status |-> "NEW", ready |-> FALSE]]
  /\ tasks = [t \in TaskIds |-> None]
  /\ active = {} /\ reserved = {}
  /\ results = [p \in PoolIds |-> {}]
  /\ thr = [h \in Threads |-> Idle]
  /\ records = 0 /\ answers = [r \in Records |-> 0]
  /\ backend = 1 /\ gens = 1
  /\ host = [g \in Gens |-> [p \in PoolIds |-> "none"]]
  /\ run = {} /\ ev = {} /\ reb = None /\ stopq = {}

\* The end of create_task_pool(), whose earlier steps module NodeCreate has:
\* the executor is there, the pool goes into the table RUNNING and ready.
Open(p) ==
  /\ pools[p].status = "NEW" /\ backend # 0
  /\ pools' = [pools EXCEPT ![p] = [status |-> "RUNNING", ready |-> TRUE]]
  /\ host' = [host EXCEPT ![backend][p] = "alive"]
  /\ UNCHANGED <<tasks, active, reserved, results, records, answers, thr, backend, gens,
                 run, ev, reb, stopq>>

-----------------------------------------------------------------------------
(* Stopping a pool. *)

\* Mutant: the tasks of a stopped pool stay as they are.
FailNoTasks(p, ended) == UNCHANGED <<active, tasks, results, answers>>

\* _fail_task_pool_tasks_locked: every task of the pool that has not ended
\* fails, leaves the active index, and gets its result.
FailTasks(p, ended) ==
  LET F == Unended(p) \ ended IN
  /\ active' = active \ (F \cup ended)
  /\ tasks' = [t \in TaskIds |->
                 IF t \in F \cup ended THEN [tasks[t] EXCEPT !.status = "FAILED_INFRA"]
                 ELSE tasks[t]]
  /\ results' = [results EXCEPT ![p] = @ \cup
                   {[task |-> t, rec |-> tasks[t].rec, status |-> "FAILED_INFRA"] : t \in F}]
  /\ answers' = [r \in Records |->
                   answers[r] + Cardinality({t \in F : tasks[t].rec = r})]

\* The pool is STOPPED, its unended tasks fail, and the stop of its executor is
\* handed to the backend that is current now, if there is one.
StopWith(p, ended) ==
  /\ pools' = [pools EXCEPT ![p] = [status |-> "STOPPED", ready |-> FALSE]]
  /\ FailTasks(p, ended)
  /\ stopq' = IF backend # 0 /\ pools[p].ready
                THEN stopq \cup {[gen |-> backend, pool |-> p]} ELSE stopq

\* close_task_pool() by the owner, at any time and again, or the monitor after
\* the owner's heartbeat lease has expired.
StopPool(p) ==
  /\ Known(p)
  /\ StopWith(p, {})
  /\ UNCHANGED <<reserved, records, thr, backend, gens, host, run, ev, reb>>

\* The cleanup executor: the host process of the pool ends.  The events of its
\* last tasks stay in a client nobody drains any more.
StopHost(x) ==
  /\ x \in stopq
  /\ stopq' = stopq \ {x}
  /\ host' = [host EXCEPT ![x.gen][x.pool] = "none"]
  /\ run' = {f \in run : f.gen # x.gen \/ f.pool # x.pool}
  /\ ev' = {e \in ev : e.gen # x.gen \/ e.pool # x.pool}
  /\ UNCHANGED <<tableVars, thr, backend, gens, reb>>

\* _prune_inactive_resource_history_locked: the oldest stopped pools beyond the
\* limit are forgotten with their tasks and results.
Prune(p) ==
  /\ pools[p].status = "STOPPED"
  /\ pools' = [pools EXCEPT ![p].status = "GONE"]
  /\ results' = [results EXCEPT ![p] = {}]
  /\ active' = active \ OfPool(p)
  /\ tasks' = [t \in TaskIds |-> IF t \in OfPool(p) THEN None ELSE tasks[t]]
  /\ UNCHANGED <<reserved, records, answers, thr, hostVars>>

-----------------------------------------------------------------------------
(* submit_pool_tasks *)

Fresh(S) == {t \in S : tasks[t] = None /\ t \notin reserved}

Room == IF Occupancy < Capacity THEN Capacity - Occupancy ELSE 0

\* The first critical section: the items that are neither duplicates nor
\* beyond the queue capacity are reserved, in any order of the request.
SubReserve(h, p, S, R) ==
  /\ thr[h] = Idle
  /\ Running(p) /\ backend # 0
  /\ R \subseteq Fresh(S)
  /\ Cardinality(R) = (IF Cardinality(Fresh(S)) < Room THEN Cardinality(Fresh(S)) ELSE Room)
  /\ R # {}
  /\ reserved' = reserved \cup R
  /\ thr' = [thr EXCEPT ![h] = [op |-> "submit", pool |-> p, todo |-> R, item |-> None,
                                rec |-> 0, pc |-> "prep"]]
  /\ UNCHANGED <<pools, tasks, active, results, records, answers, hostVars>>

\* The thread is done with its item; the call ends with the last one.
NextItem(h) ==
  thr' = [thr EXCEPT ![h] =
            IF thr[h].todo \ {thr[h].item} = {} THEN Idle
            ELSE [@ EXCEPT !.todo = thr[h].todo \ {thr[h].item}, !.item = None, !.rec = 0,
                           !.pc = "prep"]]

\* The second critical section of an item: its record is installed if the pool
\* still runs; otherwise, or when the payload cannot be decoded, only the
\* reservation is given back.
SubInstall(h, t) ==
  /\ thr[h].op = "submit" /\ thr[h].pc = "prep" /\ t \in thr[h].todo
  /\ records < MaxRecords
  /\ Running(thr[h].pool)
  /\ records' = records + 1
  /\ reserved' = reserved \ {t}
  /\ tasks' = [tasks EXCEPT ![t] = [pool |-> thr[h].pool, status |-> "RUNNING",
                                    rec |-> records + 1]]
  /\ active' = active \cup {t}
  /\ thr' = [thr EXCEPT ![h] = [@ EXCEPT !.item = t, !.rec = records + 1, !.pc = "send"]]
  /\ UNCHANGED <<pools, results, answers, hostVars>>

SubReject(h, t) ==
  /\ thr[h].op = "submit" /\ thr[h].pc = "prep" /\ t \in thr[h].todo
  /\ reserved' = reserved \ {t}
  /\ thr' = [thr EXCEPT ![h] = IF thr[h].todo = {t} THEN Idle
                               ELSE [@ EXCEPT !.todo = thr[h].todo \ {t}]]
  /\ UNCHANGED <<pools, tasks, active, results, records, answers, hostVars>>

Reachable(p) == backend # 0 /\ host[backend][p] = "alive"

\* The call of the executor, outside the lock: the host takes the task ...
SubSend(h) ==
  /\ thr[h].op = "submit" /\ thr[h].pc = "send"
  /\ Reachable(thr[h].pool)
  /\ run' = run \cup {[gen |-> backend, pool |-> thr[h].pool, task |-> thr[h].item,
                       rec |-> thr[h].rec]}
  /\ NextItem(h)
  /\ UNCHANGED <<tableVars, backend, gens, host, ev, reb, stopq>>

\* ... or building or sending the request raises: a payload cannot be resolved,
\* the host is missing or dead, or it took the task and its answer did not
\* arrive in time.
SubRaise(h, taken) ==
  /\ thr[h].op = "submit" /\ thr[h].pc = "send"
  /\ taken => MayCrash /\ Reachable(thr[h].pool)
  /\ run' = IF taken THEN run \cup {[gen |-> backend, pool |-> thr[h].pool,
                                     task |-> thr[h].item, rec |-> thr[h].rec]}
            ELSE run
  /\ thr' = [thr EXCEPT ![h].pc = "undo"]
  /\ UNCHANGED <<tableVars, backend, gens, host, ev, reb, stopq>>

\* Mutant: the record is taken back, its entry in the active index is not.
SubUndoRecordOnly(h) ==
  /\ thr[h].op = "submit" /\ thr[h].pc = "undo"
  /\ LET t == thr[h].item IN
       tasks' = IF tasks[t] # None /\ tasks[t].rec = thr[h].rec
                  THEN [tasks EXCEPT ![t] = None] ELSE tasks
  /\ NextItem(h)
  /\ UNCHANGED <<pools, active, reserved, results, records, answers, hostVars>>

\* The except clause takes the record back, if the id still names it.
SubUndo(h) ==
  /\ thr[h].op = "submit" /\ thr[h].pc = "undo"
  /\ LET t    == thr[h].item
         mine == tasks[t] # None /\ tasks[t].rec = thr[h].rec
     IN /\ tasks' = IF mine THEN [tasks EXCEPT ![t] = None] ELSE tasks
        /\ active' = IF mine THEN active \ {t} ELSE active
  /\ NextItem(h)
  /\ UNCHANGED <<pools, reserved, results, records, answers, hostVars>>

-----------------------------------------------------------------------------
(* pull_pool_results *)

\* The results leave the queue: up to the limit of the request.
PullTake(h, p, S) ==
  /\ thr[h] = Idle /\ Known(p)
  /\ S # {} /\ S \subseteq results[p]
  /\ results' = [results EXCEPT ![p] = @ \ S]
  /\ thr' = [thr EXCEPT ![h] = [op |-> "pull", got |-> {r.task : r \in S}]]
  /\ UNCHANGED <<pools, tasks, active, reserved, records, answers, hostVars>>

\* Then the ended tasks they belong to are forgotten, by id.
PullForget(h) ==
  /\ thr[h].op = "pull"
  /\ LET F == {t \in thr[h].got : tasks[t] # None /\ tasks[t].status \in Terminal} IN
       /\ tasks' = [t \in TaskIds |-> IF t \in F THEN None ELSE tasks[t]]
       /\ active' = active \ F
  /\ thr' = [thr EXCEPT ![h] = Idle]
  /\ UNCHANGED <<pools, reserved, results, records, answers, hostVars>>

-----------------------------------------------------------------------------
(* _drain_executor_events, run by the dispatcher and by status requests. *)

\* The backend is looked at under the lock, once it is known to be alive.
DrainBegin(h) ==
  /\ thr[h] = Idle /\ backend # 0 /\ Alive(backend)
  /\ thr' = [thr EXCEPT ![h] = [op |-> "drain", pc |-> "take", gen |-> backend,
                                batch |-> {}, snap |-> None]]
  /\ UNCHANGED <<tableVars, hostVars>>

\* drain_events() of that backend, which may have been replaced by now
DrainTake(h) ==
  /\ thr[h].op = "drain" /\ thr[h].pc = "take"
  /\ LET B == {e \in ev : e.gen = thr[h].gen} IN
       /\ ev' = ev \ B
       /\ thr' = [thr EXCEPT ![h] = IF B = {} THEN Idle
                                    ELSE [@ EXCEPT !.pc = "next", !.batch = B]]
  /\ UNCHANGED <<tableVars, backend, gens, host, run, reb, stopq>>

\* The thread's state after an event that leaves the snapshot s to be pushed.
AfterEvent(h, e, s) ==
  IF s = None /\ thr[h].batch = {e} THEN Idle
  ELSE [thr[h] EXCEPT !.batch = thr[h].batch \ {e}, !.snap = s,
                      !.pc = IF s = None THEN "next" ELSE "push"]

\* Mutant: an ended task is ended again by a late event.
MatchesEnded(e) ==
  /\ tasks[e.task] # None /\ tasks[e.task].pool = e.pool
  /\ Known(e.pool)

\* The event is for a task of that pool that has not ended.  (The attempt
\* number it also compares is 1 in every record.)
Matches(e) ==
  /\ tasks[e.task] # None /\ tasks[e.task].pool = e.pool
  /\ tasks[e.task].status \notin Terminal
  /\ Known(e.pool)

DrainSkip(h, e) ==
  /\ thr[h].op = "drain" /\ thr[h].pc = "next" /\ e \in thr[h].batch
  /\ ~Matches(e)
  /\ thr' = [thr EXCEPT ![h] = AfterEvent(h, e, None)]
  /\ UNCHANGED <<tableVars, hostVars>>

Snapshot(e) == [task |-> e.task, rec |-> tasks[e.task].rec, pool |-> e.pool,
                status |-> StatusOf(e.st)]

\* The first critical section of an event: the task ends, and leaves the index.
DrainEnd(h, e) ==
  /\ thr[h].op = "drain" /\ thr[h].pc = "next" /\ e \in thr[h].batch
  /\ Matches(e)
  /\ e.st # "DEPENDENCY"
  /\ tasks' = [tasks EXCEPT ![e.task].status = e.st]
  /\ active' = active \ {e.task}
  /\ thr' = [thr EXCEPT ![h] = AfterEvent(h, e, Snapshot(e))]
  /\ UNCHANGED <<pools, reserved, results, records, answers, hostVars>>

\* After a dependency failure the pool is stopped in the same section.
DrainDependency(h, e) ==
  /\ thr[h].op = "drain" /\ thr[h].pc = "next" /\ e \in thr[h].batch
  /\ Matches(e)
  /\ e.st = "DEPENDENCY"
  /\ StopWith(e.pool, {e.task})
  /\ thr' = [thr EXCEPT ![h] = AfterEvent(h, e, Snapshot(e))]
  /\ UNCHANGED <<reserved, records, backend, gens, host, run, ev, reb>>

\* The second one, after the result has been encoded (which may fail): the
\* result is queued if the record is still the one in the table.
DrainPush(h, ok) ==
  /\ thr[h].op = "drain" /\ thr[h].pc = "push"
  /\ LET s  == thr[h].snap
         st == IF ok THEN s.status ELSE "FAILED_INFRA"
         mine == tasks[s.task] # None /\ tasks[s.task].rec = s.rec
     IN /\ tasks' = IF mine THEN [tasks EXCEPT ![s.task].status = st] ELSE tasks
        /\ results' = IF ~mine THEN results
                      ELSE [results EXCEPT ![s.pool] = @ \cup
                              {[task |-> s.task, rec |-> s.rec, status |-> st]}]
        /\ answers' = IF mine THEN [answers EXCEPT ![s.rec] = @ + 1] ELSE answers
  /\ thr' = [thr EXCEPT ![h] = IF thr[h].batch = {} THEN Idle
                               ELSE [@ EXCEPT !.snap = None, !.pc = "next"]]
  /\ UNCHANGED <<pools, active, reserved, records, hostVars>>

-----------------------------------------------------------------------------
(* The executor hosts. *)

\* A task ends in its host, with a result or after a broken worker pool was
\* rebuilt once and failed again: an event is queued for the node.
HostDone(f, st) ==
  /\ f \in run
  /\ run' = run \ {f}
  /\ ev' = ev \cup {[gen |-> f.gen, pool |-> f.pool, task |-> f.task, rec |-> f.rec,
                     st |-> st]}
  /\ UNCHANGED <<tableVars, thr, backend, gens, host, reb, stopq>>

\* The host process of a pool dies with the tasks it was running.
HostCrash(p) ==
  /\ MayCrash /\ Reachable(p) /\ gens < MaxBackends
  /\ host' = [host EXCEPT ![backend][p] = "dead"]
  /\ run' = {f \in run : f.gen # backend \/ f.pool # p}
  /\ UNCHANGED <<tableVars, thr, backend, gens, ev, reb, stopq>>

\* _ensure_executor_host_alive finds a dead host: the pools to restore are
\* noted, and there is no backend until the rebuild has ended.
RebuildStart ==
  /\ backend # 0 /\ ~Alive(backend) /\ reb = None
  /\ reb' = [old |-> backend, targets |-> {p \in PoolIds : Running(p) /\ pools[p].ready},
             failed |-> {}, pc |-> "build"]
  /\ backend' = 0
  /\ UNCHANGED <<tableVars, thr, gens, host, run, ev, stopq>>

\* The new backend cannot be created: the old one is put back.
RebuildAbort ==
  /\ reb # None /\ reb.pc = "build"
  /\ backend' = reb.old /\ reb' = None
  /\ UNCHANGED <<tableVars, thr, gens, host, run, ev, stopq>>

\* The pools are restored on the new backend, except the ones in F, and the
\* old backend is closed with all its hosts.
RebuildHosts(F) ==
  /\ reb # None /\ reb.pc = "build" /\ F \subseteq reb.targets
  /\ gens' = gens + 1
  /\ host' = [host EXCEPT ![gens + 1] = [p \in PoolIds |->
                             IF p \in reb.targets \ F THEN "alive" ELSE "none"],
                          ![reb.old] = [p \in PoolIds |-> "none"]]
  /\ run' = {f \in run : f.gen # reb.old}
  /\ ev' = {e \in ev : e.gen # reb.old}
  /\ reb' = [reb EXCEPT !.failed = F, !.pc = "install"]
  /\ UNCHANGED <<tableVars, thr, backend, stopq>>

\* The new backend becomes current; pools that were not restored are STOPPED.
RebuildInstall ==
  /\ reb # None /\ reb.pc = "install"
  /\ backend' = gens /\ reb' = None
  /\ pools' = [p \in PoolIds |-> IF p \in reb.failed /\ Known(p)
                                   THEN [status |-> "STOPPED", ready |-> FALSE]
                                   ELSE pools[p]]
  /\ UNCHANGED <<tasks, active, reserved, results, records, answers, thr, gens, host, run,
                 ev, stopq>>

-----------------------------------------------------------------------------
Submitting(h) ==
  \/ \E p \in PoolIds, S \in SUBSET TaskIds, R \in SUBSET TaskIds : SubReserve(h, p, S, R)
  \/ \E t \in TaskIds : SubInstall(h, t)
  \/ \E t \in TaskIds : SubReject(h, t)
  \/ SubSend(h)
  \/ \E taken \in BOOLEAN : SubRaise(h, taken)
  \/ SubUndo(h)

Pulling(h) ==
  \/ \E p \in PoolIds : \E S \in SUBSET results[p] : PullTake(h, p, S)
  \/ PullForget(h)

Batch(h) == IF thr[h].op = "drain" THEN thr[h].batch ELSE {}

Draining(h) ==
  \/ DrainBegin(h)
  \/ DrainTake(h)
  \/ \E e \in Batch(h) : DrainSkip(h, e) \/ DrainEnd(h, e) \/ DrainDependency(h, e)
  \/ \E ok \in BOOLEAN : DrainPush(h, ok)

Hosts ==
  \/ \E f \in run, st \in Outcomes : HostDone(f, st)
  \/ \E p \in PoolIds : HostCrash(p)
  \/ \E x \in stopq : StopHost(x)

Rebuild ==
  \/ RebuildStart
  \/ RebuildAbort
  \/ \E F \in SUBSET PoolIds : RebuildHosts(F)
  \/ RebuildInstall

Pools ==
  \/ \E p \in PoolIds : Open(p)
  \/ \E p \in PoolIds : StopPool(p)
  \/ \E p \in PoolIds : Prune(p)

Next ==
  \/ Pools
  \/ \E h \in Threads : Submitting(h) \/ Pulling(h) \/ Draining(h)
  \/ Hosts
  \/ Rebuild

Spec == Init /\ [][Next]_vars

\* Calls come to an end, the dispatch loop drains, tasks end in their hosts,
\* and a rebuild goes on and at last succeeds.
Fairness ==
  /\ \A h \in Threads :
       /\ WF_vars(\E t \in TaskIds : SubInstall(h, t) \/ SubReject(h, t))
       /\ WF_vars(SubSend(h) \/ SubRaise(h, FALSE)) /\ WF_vars(SubUndo(h))
       /\ WF_vars(PullForget(h))
       /\ WF_vars(DrainTake(h)) /\ WF_vars(\E ok \in BOOLEAN : DrainPush(h, ok))
       /\ WF_vars(\E e \in Batch(h) : DrainSkip(h, e) \/ DrainEnd(h, e) \/ DrainDependency(h, e))
  /\ SF_vars(\E h \in Threads : ev # {} /\ DrainBegin(h))
  /\ WF_vars(\E f \in run, st \in Outcomes : HostDone(f, st))
  /\ WF_vars(\E x \in stopq : StopHost(x))
  /\ WF_vars(RebuildStart) /\ WF_vars(RebuildInstall)
  /\ SF_vars(\E F \in SUBSET PoolIds : RebuildHosts(F))

FairSpec == Spec /\ Fairness

-----------------------------------------------------------------------------
(* Correctness. *)

\* Types; locals of a submit call are set where they are used.
TypeOK ==
  /\ pools \in [PoolIds -> [status : {"NEW", "RUNNING", "STOPPED", "GONE"}, ready : BOOLEAN]]
  /\ tasks \in [TaskIds -> {None} \cup TaskState]
  /\ active \subseteq TaskIds /\ reserved \subseteq TaskIds
  /\ \A p \in PoolIds : results[p] \subseteq Result
  /\ \A h \in Threads :
       /\ thr[h].op \in {"idle", "submit", "pull", "drain"}
       /\ thr[h].op = "submit" /\ thr[h].pc # "prep" => thr[h].item \in thr[h].todo
       /\ thr[h].op = "drain" => (thr[h].pc = "push") = (thr[h].snap # None)
  /\ records \in 0..MaxRecords
  /\ backend \in 0..gens /\ gens \in Gens
  /\ run \subseteq Flight /\ ev \subseteq Event
  /\ (backend = 0) = (reb # None)

\* The active index names the running tasks, a reserved id has no record yet,
\* and together they never exceed the queue capacity, whatever submits, stops,
\* drains and prunes run at once (queue_capacity in submit_pool_tasks).
OccupancyExact ==
  /\ active = {t \in TaskIds : tasks[t] # None /\ tasks[t].status = "RUNNING"}
  /\ \A t \in reserved : tasks[t] = None
  /\ Occupancy <= Capacity

\* A reservation belongs to exactly one submit call that has still to deal with
\* the item, so no reservation is left behind (_pool_task_reserved_ids).
ReservationsOwned ==
  \A t \in TaskIds :
    (t \in reserved) =
      (Cardinality({h \in Threads : /\ thr[h].op = "submit" /\ t \in thr[h].todo
                                    /\ t # thr[h].item}) = 1)

\* A record gets at most one result: a late event, a stop of the pool and a
\* second drain never answer it again (pull_pool_results hands results out).
OneAnswer == \A r \in Records : answers[r] <= 1

\* An ended task whose record is in the table has its result on its way: it is
\* queued, a drain is about to queue it, or a pull has taken it.  Else the
\* record would stay for ever and its id would be a duplicate for ever.
AnswerKept ==
  \A t \in TaskIds : tasks[t] # None /\ tasks[t].status \in Terminal =>
    \/ \E r \in results[tasks[t].pool] : r.task = t /\ r.rec = tasks[t].rec
    \/ \E h \in Threads : \/ /\ thr[h].op = "drain" /\ thr[h].snap # None
                             /\ thr[h].snap.rec = tasks[t].rec
                          \/ thr[h].op = "pull" /\ t \in thr[h].got

\* A record that has ended is answered once, not twice and not never.
AnswersExact == OneAnswer /\ AnswerKept

\* A queued result is of a pool in the table: a drain that is late for a pruned
\* pool leaves nothing behind that nobody could pull (_pool_result_hook).
ResultsPullable == \A p \in PoolIds : results[p] # {} => Known(p)

\* Somebody will end a running task: its submit call, its host, or the event of
\* its end; and its pool runs, so that a stop ends it too.
RunningIsCared ==
  \A t \in TaskIds : tasks[t] # None /\ tasks[t].status = "RUNNING" =>
    /\ Running(tasks[t].pool)
    /\ \/ \E h \in Threads : /\ thr[h].op = "submit" /\ thr[h].pc \in {"send", "undo"}
                             /\ thr[h].item = t /\ thr[h].rec = tasks[t].rec
       \/ \E f \in run : f.gen = backend /\ f.task = t /\ f.pool = tasks[t].pool
       \/ \E e \in ev : e.gen = backend /\ e.task = t /\ e.pool = tasks[t].pool
       \/ \E h \in Threads : thr[h].op = "drain" /\ \E e \in thr[h].batch : e.task = t

\* A host process of the current backend serves a pool that runs, or its stop
\* is queued: no worker processes outlive their pool.
HostsOwned ==
  backend # 0 =>
    \A p \in PoolIds : host[backend][p] = "alive" =>
      (Running(p) /\ pools[p].ready) \/ [gen |-> backend, pool |-> p] \in stopq

Unanswered(r) == \E t \in TaskIds : /\ tasks[t] # None /\ tasks[t].rec = r
                                    /\ answers[r] = 0

\* Every task that has a record gets its result, unless the record is taken
\* back (the submit call reports it rejected) or pruned with its pool.
TasksAnswered == \A r \in Records : Unanswered(r) ~> ~Unanswered(r)
=============================================================================
