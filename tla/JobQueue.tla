------------------------------ MODULE JobQueue ------------------------------
(***************************************************************************)
(* JobQueueManager (controlplane/job_queue.py): the owner of the job       *)
(* queue.  Client threads submit, cancel, reorder and query jobs under one *)
(* lock; one scheduler thread picks the next waiting job, runs it on a     *)
(* shared TaskPool and writes the terminal state back; a two-worker        *)
(* maintenance executor closes pools and releases staged data references; *)
(* close() stops everything.                                               *)
(*                                                                         *)
(* An action is one critical section of the manager's lock together with   *)
(* the calls that follow it before the next one, so two threads interleave *)
(* exactly where the code releases the lock.                               *)
(*                                                                         *)
(* Time is abstracted: the retention period, the idle time-to-live of the  *)
(* shared pool, the life of the summary cache and the 5 s join of close()  *)
(* may elapse, or not, whenever the code looks at them.                    *)
(***************************************************************************)
EXTENDS Naturals, FiniteSets

CONSTANTS
  JobIds,          \* job ids the clients use
  Priorities,      \* priorities of submissions
  Stamps,          \* values of submitted_at, read before the lock is taken
  Artifacts,       \* artifact keys: what a shared pool is built for
  Resets,          \* the reset_pool flags of submissions
  RefIds,          \* staged data references a payload may carry
  PoolIds,         \* identities of the task pools the manager creates
  MaxSubmits,      \* bound on the number of submissions
  ReuseIds,        \* when a client submits a known job id again:
                   \*   "never", "terminal" (the old job ended) or "any"
  Directions,      \* the directions administrators reorder in
  EscapingErrors,  \* may the code before the try block of a run raise?
  MayClose,        \* is close() called?
  Summaries,       \* is summary() called?
  None

ASSUME JobQueueAssumption ==
  /\ Priorities \subseteq Nat /\ Stamps \subseteq Nat
  /\ MaxSubmits \in Nat
  /\ Resets \subseteq BOOLEAN
  /\ ReuseIds \in {"never", "terminal", "any"}
  /\ Directions \subseteq {"up", "down"}
  /\ EscapingErrors \in BOOLEAN /\ MayClose \in BOOLEAN
  /\ Summaries \in BOOLEAN
  /\ None \notin JobIds \cup PoolIds

VARIABLES
  jobs,      \* _jobs: the JobState of every known id, or None
  listed,    \* the ids on _waiting_order ...
  before,    \* ... and its order: <<i, j>> when i's first entry precedes j's
  enqSeq,    \* _enqueue_seq
  running,   \* _running_job_id, None when ""
  cur,       \* _current_executor
  shared,    \* _shared_pool: [exec, artifact] or None
  pools,     \* the task pools behind the executors
  started,   \* _started
  stop,      \* _stop
  pc,        \* where the scheduler thread is; "off" when none is alive
  task,      \* its job id and, once snapshotted, the payload it runs
  exec,      \* its local executor
  held,      \* references it is about to release
  handoff,   \* release work it collected under the lock (refs_to_release)
  toClose,   \* the idle pool it detached under the lock
  cxl,       \* cancel_job() calls past their critical section
  cl,        \* where the close() call is
  clrel,     \* release_states of the close() call
  closeq,    \* pools queued on the maintenance executor for closing
  relq,      \* reference releases queued on the maintenance executor
  reg,       \* references registered with the data registry
  cache,     \* _summary_cache: the view it holds, or None
  sumc       \* a summary() call between its two critical sections, or None

schedVars == <<pc, task, exec, held, handoff, toClose>>
closeVars == <<cl, clrel, stop, started>>
orderVars == <<listed, before>>
poolVars  == <<shared, pools, closeq>>
viewVars  == <<cache, sumc>>
vars == <<jobs, orderVars, enqSeq, running, cur, poolVars, schedVars, cxl,
          closeVars, relq, reg, viewVars>>

-----------------------------------------------------------------------------
(* Helper state formulae. *)

Terminal == {"SUCCEEDED", "FAILED", "CANCELLED"}
Statuses == {"WAITING", "RUNNING"} \cup Terminal

\* The fields of a JobState that decide what happens to it; `seq` is unique
\* per submission and so tells one submission of an id from the next.
JobState == [status : Statuses, cancel : BOOLEAN, priority : Priorities,
             stamp : Stamps, seq : 1..MaxSubmits, artifact : Artifacts,
             reset : Resets, refs : SUBSET RefIds]

\* A task pool: not created yet, open or closed, and whether results of an
\* earlier job may still be pending in it.
Pool == [st : {"none", "open", "closed"}, pending : BOOLEAN]

\* The scheduler thread's view of the job it runs: its id when picked, the
\* payload it needs once that has been snapshotted.
Picked == [job : JobIds]
Snapshot == [job : JobIds, seq : 1..MaxSubmits, artifact : Artifacts, reset : Resets]

SharedPool == [exec : PoolIds, artifact : Artifacts]

RefWork == [job : JobIds, refs : SUBSET RefIds]

SummaryView == [current : JobIds \cup {None}, status : [JobIds -> Statuses \cup {"ABSENT"}]]
SummaryCall == [current : JobIds \cup {None}, fresh : BOOLEAN]

\* None is none of the records it stands in for.
ASSUME NoneAssumption ==
  /\ None \notin JobState /\ None \notin Picked /\ None \notin Snapshot
  /\ None \notin SharedPool /\ None \notin SummaryView /\ None \notin SummaryCall

\* The job may be picked: WAITING and not cancelled.
Live(js, j) == js[j] # None /\ js[j].status = "WAITING" /\ ~js[j].cancel

IsTerminal(js, j) == js[j] # None /\ js[j].status \in Terminal

\* The sort key (-priority, submitted_at, enqueue_seq) of the waiting order.
KeyLess(a, b) ==
  \/ a.priority > b.priority
  \/ a.priority = b.priority /\ a.stamp < b.stamp
  \/ a.priority = b.priority /\ a.stamp = b.stamp /\ a.seq < b.seq

\* _prune_waiting_order_locked: entries of jobs that cannot run are dropped.
Prune(js, L) == {j \in L : Live(js, j)}

Within(B, L) == B \cap (L \X L)

\* _insert_waiting_job_locked: j goes before the first entry with a larger
\* key.  An id that is listed already keeps its old entry as well; only the
\* first of the two counts, every reader of the list prunes the second.
InsertBefore(js, L, B, j) ==
  LET K     == Prune(js, L) \ {j}
      Ahead == {k \in K : \A m \in K : KeyLess(js[j], js[m]) =>
                                         m # k /\ <<m, k>> \notin B}
      Pre   == IF j \in L THEN {k \in Ahead : <<k, j>> \in B} ELSE Ahead
  IN  Within(B, K) \cup (Pre \X {j}) \cup ({j} \X (K \ Pre))

\* _pick_next_job_locked: the first listed job that may run; when the list
\* holds none, the smallest key among all the waiting jobs.
IsNext(js, L, j) ==
  /\ Live(js, j)
  /\ IF Prune(js, L) # {}
       THEN j \in L /\ \A k \in Prune(js, L) : k = j \/ <<j, k>> \in before
       ELSE \A k \in JobIds : Live(js, k) => k = j \/ KeyLess(js[j], js[k])

\* What summary() reports: the current job and every job's status.
View(r) == [current |-> r,
            status  |-> [j \in JobIds |-> IF jobs[j] = None THEN "ABSENT"
                                                            ELSE jobs[j].status]]

\* _invalidate_summary_locked: the cache is dropped, and the revision that a
\* summary() under way has read is out of date.
Invalidate ==
  /\ cache' = None
  /\ sumc' = IF sumc = None THEN None ELSE [sumc EXCEPT !.fresh = FALSE]

\* _submit_executor_close: queued on the maintenance executor, or closed on
\* the spot when that executor has been shut down.
CloseLater(S) ==
  IF cl # "done"
    THEN closeq' = closeq \cup S /\ UNCHANGED pools
    ELSE /\ pools' = [p \in PoolIds |->
                        IF p \in S THEN [pools[p] EXCEPT !.st = "closed"]
                                   ELSE pools[p]]
         /\ UNCHANGED closeq

StaleRunning == running # None /\ (jobs[running] = None \/ IsTerminal(jobs, running))

\* Mutant: the executor of the ended job is closed although it is shared.
DetachAndClose ==
  IF StaleRunning
    THEN /\ running' = None
         /\ cur' = None
         /\ CloseLater(IF cur = None THEN {} ELSE {cur})
    ELSE UNCHANGED <<running, cur, closeq, pools>>

\* _detach_stale_running_locked: forget a running job that has ended; its
\* executor is closed unless it is the shared pool.
DetachStale ==
  IF StaleRunning
    THEN /\ running' = None
         /\ cur' = None
         /\ CloseLater(IF cur = None \/ (shared # None /\ cur = shared.exec)
                         THEN {} ELSE {cur})
    ELSE UNCHANGED <<running, cur, closeq, pools>>

\* _ensure_scheduler_thread_locked: a new thread when the last one has died.
EnsureThread ==
  pc' = IF ~stop /\ started /\ pc = "off" THEN "top" ELSE pc

\* _release_refs_for_job: every reference of the snapshot is released at the
\* registry (a failing call is suppressed), then struck from the job's list.
Release(j, refs) ==
  /\ \E ok \in SUBSET refs : reg' = reg \ ok
  /\ jobs' = IF jobs[j] = None THEN jobs
             ELSE [jobs EXCEPT ![j].refs = @ \ refs]

-----------------------------------------------------------------------------
Init ==
  /\ jobs = [j \in JobIds |-> None]
  /\ listed = {} /\ before = {}
  /\ enqSeq = 0
  /\ running = None /\ cur = None /\ shared = None
  /\ pools = [p \in PoolIds |-> [st |-> "none", pending |-> FALSE]]
  /\ started = FALSE /\ stop = FALSE
  /\ pc = "off" /\ task = None /\ exec = None
  /\ held = {} /\ handoff = {} /\ toClose = None
  /\ cxl = {} /\ cl = "no" /\ clrel = {}
  /\ closeq = {} /\ relq = {}
  /\ reg = {}
  /\ cache = None /\ sumc = None

-----------------------------------------------------------------------------
(* Client operations. *)

\* start()
Start ==
  /\ ~started /\ ~stop
  /\ started' = TRUE
  /\ pc' = IF pc = "off" THEN "top" ELSE pc
  /\ UNCHANGED <<jobs, orderVars, enqSeq, running, cur, poolVars, task, exec, held,
                 handoff, toClose, cxl, cl, clrel, stop, relq, reg, viewVars>>

MaySubmit(j) ==
  \/ ReuseIds = "any"
  \/ jobs[j] = None
  \/ ReuseIds = "terminal" /\ IsTerminal(jobs, j)

\* submit_job(): the new JobState replaces whatever the id named before.  The
\* client has staged and registered the references of the payload.
Submit(j, prio, stamp, art, reset, refs) ==
  /\ enqSeq < MaxSubmits
  /\ MaySubmit(j)
  /\ DetachStale
  /\ enqSeq' = enqSeq + 1
  /\ jobs' = [jobs EXCEPT ![j] =
                [status |-> "WAITING", cancel |-> FALSE, priority |-> prio,
                 stamp |-> stamp, seq |-> enqSeq + 1, artifact |-> art,
                 reset |-> reset, refs |-> refs]]
  /\ listed' = Prune(jobs', listed) \cup {j}
  /\ before' = InsertBefore(jobs', listed, before, j)
  /\ reg' = reg \cup refs
  /\ Invalidate
  /\ EnsureThread
  /\ UNCHANGED <<shared, task, exec, held, handoff, toClose, cxl, closeVars, relq>>

\* The common part of get_job() and of both paths of summary().
Refresh ==
  /\ DetachStale
  /\ IF \E j \in JobIds : Live(jobs, j) THEN EnsureThread ELSE UNCHANGED pc

\* get_job(), and summary() answered from its cache
GetJob ==
  /\ Refresh
  /\ UNCHANGED <<jobs, orderVars, enqSeq, shared, task, exec, held, handoff, toClose,
                 cxl, closeVars, relq, reg, viewVars>>

\* summary() on a miss: the job list, the current job and the revision are
\* read under the lock, the payload is put together without it.
SummaryBegin ==
  /\ Summaries /\ sumc = None
  /\ Refresh
  /\ sumc' = [current |-> running', fresh |-> TRUE]
  /\ UNCHANGED <<jobs, orderVars, enqSeq, shared, task, exec, held, handoff, toClose,
                 cxl, closeVars, relq, reg, cache>>

\* Mutant: the revision is not compared before caching.
SummaryEndUnchecked ==
  /\ sumc # None
  /\ cache' = View(sumc.current)
  /\ sumc' = None
  /\ UNCHANGED <<jobs, orderVars, enqSeq, running, cur, poolVars, schedVars, cxl,
                 closeVars, relq, reg>>

\* ... and cached when the revision has not moved.
SummaryEnd ==
  /\ sumc # None
  /\ cache' = IF sumc.fresh THEN View(sumc.current) ELSE cache
  /\ sumc' = None
  /\ UNCHANGED <<jobs, orderVars, enqSeq, running, cur, poolVars, schedVars, cxl,
                 closeVars, relq, reg>>

\* Mutant: an ended job is cancelled like a waiting one.
CancelEnded(j) ==
  /\ jobs[j] # None /\ jobs[j].status # "RUNNING"
  /\ jobs' = [jobs EXCEPT ![j] = [@ EXCEPT !.status = "CANCELLED", !.cancel = TRUE]]
  /\ listed' = listed \ {j}
  /\ before' = Within(before, listed \ {j})
  /\ Invalidate
  /\ cxl' = cxl \cup {[job |-> j, refs |-> jobs[j].refs, step |-> "release"]}
  /\ UNCHANGED <<enqSeq, running, cur, poolVars, schedVars, closeVars, relq, reg>>

\* cancel_job() of a waiting job: terminal at once; its references are
\* released after the lock has been given up.
CancelWaiting(j) ==
  /\ jobs[j] # None /\ jobs[j].status = "WAITING"
  /\ jobs' = [jobs EXCEPT ![j] = [@ EXCEPT !.status = "CANCELLED", !.cancel = TRUE]]
  /\ listed' = listed \ {j}
  /\ before' = Within(before, listed \ {j})
  /\ Invalidate
  /\ cxl' = cxl \cup {[job |-> j, refs |-> jobs[j].refs, step |-> "release"]}
  /\ UNCHANGED <<enqSeq, running, cur, poolVars, schedVars, closeVars, relq, reg>>

\* cancel_job() of a running job: only a request, which the scheduler thread
\* sees at its next result and at the terminal write.
CancelRunning(j) ==
  /\ jobs[j] # None /\ jobs[j].status = "RUNNING"
  /\ jobs' = [jobs EXCEPT ![j].cancel = TRUE]
  /\ Invalidate
  /\ UNCHANGED <<orderVars, enqSeq, running, cur, poolVars, schedVars, cxl,
                 closeVars, relq, reg>>

CancelRelease(x) ==
  /\ x \in cxl /\ x.step = "release"
  /\ Release(x.job, x.refs)
  /\ cxl' = (cxl \ {x}) \cup {[x EXCEPT !.step = "get"]}
  /\ IF x.refs # {} THEN Invalidate ELSE UNCHANGED viewVars
  /\ UNCHANGED <<orderVars, enqSeq, running, cur, poolVars, schedVars, closeVars, relq>>

\* The get_job() that ends a cancel_job() call.
CancelGet(x) ==
  /\ x \in cxl /\ x.step = "get"
  /\ cxl' = cxl \ {x}
  /\ Refresh
  /\ UNCHANGED <<jobs, orderVars, enqSeq, shared, task, exec, held, handoff, toClose,
                 closeVars, relq, reg, viewVars>>

\* reorder_job(): swap with the neighbour in the given direction.
Reorder(j, dir) ==
  LET L == Prune(jobs, listed) \cup {j}
      B == IF j \in listed THEN Within(before, L)
                           ELSE InsertBefore(jobs, listed, before, j)
      Adjacent(a, b) == <<a, b>> \in B /\ ~\E m \in L : <<a, m>> \in B /\ <<m, b>> \in B
      Near == {k \in L : IF dir = "up" THEN Adjacent(k, j) ELSE Adjacent(j, k)}
  IN /\ Live(jobs, j)
     /\ listed' = L
     /\ before' = IF dir = "up" THEN (B \ (Near \X {j})) \cup ({j} \X Near)
                                ELSE (B \ ({j} \X Near)) \cup (Near \X {j})
     /\ Invalidate
     /\ UNCHANGED <<jobs, enqSeq, running, cur, poolVars, schedVars, cxl, closeVars,
                    relq, reg>>

-----------------------------------------------------------------------------
(* The scheduler thread: _loop. *)

\* Mutant: the wait for the running job does not look at _stop.
SchedExitWhenIdle ==
  /\ pc = "top" /\ stop /\ running = None
  /\ pc' = "off"
  /\ UNCHANGED <<jobs, orderVars, enqSeq, running, cur, poolVars, task, exec, held,
                 handoff, toClose, cxl, closeVars, relq, reg, viewVars>>

\* The loop ends when close() has been called.
SchedExit ==
  /\ pc = "top" /\ stop
  /\ pc' = "off"
  /\ UNCHANGED <<jobs, orderVars, enqSeq, running, cur, poolVars, task, exec, held,
                 handoff, toClose, cxl, closeVars, relq, reg, viewVars>>

\* Mutant: the loop does not wait for the running job.
LoopReadyAlways == pc = "top" /\ ~stop

\* The thread is past its wait on the running job, which is over.
LoopReady == pc = "top" /\ ~stop /\ (running = None \/ StaleRunning)

\* _cleanup_jobs_locked: any set of ended jobs may be past its retention.
Cleaned(E) == [j \in JobIds |-> IF j \in E THEN None ELSE jobs[j]]

ReleaseOf(S) == {[job |-> j, refs |-> jobs[j].refs] : j \in {k \in S : jobs[k].refs # {}}}

\* A job to run: it becomes RUNNING in the critical section that picks it.
SchedPick(E, j) ==
  LET js == Cleaned(E)
      L  == listed \ E
      W  == IF Prune(js, L) # {} THEN Prune(js, L) ELSE {k \in JobIds : Live(js, k)}
  IN /\ LoopReady
     /\ E \subseteq {k \in JobIds : IsTerminal(jobs, k)}
     /\ IsNext(js, L, j)
     /\ jobs' = [js EXCEPT ![j].status = "RUNNING"]
     /\ listed' = W \ {j}
     /\ before' = IF Prune(js, L) # {} THEN Within(before, W \ {j})
                  ELSE {p \in (W \ {j}) \X (W \ {j}) : KeyLess(js[p[1]], js[p[2]])}
     /\ running' = j
     /\ cur' = IF StaleRunning THEN None ELSE cur
     /\ handoff' = ReleaseOf(E)
     /\ task' = [job |-> j]
     /\ pc' = "flush"
     /\ Invalidate
     /\ UNCHANGED <<enqSeq, poolVars, exec, held, toClose, cxl, closeVars, relq, reg>>

\* Nothing to run: an idle shared pool may be past its time-to-live.  The
\* wait of 0.1 s on the condition variable ends the critical section.
SchedIdle(E, expire) ==
  LET js == Cleaned(E)
  IN /\ LoopReady
     /\ E \subseteq {k \in JobIds : IsTerminal(jobs, k)}
     /\ ~\E j \in JobIds : Live(js, j)
     /\ jobs' = js
     /\ listed' = {} /\ before' = {}
     /\ running' = None
     /\ cur' = IF StaleRunning THEN None ELSE cur
     /\ handoff' = ReleaseOf(E)
     /\ task' = None
     /\ expire => shared # None
     /\ toClose' = IF expire THEN shared.exec ELSE None
     /\ shared' = IF expire THEN None ELSE shared
     /\ pc' = "flush"
     /\ IF StaleRunning \/ E # {} THEN Invalidate ELSE UNCHANGED viewVars
     /\ UNCHANGED <<enqSeq, pools, closeq, exec, held, cxl, closeVars, relq, reg>>

\* The collected work goes to the maintenance executor.  When that has been
\* shut down the submission raises and the thread dies.
SchedFlush ==
  /\ pc = "flush"
  /\ handoff' = {} /\ toClose' = None
  /\ IF cl = "done" /\ handoff # {}
       THEN pc' = "off" /\ UNCHANGED <<relq, closeq, pools>>
       ELSE /\ pc' = IF task = None THEN "top" ELSE "run"
            /\ relq' = relq \cup handoff
            /\ CloseLater(IF toClose = None THEN {} ELSE {toClose})
  /\ UNCHANGED <<jobs, orderVars, enqSeq, running, cur, shared, task, exec, held, cxl,
                 closeVars, reg, viewVars>>

-----------------------------------------------------------------------------
(* The scheduler thread: _run_job and _run_job_with_hooks. *)

\* The payload is snapshotted; everything written back later goes to whatever
\* JobState the id names by then.
SchedSnapshot ==
  /\ pc = "run"
  /\ LET s == jobs[task.job]
     IN  task' = [job |-> task.job, seq |-> s.seq, artifact |-> s.artifact,
                  reset |-> s.reset]
  /\ pc' = "resolve"
  /\ UNCHANGED <<jobs, orderVars, enqSeq, running, cur, poolVars, exec, held, handoff,
                 toClose, cxl, closeVars, relq, reg, viewVars>>

\* The step succeeds and the run goes on.
SchedAdvance(from, to) ==
  /\ pc = from
  /\ pc' = to
  /\ UNCHANGED <<jobs, orderVars, enqSeq, running, cur, poolVars, task, exec, held,
                 handoff, toClose, cxl, closeVars, relq, reg, viewVars>>

SchedResolve == SchedAdvance("resolve", "blob")

SchedBlob == SchedAdvance("blob", "prepare")

\* An exception in _resolve_job_blob_bytes or _resolve_job_shared_pool_request
\* is raised before the try block: it leaves _run_job and _loop, and the
\* thread is gone while the job is RUNNING and still _running_job_id.
SchedEscape ==
  /\ EscapingErrors
  /\ pc = "blob"
  /\ pc' = "off"
  /\ UNCHANGED <<jobs, orderVars, enqSeq, running, cur, poolVars, task, exec, held,
                 handoff, toClose, cxl, closeVars, relq, reg, viewVars>>

\* A failure that is caught: unresolvable references, no blob, or an exception
\* of the try block (module load, pool creation, fan-out of globals, task
\* generator, a task, handle_result, finalize).  Whether the abandoned stream
\* leaves results pending in the pool depends on where it stood.
SchedFail(left) ==
  /\ pc \in {"resolve", "blob", "prepare", "create", "stream", "write"}
  /\ left => pc = "stream"
  /\ jobs' = [jobs EXCEPT ![task.job].status = "FAILED"]
  /\ pools' = IF pc = "stream" THEN [pools EXCEPT ![exec].pending = left] ELSE pools
  /\ pc' = "done"
  /\ Invalidate
  /\ UNCHANGED <<orderVars, enqSeq, running, cur, shared, closeq, task, exec, held,
                 handoff, toClose, cxl, closeVars, relq, reg>>

\* _get_or_create_shared_pool: the shared pool serves the same artifact, has
\* no pending results and need not be reset.
SchedReuse ==
  /\ pc = "prepare"
  /\ shared # None /\ shared.artifact = task.artifact
  /\ ~pools[shared.exec].pending /\ ~task.reset
  /\ exec' = shared.exec
  /\ pc' = "bind"
  /\ UNCHANGED <<jobs, orderVars, enqSeq, running, cur, poolVars, task, held, handoff,
                 toClose, cxl, closeVars, relq, reg, viewVars>>

\* Otherwise a shared pool is detached and closed, and a new one is needed.
SchedRebuild ==
  /\ pc = "prepare"
  /\ ~( /\ shared # None /\ shared.artifact = task.artifact
        /\ ~pools[shared.exec].pending /\ ~task.reset )
  /\ shared' = None
  /\ CloseLater(IF shared = None THEN {} ELSE {shared.exec})
  /\ pc' = "create"
  /\ UNCHANGED <<jobs, orderVars, enqSeq, running, cur, task, exec, held, handoff,
                 toClose, cxl, closeVars, relq, reg, viewVars>>

SchedCreate(p) ==
  /\ pc = "create"
  /\ pools[p].st = "none"
  /\ pools' = [pools EXCEPT ![p].st = "open"]
  /\ shared' = [exec |-> p, artifact |-> task.artifact]
  /\ exec' = p
  /\ pc' = "bind"
  /\ UNCHANGED <<jobs, orderVars, enqSeq, running, cur, closeq, task, held, handoff,
                 toClose, cxl, closeVars, relq, reg, viewVars>>

\* _prepare_shared_pool_for_job: the executor becomes the current one; then
\* the stream of task results is opened.
SchedBind ==
  /\ pc = "bind"
  /\ cur' = exec
  /\ pc' = "stream"
  /\ UNCHANGED <<jobs, orderVars, enqSeq, running, poolVars, task, exec, held, handoff,
                 toClose, cxl, closeVars, relq, reg, viewVars>>

\* A result arrives and the cancel flag is seen: the stream is abandoned.
SchedCancelSeen(left) ==
  /\ pc = "stream"
  /\ jobs[task.job].cancel
  /\ pools' = [pools EXCEPT ![exec].pending = left]
  /\ pc' = "write"
  /\ UNCHANGED <<jobs, orderVars, enqSeq, running, cur, shared, closeq, task, exec, held,
                 handoff, toClose, cxl, closeVars, relq, reg, viewVars>>

\* The stream is exhausted: every task has delivered its result.
SchedStreamEnd == SchedAdvance("stream", "write")

\* Mutant: a cancel request after the last result is overlooked.
SchedWritebackBlind ==
  /\ pc = "write"
  /\ jobs' = [jobs EXCEPT ![task.job].status = "SUCCEEDED"]
  /\ pc' = "done"
  /\ Invalidate
  /\ UNCHANGED <<orderVars, enqSeq, running, cur, poolVars, task, exec, held, handoff,
                 toClose, cxl, closeVars, relq, reg>>

\* Mutant: the run of a job that was cancelled writes no terminal status.
SchedWritebackUnlessCancelled ==
  /\ pc = "write"
  /\ jobs' = IF jobs[task.job].cancel THEN jobs
             ELSE [jobs EXCEPT ![task.job].status = "SUCCEEDED"]
  /\ pc' = "done"
  /\ Invalidate
  /\ UNCHANGED <<orderVars, enqSeq, running, cur, poolVars, task, exec, held, handoff,
                 toClose, cxl, closeVars, relq, reg>>

\* The terminal write: a cancel request that came first wins.
SchedWriteback ==
  /\ pc = "write"
  /\ jobs' = [jobs EXCEPT ![task.job].status =
                IF jobs[task.job].cancel THEN "CANCELLED" ELSE "SUCCEEDED"]
  /\ pc' = "done"
  /\ Invalidate
  /\ UNCHANGED <<orderVars, enqSeq, running, cur, poolVars, task, exec, held, handoff,
                 toClose, cxl, closeVars, relq, reg>>

\* Mutant: the references of the ended job are forgotten.
SchedDoneNoRelease ==
  /\ pc = "done"
  /\ DetachStale
  /\ pc' = "clear"
  /\ UNCHANGED <<jobs, orderVars, enqSeq, shared, task, exec, held, handoff, toClose, cxl,
                 closeVars, relq, reg, viewVars>>

\* Back in _loop: get_job() of the job that ran.
SchedDone ==
  /\ pc = "done"
  /\ DetachStale
  /\ IF IsTerminal(jobs, task.job)
       THEN pc' = "release" /\ held' = jobs[task.job].refs
       ELSE pc' = "clear" /\ UNCHANGED held
  /\ UNCHANGED <<jobs, orderVars, enqSeq, shared, task, exec, handoff, toClose, cxl,
                 closeVars, relq, reg, viewVars>>

SchedRelease ==
  /\ pc = "release"
  /\ Release(task.job, held)
  /\ held' = {}
  /\ pc' = "clear"
  /\ IF held # {} THEN Invalidate ELSE UNCHANGED viewVars
  /\ UNCHANGED <<orderVars, enqSeq, running, cur, poolVars, task, exec, handoff, toClose,
                 cxl, closeVars, relq>>

SchedClear ==
  /\ pc = "clear"
  /\ running' = None /\ cur' = None
  /\ task' = None /\ exec' = None
  /\ pc' = "top"
  /\ Invalidate
  /\ UNCHANGED <<jobs, orderVars, enqSeq, poolVars, held, handoff, toClose, cxl,
                 closeVars, relq, reg>>

-----------------------------------------------------------------------------
(* The maintenance executor. *)

MaintClose(p) ==
  /\ p \in closeq
  /\ closeq' = closeq \ {p}
  /\ pools' = [pools EXCEPT ![p].st = "closed"]
  /\ UNCHANGED <<jobs, orderVars, enqSeq, running, cur, shared, schedVars, cxl,
                 closeVars, relq, reg, viewVars>>

MaintRelease(x) ==
  /\ x \in relq
  /\ relq' = relq \ {x}
  /\ Release(x.job, x.refs)
  /\ UNCHANGED <<orderVars, enqSeq, running, cur, poolVars, schedVars, cxl, closeVars,
                 viewVars>>

-----------------------------------------------------------------------------
(* close(). *)

CloseBegin ==
  /\ MayClose /\ cl = "no" /\ started
  /\ stop' = TRUE /\ started' = FALSE
  /\ jobs' = [j \in JobIds |->
                IF jobs[j] = None THEN None
                ELSE IF jobs[j].status = "WAITING"
                       THEN [jobs[j] EXCEPT !.status = "CANCELLED", !.cancel = TRUE]
                       ELSE [jobs[j] EXCEPT !.cancel = @ \/ j = running]]
  /\ cl' = "join"
  /\ UNCHANGED <<orderVars, enqSeq, running, cur, poolVars, schedVars, cxl, clrel,
                 relq, reg, viewVars>>

\* The join ends with the thread, or after 5 s without it.  The executors are
\* queued for closing.
CloseDetach ==
  /\ cl = "join"
  /\ shared' = None
  /\ clrel' = ReleaseOf({j \in JobIds : jobs[j] # None})
  /\ CloseLater({cur, IF shared = None THEN None ELSE shared.exec} \ {None})
  /\ cl' = "release"
  /\ UNCHANGED <<jobs, orderVars, enqSeq, running, cur, schedVars, cxl, started, stop,
                 relq, reg, viewVars>>

CloseRelease(x) ==
  /\ cl = "release" /\ x \in clrel
  /\ clrel' = clrel \ {x}
  /\ Release(x.job, x.refs)
  /\ Invalidate
  /\ UNCHANGED <<orderVars, enqSeq, running, cur, poolVars, schedVars, cxl, cl, started,
                 stop, relq>>

\* shutdown(wait=True, cancel_futures=True): what no worker has taken is dropped.
CloseShutdown ==
  /\ cl = "release" /\ clrel = {}
  /\ closeq' = {} /\ relq' = {}
  /\ cl' = "done"
  /\ UNCHANGED <<jobs, orderVars, enqSeq, running, cur, shared, pools, schedVars, cxl,
                 clrel, started, stop, reg, viewVars>>

-----------------------------------------------------------------------------
Clients ==
  \/ Start
  \/ \E j \in JobIds, prio \in Priorities, stamp \in Stamps, art \in Artifacts,
        reset \in Resets, refs \in SUBSET RefIds : Submit(j, prio, stamp, art, reset, refs)
  \/ GetJob
  \/ SummaryBegin
  \/ SummaryEnd
  \/ \E j \in JobIds : CancelWaiting(j)
  \/ \E j \in JobIds : CancelRunning(j)
  \/ \E x \in cxl : CancelRelease(x)
  \/ \E x \in cxl : CancelGet(x)
  \/ \E j \in JobIds, dir \in Directions : Reorder(j, dir)

Scheduler ==
  \/ SchedExit
  \/ \E E \in SUBSET JobIds, j \in JobIds : SchedPick(E, j)
  \/ \E E \in SUBSET JobIds, expire \in BOOLEAN : SchedIdle(E, expire)
  \/ SchedFlush
  \/ SchedSnapshot
  \/ SchedResolve
  \/ SchedBlob
  \/ SchedEscape
  \/ \E left \in BOOLEAN : SchedFail(left)
  \/ SchedReuse
  \/ SchedRebuild
  \/ \E p \in PoolIds : SchedCreate(p)
  \/ SchedBind
  \/ \E left \in BOOLEAN : SchedCancelSeen(left)
  \/ SchedStreamEnd
  \/ SchedWriteback
  \/ SchedDone
  \/ SchedRelease
  \/ SchedClear

Maintenance ==
  \/ \E p \in closeq : MaintClose(p)
  \/ \E x \in relq : MaintRelease(x)

Closer ==
  \/ CloseBegin
  \/ CloseDetach
  \/ \E x \in clrel : CloseRelease(x)
  \/ CloseShutdown

Next == Clients \/ Scheduler \/ Maintenance \/ Closer

Spec == Init /\ [][Next]_vars

\* The scheduler thread, the maintenance workers and close() keep running, the
\* manager is started, and clients poll (wait_for_terminal calls get_job).  The
\* user's task stream ends or raises: imap_unordered has a result timeout.
FairSpec ==
  /\ Spec
  /\ WF_vars(Start) /\ WF_vars(GetJob)
  /\ WF_vars(Scheduler) /\ WF_vars(Maintenance)
  /\ WF_vars(CloseDetach \/ (\E x \in clrel : CloseRelease(x)) \/ CloseShutdown)

-----------------------------------------------------------------------------
(* Correctness. *)

RunPcs == {"resolve", "blob", "prepare", "create", "bind", "stream", "write", "done",
           "release", "clear"}
Pcs == {"off", "top", "flush", "run"} \cup RunPcs

TypeJobs  == jobs \in [JobIds -> JobState \cup {None}] /\ enqSeq \in 0..MaxSubmits
TypeOrder == listed \subseteq JobIds /\ before \subseteq listed \X listed
TypePools == /\ cur \in PoolIds \cup {None} /\ shared \in SharedPool \cup {None}
             /\ pools \in [PoolIds -> Pool] /\ closeq \subseteq PoolIds
TypeView  == /\ running \in JobIds \cup {None}
             /\ cache \in SummaryView \cup {None} /\ sumc \in SummaryCall \cup {None}
TypeRefs  == /\ cxl \subseteq [job : JobIds, refs : SUBSET RefIds, step : {"release", "get"}]
             /\ clrel \subseteq RefWork /\ relq \subseteq RefWork /\ handoff \subseteq RefWork
             /\ held \subseteq RefIds /\ reg \subseteq RefIds
TypeFlags == /\ started \in BOOLEAN /\ stop \in BOOLEAN
             /\ cl \in {"no", "join", "release", "done"}
TypeSched == /\ pc \in Pcs
             /\ task \in Picked \cup Snapshot \cup {None}
             /\ exec \in PoolIds \cup {None} /\ toClose \in PoolIds \cup {None}
             /\ pc = "run" => task # None
             /\ pc \in RunPcs => task \in Snapshot
             /\ pc \in {"bind", "stream"} => exec \in PoolIds

TypeRun   == pc \in {"flush", "run"} \cup RunPcs /\ task # None =>
               task.job \in JobIds /\ jobs[task.job] # None

\* Types, and which of the scheduler thread's locals are set where: a payload
\* from the snapshot on, an executor from the preparation of the pool to the
\* end of the task stream; the job being run stays in the table, so that none
\* of the "state is None" branches of the run is taken (_run_job,
\* _run_job_with_hooks, _cleanup_jobs_locked).
TypeOK == /\ TypeJobs /\ TypeOrder /\ TypePools /\ TypeView /\ TypeRefs /\ TypeFlags
          /\ TypeSched /\ TypeRun

\* "At any moment a single big job is let into RUNNING": the only RUNNING job
\* is _running_job_id, whatever clients, resubmissions of an id and a scheduler
\* thread that died in the middle of a job do (_loop, _detach_stale_running_locked).
SingleActive == \A j \in JobIds : jobs[j] # None /\ jobs[j].status = "RUNNING" => running = j

\* No waiting job is lost: every job that may run is on the waiting order, so
\* the fallback scan of _pick_next_job_locked never decides; and the order is
\* total, so that "first" means something after any inserts, removals and swaps.
OrderSound ==
  /\ \A j \in JobIds : Live(jobs, j) => j \in listed
  /\ \A j, k \in listed : j # k => (<<j, k>> \in before <=> <<k, j>> \notin before)
  /\ \A j, k, m \in listed : <<j, k>> \in before /\ <<k, m>> \in before => <<j, m>> \in before

\* As long as nobody reorders, and no id is submitted again while its job is
\* waiting, jobs wait in the order of (-priority, submitted_at, enqueue_seq),
\* although submitted_at is read before the lock that hands out enqueue_seq.
PriorityOrder ==
  \A j, k \in listed : Live(jobs, j) /\ Live(jobs, k) /\ j # k =>
    (<<j, k>> \in before <=> KeyLess(jobs[j], jobs[k]))

\* Until close() detaches the pools, nobody closes, or has queued for closing,
\* the pool that the next job would reuse or the pool a job is running on
\* (_detach_stale_running_locked, idle expiry, rebuild, maintenance executor).
PoolSafe ==
  cl \in {"no", "join"} =>
    /\ shared # None => /\ pools[shared.exec].st = "open"
                        /\ shared.exec \notin closeq /\ shared.exec # toClose
    /\ pc \in {"bind", "stream"} => shared # None /\ exec = shared.exec

\* The references of an ended job are released by somebody: the scheduler
\* thread that ended it or the cancel_job() call that did is still on its way
\* to doing so, or close() is.
RefsOwned ==
  \A j \in JobIds : IsTerminal(jobs, j) /\ jobs[j].refs # {} =>
    \/ stop
    \/ pc \in {"done", "release"} /\ task.job = j
    \/ \E x \in cxl : x.job = j /\ x.step = "release" /\ jobs[j].refs \subseteq x.refs

\* A cached summary is the view of the state it is served in: every change of a
\* status or of the current job has moved the revision, also one that happens
\* between the two critical sections of summary().  close() does not invalidate.
SummaryFresh == ~stop /\ cache # None => cache = View(running)

\* An ended job does not change its status any more, unless its id is submitted
\* again (cancel_job, the terminal writes of the scheduler thread, close).
TerminalFinal ==
  [][\A j \in JobIds :
       IsTerminal(jobs, j) /\ jobs'[j] # None /\ jobs'[j].seq = jobs[j].seq
         => jobs'[j].status = jobs[j].status]_vars

\* SUCCEEDED is only written to the submission whose payload has been run: the
\* write goes by job id, and the id may have been given to a new job meanwhile.
SuccessIsOwn ==
  [][\A j \in JobIds :
       jobs'[j] # None /\ jobs'[j].status = "SUCCEEDED"
         /\ (jobs[j] = None \/ jobs[j].status # "SUCCEEDED")
         => task.job = j /\ task.seq = jobs'[j].seq]_vars

\* A cancel request that was accepted before the terminal write is honoured: the
\* job ends CANCELLED or FAILED, never SUCCEEDED.
CancelHonoured ==
  [][\A j \in JobIds :
       jobs[j] # None /\ jobs[j].cancel /\ jobs'[j] # None /\ jobs'[j].seq = jobs[j].seq
         => jobs'[j].cancel /\ (jobs'[j].status = "SUCCEEDED" => jobs[j].status = "SUCCEEDED")]_vars

Unfinished(n) == \E j \in JobIds : /\ jobs[j] # None /\ jobs[j].seq = n
                                   /\ jobs[j].status \notin Terminal

\* Every job reaches a terminal state (what wait_for_terminal polls for) unless
\* the manager is closed.
JobsEnd == \A n \in 1..MaxSubmits : Unfinished(n) ~> (~Unfinished(n) \/ stop)

\* The running job has lost its scheduler thread.
Wedged == running # None /\ ~StaleRunning /\ ~(pc \in {"flush", "run"} \cup RunPcs)

\* The death of the scheduler thread in the middle of a job is the only reason
\* for which a job does not end: no wakeup, cancellation, hand-over of the thread
\* or release of references blocks the queue (_loop, get_job, cancel_job).
JobsEndOrWedge ==
  \A n \in 1..MaxSubmits : Unfinished(n) ~> (~Unfinished(n) \/ stop \/ Wedged)

\* close() comes to its end and the scheduler thread goes away, also when the
\* thread waits for a job that will never end.
CloseEnds == stop ~> (cl = "done" /\ pc = "off")

-----------------------------------------------------------------------------
(* The abstract queue. *)

StatusOf == [j \in JobIds |-> IF jobs[j] = None THEN "ABSENT" ELSE jobs[j].status]
AskedOf  == {j \in JobIds : jobs[j] # None /\ jobs[j].status = "RUNNING" /\ jobs[j].cancel}

Serial == INSTANCE SerialJobs WITH Jobs <- JobIds, status <- StatusOf, asked <- AskedOf

\* Every behaviour of the manager in which no id is submitted again before its
\* job has ended is one of the abstract queue: whatever threads, pools,
\* references, cancellations, clean-ups and a scheduler that dies do, a client
\* sees jobs that run one at a time and end once (submit_job, cancel_job, _loop,
\* _run_job_with_hooks, close).
ImplementsSerialJobs == Serial!SerialSpec
=============================================================================
