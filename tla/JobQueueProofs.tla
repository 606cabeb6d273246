--------------------------- MODULE JobQueueProofs ---------------------------
(***************************************************************************)
(* Proofs about JobQueue for every value of its constants: type            *)
(* correctness, a single active job and no use of a closed pool; then what *)
(* it tells its clients: cancel requests are honoured, summaries are       *)
(* fresh, the references of ended jobs are released by somebody, the       *)
(* manager implements SerialJobs, and the waiting order loses no job.      *)
(***************************************************************************)
EXTENDS JobQueue, TLAPS

\* The initial state has the types of TypeOK.
LEMMA TypeInit == Init => TypeOK
<1> SUFFICES ASSUME Init PROVE TypeOK
  OBVIOUS
<1> USE JobQueueAssumption DEF Init
<1>1. TypeJobs  BY DEF TypeJobs
<1>2. TypeOrder BY DEF TypeOrder
<1>3. TypePools BY DEF TypePools, Pool
<1>4. TypeView  BY DEF TypeView
<1>5. TypeRefs  BY DEF TypeRefs
<1>6. TypeFlags BY DEF TypeFlags
<1>7. TypeSched BY DEF TypeSched, Pcs, RunPcs
<1>8. TypeRun   BY DEF TypeRun
<1> QED
  BY <1>1, <1>2, <1>3, <1>4, <1>5, <1>6, <1>7, <1>8 DEF TypeOK

\* Cancelling a JobState gives a JobState.
LEMMA Cancelled ==
  ASSUME NEW s \in JobState
  PROVE  [s EXCEPT !.status = "CANCELLED", !.cancel = TRUE] \in JobState
BY DEF JobState, Statuses, Terminal

\* No step of the clients leaves the types.
LEMMA TypeClients == TypeOK /\ Clients => TypeOK'
<1> SUFFICES ASSUME TypeOK, Clients PROVE TypeOK'
  OBVIOUS
<1> USE JobQueueAssumption, NoneAssumption DEF TypeOK
<1>1. CASE Start
  <2> USE <1>1 DEF Start, orderVars, poolVars, viewVars
  <2>1. TypeJobs' /\ TypeOrder' /\ TypePools' /\ TypeView' /\ TypeRefs'
    BY DEF TypeJobs, TypeOrder, TypePools, TypeView, TypeRefs
  <2>2. TypeFlags'
    BY DEF TypeFlags
  <2>3. TypeSched'
    BY DEF TypeSched, Pcs, RunPcs
  <2>4. TypeRun'
    BY DEF TypeRun, TypeSched, RunPcs
  <2> QED
    BY <2>1, <2>2, <2>3, <2>4
<1>2. ASSUME NEW j \in JobIds, NEW prio \in Priorities, NEW stamp \in Stamps,
             NEW art \in Artifacts, NEW reset \in Resets, NEW refs \in SUBSET RefIds,
             Submit(j, prio, stamp, art, reset, refs)
      PROVE  TypeOK'
  <2> USE <1>2 DEF Submit, closeVars
  <2>1. TypeFlags'
    BY DEF TypeFlags
  <2>2. TypeJobs'
    BY DEF TypeJobs, JobState, Statuses
  <2>3. TypeOrder'
    BY DEF TypeOrder, InsertBefore, Prune, Within
  <2>4. TypePools'
    BY DEF TypePools, DetachStale, CloseLater, Pool
  <2>5. TypeView'
    BY DEF TypeView, DetachStale, Invalidate, SummaryCall
  <2>6. TypeRefs'
    BY DEF TypeRefs
  <2>7. TypeSched'
    BY DEF TypeSched, Pcs, RunPcs, EnsureThread
  <2>8. TypeRun'
    <3>1. jobs'[j] \in JobState
      BY DEF TypeJobs, JobState, Statuses
    <3>2. \A k \in JobIds \ {j} : jobs'[k] = jobs[k]
      BY DEF TypeJobs
    <3> QED
      BY <3>1, <3>2 DEF TypeRun, TypeSched, RunPcs, EnsureThread
  <2> QED
    BY <2>1, <2>2, <2>3, <2>4, <2>5, <2>6, <2>7, <2>8
<1>3. CASE GetJob
  <2> USE <1>3 DEF GetJob, closeVars, orderVars, viewVars
  <2>1. TypeJobs' /\ TypeOrder' /\ TypeRefs' /\ TypeFlags'
    BY DEF TypeJobs, TypeOrder, TypeRefs, TypeFlags
  <2>2. TypePools'
    BY DEF TypePools, Refresh, DetachStale, CloseLater, Pool
  <2>3. TypeView'
    BY DEF TypeView, Refresh, DetachStale
  <2>4. TypeSched'
    BY DEF TypeSched, Refresh, EnsureThread, Pcs, RunPcs
  <2>5. TypeRun'
    BY DEF TypeRun, TypeSched, RunPcs, Refresh, EnsureThread
  <2> QED
    BY <2>1, <2>2, <2>3, <2>4, <2>5
<1>4. CASE SummaryBegin
  <2> USE <1>4 DEF SummaryBegin, closeVars, orderVars
  <2>1. TypeJobs' /\ TypeOrder' /\ TypeRefs' /\ TypeFlags'
    BY DEF TypeJobs, TypeOrder, TypeRefs, TypeFlags
  <2>2. TypePools'
    BY DEF TypePools, Refresh, DetachStale, CloseLater, Pool
  <2>3. TypeView'
    BY DEF TypeView, Refresh, DetachStale, SummaryCall
  <2>4. TypeSched'
    BY DEF TypeSched, Refresh, EnsureThread, Pcs, RunPcs
  <2>5. TypeRun'
    BY DEF TypeRun, TypeSched, RunPcs, Refresh, EnsureThread
  <2> QED
    BY <2>1, <2>2, <2>3, <2>4, <2>5
<1>5. CASE SummaryEnd
  <2> USE <1>5 DEF SummaryEnd, closeVars, orderVars, poolVars, schedVars
  <2>1. TypeJobs' /\ TypeOrder' /\ TypePools' /\ TypeRefs' /\ TypeFlags' /\ TypeSched' /\ TypeRun'
    BY DEF TypeJobs, TypeOrder, TypePools, TypeRefs, TypeFlags, TypeSched, TypeRun
  <2>2. TypeView'
    BY DEF TypeView, TypeJobs, View, SummaryView, SummaryCall, JobState
  <2> QED
    BY <2>1, <2>2
<1>6. ASSUME NEW j \in JobIds,
             CancelWaiting(j)
      PROVE  TypeOK'
  <2> USE <1>6 DEF CancelWaiting, closeVars, poolVars, schedVars
  <2>1. TypePools' /\ TypeFlags' /\ TypeSched'
    BY DEF TypePools, TypeFlags, TypeSched
  <2>2. TypeJobs'
    BY ZenonT(60) DEF TypeJobs, JobState, Statuses, Terminal
  <2>3. TypeOrder'
    BY DEF TypeOrder, Within
  <2>4. TypeView'
    BY DEF TypeView, Invalidate, SummaryCall
  <2>5. TypeRefs'
    BY DEF TypeRefs, TypeJobs, JobState
  <2>6. TypeRun'
    <3>1. jobs[j] \in JobState
      BY DEF TypeJobs
    <3>2. jobs'[j] = [jobs[j] EXCEPT !.status = "CANCELLED", !.cancel = TRUE]
      BY DEF TypeJobs
    <3>3. jobs'[j] \in JobState
      BY <3>1, <3>2, Cancelled
    <3>4. \A k \in JobIds \ {j} : jobs'[k] = jobs[k]
      BY DEF TypeJobs
    <3> QED
      BY <3>3, <3>4 DEF TypeRun, TypeSched, RunPcs
  <2> QED
    BY <2>1, <2>2, <2>3, <2>4, <2>5, <2>6
<1>7. ASSUME NEW j \in JobIds,
             CancelRunning(j)
      PROVE  TypeOK'
  <2> USE <1>7 DEF CancelRunning, closeVars, orderVars, poolVars, schedVars
  <2>1. TypeOrder' /\ TypePools' /\ TypeRefs' /\ TypeFlags' /\ TypeSched'
    BY DEF TypeOrder, TypePools, TypeRefs, TypeFlags, TypeSched
  <2>2. TypeJobs'
    BY DEF TypeJobs, JobState
  <2>3. TypeView'
    BY DEF TypeView, Invalidate, SummaryCall
  <2>4. TypeRun'
    BY DEF TypeRun, TypeSched, RunPcs, TypeJobs, JobState
  <2> QED
    BY <2>1, <2>2, <2>3, <2>4
<1>8. ASSUME NEW x \in cxl,
             CancelRelease(x)
      PROVE  TypeOK'
  <2> USE <1>8 DEF CancelRelease, closeVars, orderVars, poolVars, schedVars, viewVars
  <2>1. TypeOrder' /\ TypePools' /\ TypeFlags' /\ TypeSched'
    BY DEF TypeOrder, TypePools, TypeFlags, TypeSched
  <2>2. TypeJobs'
    BY DEF TypeJobs, Release, TypeRefs, JobState
  <2>3. TypeView'
    BY DEF TypeView, Invalidate, SummaryCall
  <2>4. TypeRefs'
    BY DEF TypeRefs, Release
  <2>5. TypeRun'
    BY DEF TypeRun, TypeSched, RunPcs, Release, TypeJobs, JobState
  <2> QED
    BY <2>1, <2>2, <2>3, <2>4, <2>5
<1>9. ASSUME NEW x \in cxl,
             CancelGet(x)
      PROVE  TypeOK'
  <2> USE <1>9 DEF CancelGet, closeVars, orderVars, viewVars
  <2>1. TypeJobs' /\ TypeOrder' /\ TypeFlags'
    BY DEF TypeJobs, TypeOrder, TypeFlags
  <2>2. TypePools'
    BY DEF TypePools, Refresh, DetachStale, CloseLater, Pool
  <2>3. TypeView'
    BY DEF TypeView, Refresh, DetachStale
  <2>4. TypeRefs'
    BY DEF TypeRefs
  <2>5. TypeSched'
    BY DEF TypeSched, Refresh, EnsureThread, Pcs, RunPcs
  <2>6. TypeRun'
    BY DEF TypeRun, TypeSched, RunPcs, Refresh, EnsureThread
  <2> QED
    BY <2>1, <2>2, <2>3, <2>4, <2>5, <2>6
<1>10. ASSUME NEW j \in JobIds, NEW dir \in Directions,
             Reorder(j, dir)
      PROVE  TypeOK'
  <2> USE <1>10 DEF Reorder, closeVars, poolVars, schedVars
  <2>1. TypeJobs' /\ TypePools' /\ TypeRefs' /\ TypeFlags' /\ TypeSched' /\ TypeRun'
    BY DEF TypeJobs, TypePools, TypeRefs, TypeFlags, TypeSched, TypeRun
  <2>2. TypeOrder'
    BY DEF TypeOrder, InsertBefore, Prune, Within
  <2>3. TypeView'
    BY DEF TypeView, Invalidate, SummaryCall
  <2> QED
    BY <2>1, <2>2, <2>3
<1> QED
  BY <1>1, <1>2, <1>3, <1>4, <1>5, <1>6, <1>7, <1>8, <1>9, <1>10 DEF Clients

\* No step of the scheduler thread leaves the types.
LEMMA TypeScheduler == TypeOK /\ Scheduler => TypeOK'
<1> SUFFICES ASSUME TypeOK, Scheduler PROVE TypeOK'
  OBVIOUS
<1> USE JobQueueAssumption, NoneAssumption DEF TypeOK
<1>1. CASE SchedExit
  <2> USE <1>1 DEF SchedExit, closeVars, orderVars, poolVars, viewVars
  <2>1. TypeJobs' /\ TypeOrder' /\ TypePools' /\ TypeView' /\ TypeRefs' /\ TypeFlags'
    BY DEF TypeJobs, TypeOrder, TypePools, TypeView, TypeRefs, TypeFlags
  <2>2. TypeSched'
    BY DEF TypeSched, Pcs, RunPcs
  <2>3. TypeRun'
    BY DEF TypeRun, TypeSched, RunPcs
  <2> QED
    BY <2>1, <2>2, <2>3
<1>2. ASSUME NEW E \in SUBSET JobIds, NEW j \in JobIds,
             SchedPick(E, j)
      PROVE  TypeOK'
  <2> USE <1>2 DEF SchedPick, closeVars, poolVars
  <2>1. TypeFlags'
    BY DEF TypeFlags
  <2>2. TypeJobs'
    BY DEF TypeJobs, Cleaned, IsNext, Live, JobState, Statuses
  <2>3. TypeOrder'
    BY DEF TypeOrder, Prune, Within
  <2>4. TypePools'
    BY DEF TypePools
  <2>5. TypeView'
    BY DEF TypeView, Invalidate, SummaryCall
  <2>6. TypeRefs'
    BY DEF TypeRefs, ReleaseOf, RefWork, TypeJobs, JobState, IsTerminal
  <2>7. TypeSched'
    BY DEF TypeSched, Picked, Pcs, RunPcs
  <2>8. TypeRun'
    <3>1. jobs'[j] \in JobState
      BY DEF TypeJobs, Cleaned, IsNext, Live, JobState, Statuses
    <3> QED
      BY <3>1 DEF TypeRun
  <2> QED
    BY <2>1, <2>2, <2>3, <2>4, <2>5, <2>6, <2>7, <2>8
<1>3. ASSUME NEW E \in SUBSET JobIds, NEW expire \in BOOLEAN,
             SchedIdle(E, expire)
      PROVE  TypeOK'
  <2> USE <1>3 DEF SchedIdle, closeVars, viewVars
  <2>1. TypeFlags'
    BY DEF TypeFlags
  <2>2. TypeJobs'
    BY DEF TypeJobs, Cleaned
  <2>3. TypeOrder'
    BY DEF TypeOrder
  <2>4. TypePools'
    BY DEF TypePools
  <2>5. TypeView'
    BY ZenonT(60) DEF TypeView, Invalidate, SummaryCall
  <2>6. TypeRefs'
    BY DEF TypeRefs, ReleaseOf, RefWork, TypeJobs, JobState, IsTerminal
  <2>7. TypeSched'
    BY DEF TypeSched, TypePools, SharedPool, Pcs, RunPcs
  <2>8. TypeRun'
    BY DEF TypeRun, TypeSched, RunPcs, Cleaned, TypeJobs, JobState
  <2> QED
    BY <2>1, <2>2, <2>3, <2>4, <2>5, <2>6, <2>7, <2>8
<1>4. CASE SchedFlush
  <2> USE <1>4 DEF SchedFlush, closeVars, orderVars, viewVars
  <2>1. TypeJobs' /\ TypeOrder' /\ TypeView' /\ TypeFlags'
    BY DEF TypeJobs, TypeOrder, TypeView, TypeFlags
  <2>2. TypePools'
    BY DEF TypePools, TypeSched, CloseLater, Pool
  <2>3. TypeRefs'
    BY DEF TypeRefs
  <2>4. TypeSched'
    BY DEF TypeSched, Pcs, RunPcs
  <2>5. TypeRun'
    BY DEF TypeRun, TypeSched, RunPcs
  <2> QED
    BY <2>1, <2>2, <2>3, <2>4, <2>5
<1>5. CASE SchedSnapshot
  <2> USE <1>5 DEF SchedSnapshot, closeVars, orderVars, poolVars, viewVars
  <2>1. TypeJobs' /\ TypeOrder' /\ TypePools' /\ TypeView' /\ TypeRefs' /\ TypeFlags'
    BY DEF TypeJobs, TypeOrder, TypePools, TypeView, TypeRefs, TypeFlags
  <2>2. task.job \in JobIds /\ jobs[task.job] \in JobState
    BY DEF TypeSched, TypeRun, TypeJobs
  <2>3. TypeSched'
    BY <2>2 DEF TypeSched, Pcs, RunPcs, JobState, Snapshot
  <2>4. TypeRun'
    BY <2>2 DEF TypeRun
  <2> QED
    BY <2>1, <2>3, <2>4
<1>6. CASE SchedResolve
  <2> USE <1>6 DEF SchedResolve, closeVars, orderVars, poolVars, viewVars
  <2>1. TypeJobs' /\ TypeOrder' /\ TypePools' /\ TypeView' /\ TypeRefs' /\ TypeFlags'
    BY DEF TypeJobs, TypeOrder, TypePools, TypeView, TypeRefs, TypeFlags, SchedAdvance
  <2>2. TypeSched'
    BY DEF TypeSched, SchedAdvance, Pcs, RunPcs
  <2>3. TypeRun'
    BY DEF TypeRun, TypeSched, RunPcs, SchedAdvance
  <2> QED
    BY <2>1, <2>2, <2>3
<1>7. CASE SchedBlob
  <2> USE <1>7 DEF SchedBlob, closeVars, orderVars, poolVars, viewVars
  <2>1. TypeJobs' /\ TypeOrder' /\ TypePools' /\ TypeView' /\ TypeRefs' /\ TypeFlags'
    BY DEF TypeJobs, TypeOrder, TypePools, TypeView, TypeRefs, TypeFlags, SchedAdvance
  <2>2. TypeSched'
    BY DEF TypeSched, SchedAdvance, Pcs, RunPcs
  <2>3. TypeRun'
    BY DEF TypeRun, TypeSched, RunPcs, SchedAdvance
  <2> QED
    BY <2>1, <2>2, <2>3
<1>8. CASE SchedEscape
  <2> USE <1>8 DEF SchedEscape, closeVars, orderVars, poolVars, viewVars
  <2>1. TypeJobs' /\ TypeOrder' /\ TypePools' /\ TypeView' /\ TypeRefs' /\ TypeFlags'
    BY DEF TypeJobs, TypeOrder, TypePools, TypeView, TypeRefs, TypeFlags
  <2>2. TypeSched'
    BY DEF TypeSched, Pcs, RunPcs
  <2>3. TypeRun'
    BY DEF TypeRun, TypeSched, RunPcs
  <2> QED
    BY <2>1, <2>2, <2>3
<1>9. ASSUME NEW left \in BOOLEAN,
             SchedFail(left)
      PROVE  TypeOK'
  <2> USE <1>9 DEF SchedFail, closeVars, orderVars
  <2>1. TypeOrder' /\ TypeRefs' /\ TypeFlags'
    BY DEF TypeOrder, TypeRefs, TypeFlags
  <2>2. TypeJobs'
    BY DEF TypeJobs, TypeSched, TypeRun, RunPcs, JobState, Statuses, Terminal
  <2>3. TypePools'
    BY DEF TypePools, TypeSched, Pool
  <2>4. TypeView'
    BY DEF TypeView, Invalidate, SummaryCall
  <2>5. TypeSched'
    BY DEF TypeSched, Pcs, RunPcs
  <2>6. TypeRun'
    <3>1. jobs'[task.job] \in JobState
      BY DEF TypeJobs, TypeSched, TypeRun, RunPcs, JobState, Statuses, Terminal
    <3>2. \A k \in JobIds \ {task.job} : jobs'[k] = jobs[k]
      BY DEF TypeJobs
    <3> QED
      BY <3>1, <3>2 DEF TypeRun, TypeSched, RunPcs
  <2> QED
    BY <2>1, <2>2, <2>3, <2>4, <2>5, <2>6
<1>10. CASE SchedReuse
  <2> USE <1>10 DEF SchedReuse, closeVars, orderVars, poolVars, viewVars
  <2>1. TypeJobs' /\ TypeOrder' /\ TypePools' /\ TypeView' /\ TypeRefs' /\ TypeFlags'
    BY DEF TypeJobs, TypeOrder, TypePools, TypeView, TypeRefs, TypeFlags
  <2>2. TypeSched'
    BY DEF TypeSched, TypePools, SharedPool, Pcs, RunPcs
  <2>3. TypeRun'
    BY DEF TypeRun, TypeSched, RunPcs
  <2> QED
    BY <2>1, <2>2, <2>3
<1>11. CASE SchedRebuild
  <2> USE <1>11 DEF SchedRebuild, closeVars, orderVars, viewVars
  <2>1. TypeJobs' /\ TypeOrder' /\ TypeView' /\ TypeRefs' /\ TypeFlags'
    BY DEF TypeJobs, TypeOrder, TypeView, TypeRefs, TypeFlags
  <2>2. TypePools'
    BY DEF TypePools, SharedPool, CloseLater, Pool
  <2>3. TypeSched'
    BY DEF TypeSched, Pcs, RunPcs
  <2>4. TypeRun'
    BY DEF TypeRun, TypeSched, RunPcs
  <2> QED
    BY <2>1, <2>2, <2>3, <2>4
<1>12. ASSUME NEW p \in PoolIds,
             SchedCreate(p)
      PROVE  TypeOK'
  <2> USE <1>12 DEF SchedCreate, closeVars, orderVars, viewVars
  <2>1. TypeJobs' /\ TypeOrder' /\ TypeView' /\ TypeRefs' /\ TypeFlags'
    BY DEF TypeJobs, TypeOrder, TypeView, TypeRefs, TypeFlags
  <2>2. TypePools'
    BY DEF TypePools, Pool, SharedPool, TypeSched, RunPcs, Snapshot
  <2>3. TypeSched'
    BY DEF TypeSched, Pcs, RunPcs
  <2>4. TypeRun'
    BY DEF TypeRun, TypeSched, RunPcs
  <2> QED
    BY <2>1, <2>2, <2>3, <2>4
<1>13. CASE SchedBind
  <2> USE <1>13 DEF SchedBind, closeVars, orderVars, poolVars, viewVars
  <2>1. TypeJobs' /\ TypeOrder' /\ TypeView' /\ TypeRefs' /\ TypeFlags'
    BY DEF TypeJobs, TypeOrder, TypeView, TypeRefs, TypeFlags
  <2>2. TypePools'
    BY DEF TypePools, TypeSched
  <2>3. TypeSched'
    BY DEF TypeSched, Pcs, RunPcs
  <2>4. TypeRun'
    BY DEF TypeRun, TypeSched, RunPcs
  <2> QED
    BY <2>1, <2>2, <2>3, <2>4
<1>14. ASSUME NEW left \in BOOLEAN,
             SchedCancelSeen(left)
      PROVE  TypeOK'
  <2> USE <1>14 DEF SchedCancelSeen, closeVars, orderVars, viewVars
  <2>1. TypeJobs' /\ TypeOrder' /\ TypeView' /\ TypeRefs' /\ TypeFlags'
    BY DEF TypeJobs, TypeOrder, TypeView, TypeRefs, TypeFlags
  <2>2. TypePools'
    BY DEF TypePools, TypeSched, Pool
  <2>3. TypeSched'
    BY DEF TypeSched, Pcs, RunPcs
  <2>4. TypeRun'
    BY DEF TypeRun, TypeSched, RunPcs
  <2> QED
    BY <2>1, <2>2, <2>3, <2>4
<1>15. CASE SchedStreamEnd
  <2> USE <1>15 DEF SchedStreamEnd, closeVars, orderVars, poolVars, viewVars
  <2>1. TypeJobs' /\ TypeOrder' /\ TypePools' /\ TypeView' /\ TypeRefs' /\ TypeFlags'
    BY DEF TypeJobs, TypeOrder, TypePools, TypeView, TypeRefs, TypeFlags, SchedAdvance
  <2>2. TypeSched'
    BY DEF TypeSched, SchedAdvance, Pcs, RunPcs
  <2>3. TypeRun'
    BY DEF TypeRun, TypeSched, RunPcs, SchedAdvance
  <2> QED
    BY <2>1, <2>2, <2>3
<1>16. CASE SchedWriteback
  <2> USE <1>16 DEF SchedWriteback, closeVars, orderVars, poolVars
  <2>1. TypeOrder' /\ TypePools' /\ TypeRefs' /\ TypeFlags'
    BY DEF TypeOrder, TypePools, TypeRefs, TypeFlags
  <2>2. TypeJobs'
    BY DEF TypeJobs, TypeSched, TypeRun, RunPcs, JobState, Statuses, Terminal
  <2>3. TypeView'
    BY DEF TypeView, Invalidate, SummaryCall
  <2>4. TypeSched'
    BY DEF TypeSched, Pcs, RunPcs
  <2>5. TypeRun'
    <3>1. jobs'[task.job] \in JobState
      BY DEF TypeJobs, TypeSched, TypeRun, RunPcs, JobState, Statuses, Terminal
    <3>2. \A k \in JobIds \ {task.job} : jobs'[k] = jobs[k]
      BY DEF TypeJobs
    <3> QED
      BY <3>1, <3>2 DEF TypeRun, TypeSched, RunPcs
  <2> QED
    BY <2>1, <2>2, <2>3, <2>4, <2>5
<1>17. CASE SchedDone
  <2> USE <1>17 DEF SchedDone, closeVars, orderVars, viewVars
  <2>1. TypeJobs' /\ TypeOrder' /\ TypeFlags'
    BY DEF TypeJobs, TypeOrder, TypeFlags
  <2>2. TypePools'
    BY DEF TypePools, DetachStale, CloseLater, Pool
  <2>3. TypeView'
    BY DEF TypeView, DetachStale
  <2>4. TypeRefs'
    BY DEF TypeRefs, TypeSched, RunPcs, Snapshot, TypeJobs, JobState, IsTerminal
  <2>5. TypeSched'
    BY DEF TypeSched, Pcs, RunPcs
  <2>6. TypeRun'
    BY DEF TypeRun, TypeSched, RunPcs
  <2> QED
    BY <2>1, <2>2, <2>3, <2>4, <2>5, <2>6
<1>18. CASE SchedRelease
  <2> USE <1>18 DEF SchedRelease, closeVars, orderVars, poolVars, viewVars
  <2>1. TypeOrder' /\ TypePools' /\ TypeFlags'
    BY DEF TypeOrder, TypePools, TypeFlags
  <2>2. TypeJobs'
    BY DEF TypeJobs, Release, TypeSched, RunPcs, Snapshot, JobState
  <2>3. TypeView'
    BY ZenonT(60) DEF TypeView, Invalidate, SummaryCall
  <2>4. TypeRefs'
    BY DEF TypeRefs, Release
  <2>5. TypeSched'
    BY DEF TypeSched, Pcs, RunPcs
  <2>6. TypeRun'
    BY DEF TypeRun, TypeSched, RunPcs, Release, Snapshot, TypeJobs, JobState
  <2> QED
    BY <2>1, <2>2, <2>3, <2>4, <2>5, <2>6
<1>19. CASE SchedClear
  <2> USE <1>19 DEF SchedClear, closeVars, orderVars, poolVars
  <2>1. TypeJobs' /\ TypeOrder' /\ TypeRefs' /\ TypeFlags'
    BY DEF TypeJobs, TypeOrder, TypeRefs, TypeFlags
  <2>2. TypePools'
    BY DEF TypePools
  <2>3. TypeView'
    BY DEF TypeView, Invalidate, SummaryCall
  <2>4. TypeSched'
    BY DEF TypeSched, Pcs, RunPcs
  <2>5. TypeRun'
    BY DEF TypeRun, TypeSched, RunPcs
  <2> QED
    BY <2>1, <2>2, <2>3, <2>4, <2>5
<1> QED
  BY <1>1, <1>2, <1>3, <1>4, <1>5, <1>6, <1>7, <1>8, <1>9, <1>10, <1>11, <1>12, <1>13, <1>14, <1>15, <1>16, <1>17, <1>18, <1>19 DEF Scheduler

\* No step of the maintenance workers leaves the types.
LEMMA TypeMaintenance == TypeOK /\ Maintenance => TypeOK'
<1> SUFFICES ASSUME TypeOK, Maintenance PROVE TypeOK'
  OBVIOUS
<1> USE JobQueueAssumption, NoneAssumption DEF TypeOK
<1>1. ASSUME NEW p \in closeq,
             MaintClose(p)
      PROVE  TypeOK'
  <2> USE <1>1 DEF MaintClose, closeVars, orderVars, schedVars, viewVars
  <2>1. TypeJobs' /\ TypeOrder' /\ TypeView' /\ TypeRefs' /\ TypeFlags' /\ TypeSched' /\ TypeRun'
    BY DEF TypeJobs, TypeOrder, TypeView, TypeRefs, TypeFlags, TypeSched, TypeRun
  <2>2. TypePools'
    BY DEF TypePools, Pool
  <2> QED
    BY <2>1, <2>2
<1>2. ASSUME NEW x \in relq,
             MaintRelease(x)
      PROVE  TypeOK'
  <2> USE <1>2 DEF MaintRelease, closeVars, orderVars, poolVars, schedVars, viewVars
  <2>1. TypeOrder' /\ TypePools' /\ TypeView' /\ TypeFlags' /\ TypeSched'
    BY DEF TypeOrder, TypePools, TypeView, TypeFlags, TypeSched
  <2>2. TypeJobs'
    BY DEF TypeJobs, Release, TypeRefs, RefWork, JobState
  <2>3. TypeRefs'
    BY DEF TypeRefs, Release
  <2>4. TypeRun'
    BY DEF TypeRun, TypeSched, RunPcs, Release, TypeJobs, JobState
  <2> QED
    BY <2>1, <2>2, <2>3, <2>4
<1> QED
  BY <1>1, <1>2 DEF Maintenance

\* No step of the close() call leaves the types.
LEMMA TypeCloser == TypeOK /\ Closer => TypeOK'
<1> SUFFICES ASSUME TypeOK, Closer PROVE TypeOK'
  OBVIOUS
<1> USE JobQueueAssumption, NoneAssumption DEF TypeOK
<1>1. CASE CloseBegin
  <2> USE <1>1 DEF CloseBegin, orderVars, poolVars, schedVars, viewVars
  <2>1. TypeOrder' /\ TypePools' /\ TypeView' /\ TypeRefs' /\ TypeSched'
    BY DEF TypeOrder, TypePools, TypeView, TypeRefs, TypeSched
  <2>2. ASSUME NEW k \in JobIds, jobs[k] # None
        PROVE  jobs'[k] \in JobState
    <3>1. jobs[k] \in JobState
      BY <2>2 DEF TypeJobs
    <3>2. CASE jobs[k].status = "WAITING"
      BY <2>2, <3>1, <3>2 DEF JobState, Statuses, Terminal
    <3>3. CASE jobs[k].status # "WAITING"
      <4>1. jobs'[k] = [jobs[k] EXCEPT !.cancel = @ \/ k = running]
        BY <2>2, <3>3
      <4>2. (jobs[k].cancel \/ k = running) \in BOOLEAN
        OBVIOUS
      <4> QED
        BY <3>1, <4>1, <4>2 DEF JobState
    <3> QED
      BY <3>2, <3>3
  <2>3. ASSUME NEW k \in JobIds, jobs[k] = None
        PROVE  jobs'[k] = None
    BY <2>3
  <2>4. TypeJobs'
    BY <2>2, <2>3 DEF TypeJobs
  <2>5. TypeFlags'
    BY DEF TypeFlags
  <2>6. TypeRun'
    BY <2>2, ZenonT(60) DEF TypeRun, RunPcs
  <2> QED
    BY <2>1, <2>4, <2>5, <2>6
<1>2. CASE CloseDetach
  <2> USE <1>2 DEF CloseDetach, orderVars, schedVars, viewVars
  <2>1. TypeJobs' /\ TypeOrder' /\ TypeView' /\ TypeSched' /\ TypeRun'
    BY DEF TypeJobs, TypeOrder, TypeView, TypeSched, TypeRun
  <2>2. TypePools'
    BY DEF TypePools, CloseLater, SharedPool, Pool
  <2>3. TypeRefs'
    BY DEF TypeRefs, ReleaseOf, RefWork, TypeJobs, JobState
  <2>4. TypeFlags'
    BY DEF TypeFlags
  <2> QED
    BY <2>1, <2>2, <2>3, <2>4
<1>3. ASSUME NEW x \in clrel,
             CloseRelease(x)
      PROVE  TypeOK'
  <2> USE <1>3 DEF CloseRelease, orderVars, poolVars, schedVars
  <2>1. TypeOrder' /\ TypePools' /\ TypeFlags' /\ TypeSched'
    BY DEF TypeOrder, TypePools, TypeFlags, TypeSched
  <2>2. TypeJobs'
    BY DEF TypeJobs, Release, TypeRefs, RefWork, JobState
  <2>3. TypeView'
    BY DEF TypeView, Invalidate, SummaryCall
  <2>4. TypeRefs'
    BY DEF TypeRefs, Release
  <2>5. TypeRun'
    BY DEF TypeRun, TypeSched, RunPcs, Release, TypeJobs, JobState
  <2> QED
    BY <2>1, <2>2, <2>3, <2>4, <2>5
<1>4. CASE CloseShutdown
  <2> USE <1>4 DEF CloseShutdown, orderVars, schedVars, viewVars
  <2>1. TypeJobs' /\ TypeOrder' /\ TypeView' /\ TypeSched' /\ TypeRun'
    BY DEF TypeJobs, TypeOrder, TypeView, TypeSched, TypeRun
  <2>2. TypePools'
    BY DEF TypePools
  <2>3. TypeRefs'
    BY DEF TypeRefs
  <2>4. TypeFlags'
    BY DEF TypeFlags
  <2> QED
    BY <2>1, <2>2, <2>3, <2>4
<1> QED
  BY <1>1, <1>2, <1>3, <1>4 DEF Closer

\* The types are an invariant: TypeOK holds in every state the manager reaches.
THEOREM TypeCorrect == Spec => []TypeOK
<1>1. TypeOK /\ UNCHANGED vars => TypeOK'
  BY DEF TypeOK, TypeJobs, TypeOrder, TypePools, TypeView, TypeRefs, TypeFlags, TypeSched,
     TypeRun, vars, orderVars, poolVars, schedVars, closeVars, viewVars
<1>2. TypeOK /\ [Next]_vars => TypeOK'
  BY <1>1, TypeClients, TypeScheduler, TypeMaintenance, TypeCloser DEF Next
<1> QED
  BY TypeInit, <1>2, PTL DEF Spec

-----------------------------------------------------------------------------
(* A single active job. *)

\* Where the scheduler thread stands decides what _running_job_id may be: the
\* job it runs or, once that is over, nothing; and from the terminal write on
\* the job it ran is not RUNNING, though its id may wait again.
SoleRun ==
  /\ pc \in {"flush", "run"} \cup RunPcs /\ task # None => running \in {None, task.job}
  /\ pc \in {"done", "release", "clear"} => jobs[task.job].status # "RUNNING"

\* Cancelling does not make a job RUNNING.
LEMMA CancelStartsNothing ==
  ASSUME TypeOK, NEW j \in JobIds, CancelWaiting(j) \/ CancelRunning(j), NEW k \in JobIds,
         jobs'[k].status = "RUNNING"
  PROVE  jobs[k].status = "RUNNING"
<1> USE DEF TypeOK
<1>1. CASE CancelWaiting(j)
  <2>1. k # j => jobs'[k] = jobs[k]
    BY <1>1 DEF CancelWaiting, TypeJobs
  <2>2. jobs'[j] = [jobs[j] EXCEPT !.status = "CANCELLED", !.cancel = TRUE]
    BY <1>1 DEF CancelWaiting, TypeJobs
  <2>3. jobs[j] \in JobState
    BY <1>1 DEF CancelWaiting, TypeJobs
  <2>4. [jobs[j] EXCEPT !.status = "CANCELLED", !.cancel = TRUE].status = "CANCELLED"
    BY <2>3 DEF JobState
  <2> QED
    BY <2>1, <2>2, <2>4
<1>2. CASE CancelRunning(j)
  BY <1>2 DEF CancelRunning, TypeJobs
<1> QED
  BY <1>1, <1>2

\* SoleRun is kept by every step.
LEMMA SoleRunStep == TypeOK /\ SoleRun /\ Next => SoleRun'
<1> SUFFICES ASSUME TypeOK, SoleRun, Next PROVE SoleRun'
  OBVIOUS
<1> USE JobQueueAssumption, NoneAssumption DEF TypeOK
<1>1. ASSUME DetachStale PROVE running' \in {None, running}
  BY <1>1 DEF DetachStale
<1>2. ASSUME jobs' = jobs, task' = task, running' = running \/ DetachStale,
             pc' = pc \/ pc' \in {"off", "top"}
      PROVE  SoleRun'
  BY <1>1, <1>2 DEF SoleRun, RunPcs
<1>3. ASSUME NEW j \in JobIds, NEW refs, Release(j, refs), running' = running, task' = task,
             pc' = pc \/ (pc = "release" /\ pc' = "clear")
      PROVE  SoleRun'
  <2>1. \A k \in JobIds : jobs[k] # None => jobs'[k].status = jobs[k].status
    BY <1>3 DEF Release, TypeJobs, JobState
  <2> QED
    BY <1>3, <2>1 DEF SoleRun, RunPcs, TypeRun, TypeSched, Snapshot
<1>4. CASE Clients
  <2>1. ASSUME NEW j \in JobIds, NEW prio \in Priorities, NEW stamp \in Stamps,
               NEW art \in Artifacts, NEW reset \in Resets, NEW refs \in SUBSET RefIds,
               Submit(j, prio, stamp, art, reset, refs)
        PROVE  SoleRun'
    BY <1>1, <2>1 DEF Submit, EnsureThread, SoleRun, RunPcs, TypeJobs, TypeSched, TypeRun
  <2>2. CASE Start \/ SummaryEnd \/ GetJob \/ SummaryBegin
    BY <1>2, <2>2 DEF Start, SummaryEnd, GetJob, SummaryBegin, Refresh, EnsureThread, schedVars
  <2>3. ASSUME NEW j \in JobIds, CancelWaiting(j) \/ CancelRunning(j)
        PROVE  SoleRun'
    <3>1. \A k \in JobIds : jobs'[k].status = "RUNNING" => jobs[k].status = "RUNNING"
      BY <2>3, CancelStartsNothing
    <3> QED
      BY <2>3, <3>1 DEF CancelWaiting, CancelRunning, schedVars, SoleRun, RunPcs, TypeRun, TypeSched
  <2>4. ASSUME NEW x \in cxl, CancelRelease(x)
        PROVE  SoleRun'
    BY <1>3, <2>4 DEF CancelRelease, TypeRefs, schedVars
  <2>5. ASSUME NEW x \in cxl, CancelGet(x)
        PROVE  SoleRun'
    BY <1>2, <2>5 DEF CancelGet, Refresh, EnsureThread
  <2>6. ASSUME NEW j \in JobIds, NEW dir \in Directions, Reorder(j, dir)
        PROVE  SoleRun'
    BY <1>2, <2>6 DEF Reorder, schedVars
  <2> QED
    BY <1>4, <2>1, <2>2, <2>3, <2>4, <2>5, <2>6 DEF Clients
<1>5. CASE Scheduler
  <2>1. ASSUME NEW E \in SUBSET JobIds, NEW j \in JobIds, SchedPick(E, j)
        PROVE  SoleRun'
    BY <2>1 DEF SchedPick, SoleRun, RunPcs
  <2>2. ASSUME NEW E \in SUBSET JobIds, NEW expire \in BOOLEAN, SchedIdle(E, expire)
        PROVE  SoleRun'
    BY <2>2 DEF SchedIdle, SoleRun, RunPcs
  <2>3. CASE SchedExit \/ SchedEscape
    BY <1>2, <2>3 DEF SchedExit, SchedEscape
  <2>4. CASE SchedFlush \/ SchedResolve \/ SchedBlob \/ SchedReuse \/ SchedRebuild \/ SchedBind
             \/ SchedStreamEnd
    BY <2>4 DEF SchedFlush, SchedResolve, SchedBlob, SchedReuse, SchedRebuild, SchedBind,
       SchedStreamEnd, SchedAdvance, SoleRun, RunPcs
  <2>5. CASE SchedSnapshot
    BY <2>5 DEF SchedSnapshot, SoleRun, RunPcs, TypeSched
  <2>6. ASSUME NEW left \in BOOLEAN, SchedFail(left)
        PROVE  SoleRun'
    BY <2>6 DEF SchedFail, SoleRun, RunPcs, TypeJobs, TypeSched, TypeRun, JobState
  <2>7. ASSUME NEW left \in BOOLEAN, SchedCancelSeen(left)
        PROVE  SoleRun'
    BY <2>7 DEF SchedCancelSeen, SoleRun, RunPcs
  <2>8. ASSUME NEW p \in PoolIds, SchedCreate(p)
        PROVE  SoleRun'
    BY <2>8 DEF SchedCreate, SoleRun, RunPcs
  <2>9. CASE SchedWriteback
    BY <2>9 DEF SchedWriteback, SoleRun, RunPcs, TypeJobs, TypeSched, TypeRun, JobState
  <2>10. CASE SchedDone
    BY <1>1, <2>10 DEF SchedDone, SoleRun, RunPcs
  <2>11. CASE SchedRelease
    BY <1>3, <2>11 DEF SchedRelease, TypeSched, TypeRun, RunPcs, Snapshot
  <2>12. CASE SchedClear
    BY <2>12 DEF SchedClear, SoleRun, RunPcs
  <2> QED
    BY <1>5, <2>1, <2>2, <2>3, <2>4, <2>5, <2>6, <2>7, <2>8, <2>9, <2>10, <2>11, <2>12
    DEF Scheduler
<1>6. CASE Maintenance
  BY <1>2, <1>3, <1>6 DEF Maintenance, MaintClose, MaintRelease, TypeRefs, RefWork, schedVars
<1>7. CASE Closer
  <2>1. CASE CloseBegin
    <3>1. \A k \in JobIds : jobs[k] # None /\ jobs'[k].status = "RUNNING" => jobs[k].status = "RUNNING"
      BY <2>1 DEF CloseBegin, TypeJobs, JobState
    <3> QED
      BY <2>1, <3>1 DEF CloseBegin, schedVars, SoleRun, RunPcs, TypeRun, TypeSched
  <2>2. CASE CloseDetach \/ CloseShutdown
    BY <1>2, <2>2 DEF CloseDetach, CloseShutdown, schedVars
  <2>3. ASSUME NEW x \in clrel, CloseRelease(x)
        PROVE  SoleRun'
    BY <1>3, <2>3 DEF CloseRelease, TypeRefs, RefWork, schedVars
  <2> QED
    BY <1>7, <2>1, <2>2, <2>3 DEF Closer
<1> QED
  BY <1>4, <1>5, <1>6, <1>7 DEF Next

\* A job becomes RUNNING only in the critical section that makes it
\* _running_job_id, and _running_job_id is only given up for a job that is over
\* or, by SoleRun, by the thread that ended it.
LEMMA SingleActiveStep == TypeOK /\ SoleRun /\ SingleActive /\ Next => SingleActive'
<1> SUFFICES ASSUME TypeOK, SoleRun, SingleActive, Next,
                    NEW k \in JobIds, jobs'[k] # None, jobs'[k].status = "RUNNING"
             PROVE  running' = k
  BY DEF SingleActive
<1> USE JobQueueAssumption, NoneAssumption DEF TypeOK
<1>0. jobs[k] # None /\ jobs[k].status = "RUNNING" => running = k
  BY DEF SingleActive
<1>1. ASSUME DetachStale, jobs[k] # None, jobs[k].status = "RUNNING"
      PROVE  running' = k
  BY <1>0, <1>1 DEF DetachStale, StaleRunning, IsTerminal, Terminal
<1>2. ASSUME jobs' = jobs, running' = running \/ DetachStale
      PROVE  running' = k
  BY <1>0, <1>1, <1>2
<1>3. ASSUME NEW j \in JobIds, NEW refs, Release(j, refs), running' = running
      PROVE  running' = k
  BY <1>0, <1>3 DEF Release, TypeJobs
<1>4. CASE Clients
  <2>1. ASSUME NEW j \in JobIds, NEW prio \in Priorities, NEW stamp \in Stamps,
               NEW art \in Artifacts, NEW reset \in Resets, NEW refs \in SUBSET RefIds,
               Submit(j, prio, stamp, art, reset, refs)
        PROVE  running' = k
    BY <1>1, <2>1 DEF Submit, TypeJobs
  <2>2. CASE Start \/ SummaryEnd \/ GetJob \/ SummaryBegin
    BY <1>2, <2>2 DEF Start, SummaryEnd, GetJob, SummaryBegin, Refresh
  <2>3. ASSUME NEW j \in JobIds, CancelWaiting(j) \/ CancelRunning(j)
        PROVE  running' = k
    <3>1. jobs[k].status = "RUNNING"
      BY <2>3, CancelStartsNothing
    <3>2. jobs[k] # None
      BY <2>3 DEF CancelWaiting, CancelRunning, TypeJobs
    <3> QED
      BY <1>0, <2>3, <3>1, <3>2 DEF CancelWaiting, CancelRunning
  <2>4. ASSUME NEW x \in cxl, CancelRelease(x)
        PROVE  running' = k
    BY <1>3, <2>4 DEF CancelRelease, TypeRefs
  <2>5. ASSUME NEW x \in cxl, CancelGet(x)
        PROVE  running' = k
    BY <1>2, <2>5 DEF CancelGet, Refresh
  <2>6. ASSUME NEW j \in JobIds, NEW dir \in Directions, Reorder(j, dir)
        PROVE  running' = k
    BY <1>2, <2>6 DEF Reorder
  <2> QED
    BY <1>4, <2>1, <2>2, <2>3, <2>4, <2>5, <2>6 DEF Clients
<1>5. CASE Scheduler
  <2>1. ASSUME NEW E \in SUBSET JobIds, NEW j \in JobIds, SchedPick(E, j)
        PROVE  running' = k
    BY <1>0, <2>1 DEF SchedPick, LoopReady, StaleRunning, IsTerminal, Terminal, Cleaned
  <2>2. ASSUME NEW E \in SUBSET JobIds, NEW expire \in BOOLEAN, SchedIdle(E, expire)
        PROVE  running' = k
    BY <1>0, <2>2 DEF SchedIdle, LoopReady, StaleRunning, IsTerminal, Terminal, Cleaned
  <2>3. CASE SchedExit \/ SchedFlush \/ SchedSnapshot \/ SchedResolve \/ SchedBlob \/ SchedEscape
             \/ SchedReuse \/ SchedRebuild \/ SchedBind \/ SchedStreamEnd \/ SchedDone
    BY <1>2, <2>3 DEF SchedExit, SchedFlush, SchedSnapshot, SchedResolve, SchedBlob, SchedEscape,
       SchedReuse, SchedRebuild, SchedBind, SchedStreamEnd, SchedDone, SchedAdvance
  <2>4. ASSUME NEW left \in BOOLEAN, SchedFail(left)
        PROVE  running' = k
    BY <1>0, <2>4 DEF SchedFail, TypeJobs, TypeSched, RunPcs, Snapshot
  <2>5. ASSUME NEW left \in BOOLEAN, SchedCancelSeen(left)
        PROVE  running' = k
    BY <1>2, <2>5 DEF SchedCancelSeen
  <2>6. ASSUME NEW p \in PoolIds, SchedCreate(p)
        PROVE  running' = k
    BY <1>2, <2>6 DEF SchedCreate
  <2>7. CASE SchedWriteback
    BY <1>0, <2>7 DEF SchedWriteback, TypeJobs, TypeSched, RunPcs, Snapshot
  <2>8. CASE SchedRelease
    BY <1>3, <2>8 DEF SchedRelease, TypeSched, RunPcs, Snapshot
  <2>9. CASE SchedClear
    BY <1>0, <2>9 DEF SchedClear, SoleRun, TypeSched, RunPcs
  <2> QED
    BY <1>5, <2>1, <2>2, <2>3, <2>4, <2>5, <2>6, <2>7, <2>8, <2>9 DEF Scheduler
<1>6. CASE Maintenance
  BY <1>2, <1>3, <1>6 DEF Maintenance, MaintClose, MaintRelease, TypeRefs, RefWork
<1>7. CASE Closer
  <2>1. CASE CloseBegin
    BY <1>0, <2>1 DEF CloseBegin, TypeJobs, JobState
  <2>2. CASE CloseDetach \/ CloseShutdown
    BY <1>2, <2>2 DEF CloseDetach, CloseShutdown
  <2>3. ASSUME NEW x \in clrel, CloseRelease(x)
        PROVE  running' = k
    BY <1>3, <2>3 DEF CloseRelease, TypeRefs, RefWork
  <2> QED
    BY <1>7, <2>1, <2>2, <2>3 DEF Closer
<1> QED
  BY <1>4, <1>5, <1>6, <1>7 DEF Next

\* At most one job is RUNNING, and it is _running_job_id, for any number of jobs,
\* clients, resubmissions and pools, and any deaths of the scheduler thread.
THEOREM OneActiveJob == Spec => []SingleActive
<1>1. Init => SoleRun /\ SingleActive
  BY DEF Init, SoleRun, RunPcs, SingleActive
<1>2. TypeOK /\ SoleRun /\ SingleActive /\ [Next]_vars => SoleRun' /\ SingleActive'
  <2>1. SoleRun /\ SingleActive /\ UNCHANGED vars => SoleRun' /\ SingleActive'
    BY DEF SoleRun, SingleActive, vars, schedVars
  <2> QED
    BY <2>1, SoleRunStep, SingleActiveStep
<1> QED
  BY <1>1, <1>2, TypeCorrect, PTL DEF Spec

-----------------------------------------------------------------------------
(* No closed pool is used. *)

Made(p) == pools[p].st # "none"

\* PoolSafe is not inductive.  Until close() detaches the pools, the current
\* executor is the shared pool's, so that nobody who detaches a job that is over
\* closes it; before the stream there is no current executor; a pool detached by
\* idle expiry is no longer shared; and a pool that is referred to from anywhere
\* has been created, so that a new pool is not already queued for closing.
PoolInv ==
  /\ PoolSafe
  /\ cl \in {"no", "join"} /\ cur # None => shared # None /\ cur = shared.exec
  /\ pc \notin {"stream", "write", "done", "release", "clear"} => cur = None
  /\ toClose # None => pc = "flush" /\ shared = None /\ Made(toClose)
  /\ \A p \in closeq : Made(p)
  /\ cur # None => Made(cur)
  /\ shared # None => Made(shared.exec)
  /\ pc = "bind" => Made(exec)

\* What queueing pools for closing does to the others.
LEMMA CloseLaterFacts ==
  ASSUME TypePools, NEW S \in SUBSET PoolIds, CloseLater(S)
  PROVE  /\ closeq' \subseteq closeq \cup S
         /\ cl # "done" => pools' = pools
         /\ \A p \in PoolIds : pools[p].st # "none" => pools'[p].st # "none"
BY DEF CloseLater, TypePools, Pool

\* What detaching a job that is over does to the pools.
LEMMA DetachFacts ==
  ASSUME TypeOK, PoolInv, DetachStale
  PROVE  /\ cur' \in {None, cur}
         /\ \A p \in closeq' : p \in PoolIds /\ (p \in closeq \/ p = cur)
         /\ cl \in {"no", "join"} => closeq' = closeq /\ pools' = pools
         /\ \A p \in PoolIds : pools[p].st # "none" => pools'[p].st # "none"
<1> USE DEF TypeOK
<1>1. CASE StaleRunning
  <2> DEFINE S == IF cur = None \/ (shared # None /\ cur = shared.exec) THEN {} ELSE {cur}
  <2>1. S \in SUBSET PoolIds /\ S \subseteq {cur}
    BY DEF TypePools
  <2>2. CloseLater(S)
    BY <1>1 DEF DetachStale
  <2>3. cl \in {"no", "join"} => S = {}
    BY DEF PoolInv
  <2>4. cl \in {"no", "join"} => closeq' = closeq /\ pools' = pools
    BY <2>2, <2>3 DEF CloseLater
  <2> QED
    BY <1>1, <2>1, <2>2, <2>4, CloseLaterFacts DEF DetachStale, TypePools
<1>2. CASE ~StaleRunning
  BY <1>2 DEF DetachStale, TypePools
<1> QED
  BY <1>1, <1>2

\* PoolInv is kept by a step that only detaches a job that is over.
LEMMA PoolInvDetach ==
  ASSUME TypeOK, PoolInv, DetachStale, UNCHANGED <<shared, exec, toClose, cl>>,
         \/ pc' = pc
         \/ pc = "off" /\ pc' = "top"
         \/ pc = "done" /\ pc' \in {"release", "clear"}
  PROVE  PoolInv'
<1> USE DEF TypeOK, TypePools, TypeSched
<1>1. PoolSafe'
  BY DetachFacts DEF PoolInv, PoolSafe
<1>2. (\A p \in closeq : Made(p))'
  BY DetachFacts, JobQueueAssumption DEF PoolInv, Made
<1>3. (toClose # None => pc = "flush" /\ shared = None /\ Made(toClose))'
  BY DetachFacts DEF PoolInv, Made
<1>4. (shared # None => Made(shared.exec))'
  BY DetachFacts DEF PoolInv, Made, SharedPool
<1>5. (pc = "bind" => Made(exec))'
  BY DetachFacts DEF PoolInv, Made
<1>6. (cur # None => Made(cur))'
  BY DetachFacts DEF PoolInv, Made
<1> QED
  BY <1>1, <1>2, <1>3, <1>4, <1>5, <1>6, DetachFacts DEF PoolInv

\* PoolInv is kept by a step that leaves the pools and the thread's place alone.
LEMMA PoolInvFrame ==
  ASSUME TypeOK, PoolInv, UNCHANGED <<shared, pools, closeq, cur, exec, toClose>>,
         cl' = cl \/ (cl = "no" /\ cl' = "join"),
         \/ pc' = pc
         \/ pc = "off" /\ pc' = "top"
         \/ pc' = "off" /\ pc \notin {"stream", "write", "done", "release", "clear"} /\ toClose = None
         \/ pc \in {"run", "resolve", "blob"} /\ pc' \in {"resolve", "blob", "prepare", "done"}
         \/ pc \in {"prepare", "create", "write", "done", "release"}
              /\ pc' \in {"done", "release", "clear"}
         \/ pc = "stream" /\ pc' = "write"
  PROVE  PoolInv'
BY DEF PoolInv, PoolSafe, Made

\* PoolInv is kept by every step.
LEMMA PoolInvStep == TypeOK /\ PoolInv /\ Next => PoolInv'
<1> SUFFICES ASSUME TypeOK, PoolInv, Next PROVE PoolInv'
  OBVIOUS
<1> USE JobQueueAssumption, NoneAssumption
<1>1. CASE Clients
  <2>1. ASSUME NEW j \in JobIds, NEW prio \in Priorities, NEW stamp \in Stamps,
               NEW art \in Artifacts, NEW reset \in Resets, NEW refs \in SUBSET RefIds,
               Submit(j, prio, stamp, art, reset, refs)
        PROVE  PoolInv'
    BY <2>1, PoolInvDetach DEF Submit, EnsureThread, closeVars
  <2>2. CASE GetJob \/ SummaryBegin \/ \E x \in cxl : CancelGet(x)
    BY <2>2, PoolInvDetach DEF GetJob, SummaryBegin, CancelGet, Refresh, EnsureThread, closeVars
  <2>3. CASE Start \/ SummaryEnd
    BY <2>3, PoolInvFrame DEF Start, SummaryEnd, poolVars, schedVars, closeVars
  <2>4. CASE \/ \E j \in JobIds : CancelWaiting(j) \/ CancelRunning(j)
             \/ \E x \in cxl : CancelRelease(x)
             \/ \E j \in JobIds, dir \in Directions : Reorder(j, dir)
    BY <2>4, PoolInvFrame DEF CancelWaiting, CancelRunning, CancelRelease, Reorder, poolVars,
       schedVars, closeVars
  <2> QED
    BY <1>1, <2>1, <2>2, <2>3, <2>4 DEF Clients
<1>2. CASE Scheduler
  <2> USE DEF TypeOK, TypePools, TypeSched
  <2>1. CASE SchedExit \/ SchedEscape \/ SchedSnapshot \/ SchedResolve \/ SchedBlob \/ SchedStreamEnd
    BY <2>1, PoolInvFrame DEF SchedExit, SchedEscape, SchedSnapshot, SchedResolve, SchedBlob,
       SchedStreamEnd, SchedAdvance, poolVars, closeVars, PoolInv
  <2>2. CASE SchedWriteback \/ SchedRelease
    BY <2>2, PoolInvFrame DEF SchedWriteback, SchedRelease, poolVars, closeVars
  <2>3. CASE SchedDone
    BY <2>3, PoolInvDetach DEF SchedDone, closeVars
  <2>4. ASSUME NEW E \in SUBSET JobIds, NEW j \in JobIds, SchedPick(E, j)
        PROVE  PoolInv'
    BY <2>4 DEF SchedPick, LoopReady, poolVars, closeVars, PoolInv, PoolSafe, Made
  <2>5. ASSUME NEW E \in SUBSET JobIds, NEW expire \in BOOLEAN, SchedIdle(E, expire)
        PROVE  PoolInv'
    BY <2>5 DEF SchedIdle, LoopReady, closeVars, PoolInv, PoolSafe, Made
  <2>6. CASE SchedFlush
    <3>1. CASE cl = "done" /\ handoff # {}
      BY <2>6, <3>1 DEF SchedFlush, closeVars, PoolInv, PoolSafe, Made
    <3>2. CASE ~(cl = "done" /\ handoff # {})
      <4> DEFINE S == IF toClose = None THEN {} ELSE {toClose}
      <4>1. S \in SUBSET PoolIds /\ CloseLater(S)
        BY <2>6, <3>2 DEF SchedFlush
      <4>2. \A p \in S : Made(p) /\ shared = None
        BY DEF PoolInv
      <4>3. PoolSafe'
        BY <2>6, <4>1, <4>2, CloseLaterFacts DEF SchedFlush, closeVars, PoolInv, PoolSafe
      <4>4. (\A p \in closeq : Made(p))'
        BY <4>1, <4>2, CloseLaterFacts DEF PoolInv, Made
      <4>5. (shared # None => Made(shared.exec))'
        BY <2>6, <4>1, CloseLaterFacts DEF SchedFlush, PoolInv, Made, SharedPool
      <4>6. cur' = None /\ toClose' = None /\ pc' # "bind"
        BY <2>6, <3>2 DEF SchedFlush, PoolInv
      <4> QED
        BY <4>3, <4>4, <4>5, <4>6 DEF PoolInv
    <3> QED
      BY <3>1, <3>2
  <2>7. ASSUME NEW left \in BOOLEAN, SchedFail(left)
        PROVE  PoolInv'
    BY <2>7 DEF SchedFail, closeVars, PoolInv, PoolSafe, Made, Pool, SharedPool
  <2>8. ASSUME NEW left \in BOOLEAN, SchedCancelSeen(left)
        PROVE  PoolInv'
    BY <2>8 DEF SchedCancelSeen, closeVars, PoolInv, PoolSafe, Made, Pool, SharedPool
  <2>9. CASE SchedReuse
    BY <2>9 DEF SchedReuse, poolVars, closeVars, PoolInv, PoolSafe, Made
  <2>10. CASE SchedRebuild
    <3> DEFINE S == IF shared = None THEN {} ELSE {shared.exec}
    <3>1. S \in SUBSET PoolIds /\ CloseLater(S)
      BY <2>10 DEF SchedRebuild, SharedPool
    <3>2. (\A p \in closeq : Made(p))'
      BY <3>1, CloseLaterFacts DEF PoolInv, Made
    <3>3. cur' = None /\ toClose' = None /\ shared' = None /\ pc' = "create"
      BY <2>10 DEF SchedRebuild, PoolInv
    <3> QED
      BY <3>2, <3>3 DEF PoolInv, PoolSafe
  <2>11. ASSUME NEW p \in PoolIds, SchedCreate(p)
        PROVE  PoolInv'
    <3>1. /\ shared' = [exec |-> p, artifact |-> task.artifact] /\ exec' = p /\ closeq' = closeq
          /\ cur' = None /\ toClose' = None /\ pc' = "bind"
      BY <2>11 DEF SchedCreate, PoolInv
    <3>2. shared'.exec = p
      BY <3>1
    <3>3. pools'[p].st = "open" /\ \A q \in PoolIds : pools[q].st # "none" => pools'[q].st # "none"
      BY <2>11 DEF SchedCreate, Pool
    <3>4. p \notin closeq
      BY <2>11 DEF SchedCreate, PoolInv, Made
    <3>5. PoolSafe'
      <4>1. shared' \in SharedPool
        BY <2>11, <3>1 DEF SchedCreate, SharedPool, RunPcs, Snapshot
      <4>2. shared' # None
        BY <4>1
      <4> QED
        BY <3>1, <3>2, <3>3, <3>4, <4>2 DEF PoolSafe
    <3>6. (\A q \in closeq : Made(q))'
      BY <3>1, <3>3 DEF PoolInv, Made
    <3> QED
      BY <3>1, <3>2, <3>3, <3>5, <3>6 DEF PoolInv, Made
  <2>12. CASE SchedBind
    BY <2>12 DEF SchedBind, poolVars, closeVars, PoolInv, PoolSafe, Made
  <2>13. CASE SchedClear
    BY <2>13 DEF SchedClear, poolVars, closeVars, PoolInv, PoolSafe, Made
  <2> QED
    BY <1>2, <2>1, <2>2, <2>3, <2>4, <2>5, <2>6, <2>7, <2>8, <2>9, <2>10, <2>11, <2>12, <2>13
    DEF Scheduler
<1>3. CASE Maintenance
  <2>1. ASSUME NEW p \in closeq, MaintClose(p)
        PROVE  PoolInv'
    BY <2>1 DEF MaintClose, closeVars, schedVars, PoolInv, PoolSafe, Made, Pool, SharedPool, TypeOK,
       TypePools, TypeSched
  <2>2. ASSUME NEW x \in relq, MaintRelease(x)
        PROVE  PoolInv'
    BY <2>2, PoolInvFrame DEF MaintRelease, poolVars, schedVars, closeVars
  <2> QED
    BY <1>3, <2>1, <2>2 DEF Maintenance
<1>4. CASE Closer
  <2>1. CASE CloseBegin \/ \E x \in clrel : CloseRelease(x)
    BY <2>1, PoolInvFrame DEF CloseBegin, CloseRelease, poolVars, schedVars
  <2>2. CASE CloseDetach
    <3> USE DEF TypeOK, TypePools, TypeSched
    <3> DEFINE S == {cur, IF shared = None THEN None ELSE shared.exec} \ {None}
    <3>1. S \in SUBSET PoolIds /\ CloseLater(S)
      BY <2>2 DEF CloseDetach, SharedPool
    <3>2. \A p \in S : Made(p)
      BY DEF PoolInv
    <3>3. (\A p \in closeq : Made(p))'
      BY <3>1, <3>2, CloseLaterFacts DEF PoolInv, Made
    <3>4. UNCHANGED <<cur, toClose, exec, pc>> /\ shared' = None /\ cl' = "release"
      BY <2>2 DEF CloseDetach, schedVars
    <3>5. \A p \in PoolIds : Made(p) => Made(p)'
      BY <3>1, CloseLaterFacts DEF Made
    <3> QED
      BY <3>3, <3>4, <3>5 DEF PoolInv, PoolSafe, Made
  <2>3. CASE CloseShutdown
    BY <2>3 DEF CloseShutdown, schedVars, PoolInv, PoolSafe, Made
  <2> QED
    BY <1>4, <2>1, <2>2, <2>3 DEF Closer
<1> QED
  BY <1>1, <1>2, <1>3, <1>4 DEF Next

\* Until close() detaches the pools, no job runs on, and no later job can reuse,
\* a pool that is closed or queued for closing.
THEOREM NoClosedPoolInUse == Spec => []PoolSafe
<1>1. Init => PoolInv
  BY DEF Init, PoolInv, PoolSafe
<1>2. TypeOK /\ PoolInv /\ [Next]_vars => PoolInv'
  <2>1. PoolInv /\ UNCHANGED vars => PoolInv'
    BY DEF PoolInv, PoolSafe, Made, vars, schedVars, poolVars, closeVars
  <2> QED
    BY <2>1, PoolInvStep
<1>3. PoolInv => PoolSafe
  BY DEF PoolInv
<1> QED
  BY <1>1, <1>2, <1>3, TypeCorrect, PTL DEF Spec

-----------------------------------------------------------------------------
\* Releasing references changes nothing else of a job.
LEMMA ReleaseFacts ==
  ASSUME TypeOK, NEW j \in JobIds, NEW refs, Release(j, refs), NEW k \in JobIds
  PROVE  /\ jobs'[k] = None <=> jobs[k] = None
         /\ jobs[k] # None => /\ jobs'[k].status = jobs[k].status
                              /\ jobs'[k].cancel = jobs[k].cancel
                              /\ jobs'[k].seq = jobs[k].seq
                              /\ jobs'[k].refs = IF k = j THEN jobs[k].refs \ refs ELSE jobs[k].refs
<1> USE NoneAssumption DEF TypeOK, TypeJobs
<1>1. CASE k # j \/ jobs[j] = None
  BY <1>1 DEF Release
<1>2. CASE k = j /\ jobs[j] # None
  <2>1. jobs[j] \in JobState
    BY <1>2
  <2>2. jobs'[j] = [jobs[j] EXCEPT !.refs = @ \ refs]
    BY <1>2 DEF Release
  <2> QED
    BY <1>2, <2>1, <2>2 DEF JobState
<1> QED
  BY <1>1, <1>2

\* What cancelling does to the job and to the others.
LEMMA CancelFacts ==
  ASSUME TypeOK, NEW j \in JobIds, CancelWaiting(j) \/ CancelRunning(j), NEW k \in JobIds
  PROVE  /\ jobs[j] # None
         /\ k # j => jobs'[k] = jobs[k]
         /\ jobs'[j] # None /\ jobs'[j].cancel /\ jobs'[j].seq = jobs[j].seq
         /\ jobs'[j].refs = jobs[j].refs
         /\ CancelWaiting(j) => jobs[j].status = "WAITING" /\ jobs'[j].status = "CANCELLED"
         /\ CancelRunning(j) => jobs[j].status = "RUNNING" /\ jobs'[j].status = "RUNNING"
<1> USE NoneAssumption DEF TypeOK, TypeJobs
<1>1. jobs[j] # None /\ jobs[j] \in JobState
  BY DEF CancelWaiting, CancelRunning
<1>2. k # j => jobs'[k] = jobs[k]
  BY DEF CancelWaiting, CancelRunning
<1>3. CASE CancelWaiting(j)
  <2>1. jobs'[j] = [jobs[j] EXCEPT !.status = "CANCELLED", !.cancel = TRUE]
    BY <1>3 DEF CancelWaiting
  <2>2. jobs'[j] \in JobState
    BY <1>1, <2>1, Cancelled
  <2>3. jobs'[j].cancel /\ jobs'[j].seq = jobs[j].seq /\ jobs'[j].refs = jobs[j].refs
        /\ jobs'[j].status = "CANCELLED"
    BY <1>1, <2>1 DEF JobState
  <2> QED
    BY <1>1, <1>2, <1>3, <2>2, <2>3 DEF CancelWaiting, CancelRunning
<1>4. CASE CancelRunning(j)
  <2>1. jobs'[j] = [jobs[j] EXCEPT !.cancel = TRUE]
    BY <1>4 DEF CancelRunning
  <2>2. jobs'[j] \in JobState
    BY <1>1, <2>1 DEF JobState
  <2>3. jobs'[j].cancel /\ jobs'[j].seq = jobs[j].seq /\ jobs'[j].refs = jobs[j].refs
        /\ jobs'[j].status = jobs[j].status
    BY <1>1, <2>1 DEF JobState
  <2> QED
    BY <1>1, <1>2, <1>4, <2>2, <2>3 DEF CancelWaiting, CancelRunning
<1> QED
  BY <1>3, <1>4

\* What the end of a run writes.
LEMMA EndFacts ==
  ASSUME TypeOK, NEW outcome \in Terminal, pc \in RunPcs,
         jobs' = [jobs EXCEPT ![task.job].status = outcome], NEW k \in JobIds
  PROVE  /\ task.job \in JobIds /\ jobs[task.job] # None
         /\ k # task.job => jobs'[k] = jobs[k]
         /\ jobs'[task.job] # None /\ jobs'[task.job].status = outcome
         /\ jobs'[task.job].cancel = jobs[task.job].cancel
         /\ jobs'[task.job].seq = jobs[task.job].seq
         /\ jobs'[task.job].refs = jobs[task.job].refs
<1> USE NoneAssumption DEF TypeOK, TypeJobs
<1>1. task.job \in JobIds /\ jobs[task.job] # None /\ jobs[task.job] \in JobState
  BY DEF TypeRun, TypeSched
<1>2. jobs'[task.job] = [jobs[task.job] EXCEPT !.status = outcome]
  BY <1>1
<1>3. jobs'[task.job] \in JobState
  BY <1>1, <1>2 DEF JobState, Statuses
<1>4. k # task.job => jobs'[k] = jobs[k]
  BY <1>1
<1>5. jobs'[task.job].status = outcome /\ jobs'[task.job].cancel = jobs[task.job].cancel
      /\ jobs'[task.job].seq = jobs[task.job].seq /\ jobs'[task.job].refs = jobs[task.job].refs
  BY <1>1, <1>2 DEF JobState
<1> QED
  BY <1>1, <1>3, <1>4, <1>5

\* What close() does to a job.
LEMMA CloseFacts ==
  ASSUME TypeOK, CloseBegin, NEW k \in JobIds
  PROVE  /\ jobs[k] = None <=> jobs'[k] = None
         /\ jobs[k] # None =>
              /\ jobs'[k].status = IF jobs[k].status = "WAITING" THEN "CANCELLED" ELSE jobs[k].status
              /\ jobs'[k].seq = jobs[k].seq
              /\ jobs[k].status = "WAITING" => jobs'[k].cancel
              /\ jobs[k].status # "WAITING" => (jobs'[k].cancel <=> jobs[k].cancel \/ k = running)
<1> USE NoneAssumption DEF TypeOK, TypeJobs
<1>1. CASE jobs[k] = None
  BY <1>1 DEF CloseBegin
<1>2. CASE jobs[k] # None
  <2>1. jobs[k] \in JobState
    BY <1>2
  <2>2. CASE jobs[k].status = "WAITING"
    <3>1. jobs'[k] = [jobs[k] EXCEPT !.status = "CANCELLED", !.cancel = TRUE]
      BY <1>2, <2>2 DEF CloseBegin
    <3>2. jobs'[k] \in JobState
      BY <2>1, <3>1, Cancelled
    <3> QED
      BY <1>2, <2>1, <2>2, <3>1, <3>2 DEF JobState
  <2>3. CASE jobs[k].status # "WAITING"
    <3>1. jobs'[k] = [jobs[k] EXCEPT !.cancel = @ \/ k = running]
      BY <1>2, <2>3 DEF CloseBegin
    <3>2. (jobs[k].cancel \/ k = running) \in BOOLEAN
      OBVIOUS
    <3>3. jobs'[k] \in JobState
      BY <2>1, <3>1, <3>2 DEF JobState
    <3>4. jobs'[k].status = jobs[k].status /\ jobs'[k].seq = jobs[k].seq
          /\ jobs'[k].cancel = (jobs[k].cancel \/ k = running)
      BY <2>1, <3>1 DEF JobState
    <3> QED
      BY <1>2, <2>3, <3>3, <3>4
  <2> QED
    BY <2>2, <2>3
<1> QED
  BY <1>1, <1>2

\* The ways a step may change the table of jobs.
Submits == \E j \in JobIds, prio \in Priorities, stamp \in Stamps, art \in Artifacts,
              reset \in Resets, refs \in SUBSET RefIds : Submit(j, prio, stamp, art, reset, refs)
Cancels == \E j \in JobIds : CancelWaiting(j) \/ CancelRunning(j)
Releases == \E j \in JobIds, refs \in SUBSET RefIds : Release(j, refs)
Forgets == \E E \in SUBSET JobIds :
              \/ \E j \in JobIds : SchedPick(E, j)
              \/ \E expire \in BOOLEAN : SchedIdle(E, expire)
Ends == \/ \E left \in BOOLEAN : SchedFail(left)
        \/ SchedWriteback

\* There are no others, and only a submission takes a sequence number.
LEMMA JobsStep ==
  ASSUME TypeOK, Next
  PROVE  \/ Submits
         \/ /\ enqSeq' = enqSeq
            /\ jobs' = jobs \/ Cancels \/ Releases \/ Forgets \/ Ends \/ CloseBegin
<1> USE DEF TypeOK
<1>1. CASE Clients
  <2>1. CASE Start \/ GetJob \/ SummaryBegin \/ SummaryEnd \/ (\E x \in cxl : CancelGet(x))
             \/ \E j \in JobIds, dir \in Directions : Reorder(j, dir)
    BY <2>1 DEF Start, GetJob, SummaryBegin, SummaryEnd, CancelGet, Reorder
  <2>2. CASE \E x \in cxl : CancelRelease(x)
    BY <2>2 DEF CancelRelease, Releases, TypeRefs
  <2>3. CASE Cancels
    BY <2>3 DEF Cancels, CancelWaiting, CancelRunning
  <2> QED
    BY <1>1, <2>1, <2>2, <2>3 DEF Clients, Submits, Cancels
<1>2. CASE Scheduler
  <2>1. CASE \/ SchedExit \/ SchedFlush \/ SchedSnapshot \/ SchedResolve \/ SchedBlob \/ SchedEscape
             \/ SchedReuse \/ SchedRebuild \/ SchedBind \/ SchedStreamEnd \/ SchedDone \/ SchedClear
             \/ \E p \in PoolIds : SchedCreate(p)
             \/ \E left \in BOOLEAN : SchedCancelSeen(left)
    BY <2>1 DEF SchedExit, SchedFlush, SchedSnapshot, SchedResolve, SchedBlob, SchedEscape,
       SchedReuse, SchedRebuild, SchedBind, SchedStreamEnd, SchedAdvance, SchedDone, SchedClear,
       SchedCreate, SchedCancelSeen
  <2>2. CASE SchedRelease
    BY <2>2 DEF SchedRelease, Releases, TypeRefs, TypeSched, RunPcs, Snapshot
  <2>3. CASE Forgets
    BY <2>3 DEF Forgets, SchedPick, SchedIdle
  <2>4. CASE Ends
    BY <2>4 DEF Ends, SchedFail, SchedWriteback
  <2> QED
    BY <1>2, <2>1, <2>2, <2>3, <2>4 DEF Scheduler, Forgets, Ends
<1>3. CASE Maintenance
  BY <1>3 DEF Maintenance, MaintClose, MaintRelease, Releases, TypeRefs, RefWork
<1>4. CASE Closer
  BY <1>4 DEF Closer, CloseBegin, CloseDetach, CloseRelease, CloseShutdown, Releases, TypeRefs,
     RefWork
<1> QED
  BY <1>1, <1>2, <1>3, <1>4 DEF Next

\* What forgetting ended jobs, and beginning another one, does to a job.
LEMMA ForgetFacts ==
  ASSUME TypeOK, Forgets, NEW k \in JobIds, jobs'[k] # None
  PROVE  /\ jobs[k] # None /\ jobs'[k].seq = jobs[k].seq /\ jobs'[k].cancel = jobs[k].cancel
         /\ jobs'[k].refs = jobs[k].refs
         /\ \/ jobs'[k].status = jobs[k].status
            \/ jobs'[k].status = "RUNNING" /\ Live(jobs, k)
<1> USE NoneAssumption DEF TypeOK, TypeJobs
<1>1. ASSUME NEW E \in SUBSET JobIds, NEW j \in JobIds, SchedPick(E, j)
      PROVE  /\ jobs[k] # None /\ jobs'[k].seq = jobs[k].seq /\ jobs'[k].cancel = jobs[k].cancel
             /\ jobs'[k].refs = jobs[k].refs
             /\ \/ jobs'[k].status = jobs[k].status
                \/ jobs'[k].status = "RUNNING" /\ Live(jobs, k)
  <2>1. CASE k = j
    <3>1. j \notin E /\ Live(jobs, j) /\ Cleaned(E)[j] = jobs[j]
      BY <1>1 DEF SchedPick, IsNext, Live, Cleaned
    <3>2. jobs'[j] = [jobs[j] EXCEPT !.status = "RUNNING"]
      BY <1>1, <3>1 DEF SchedPick, Cleaned
    <3>3. jobs[j] # None /\ jobs[j] \in JobState
      BY <3>1 DEF Live
    <3> QED
      BY <2>1, <3>1, <3>2, <3>3 DEF JobState
  <2>2. CASE k # j
    BY <1>1, <2>2 DEF SchedPick, Cleaned
  <2> QED
    BY <2>1, <2>2
<1>2. ASSUME NEW E \in SUBSET JobIds, NEW expire \in BOOLEAN, SchedIdle(E, expire)
      PROVE  jobs[k] # None /\ jobs'[k] = jobs[k]
  BY <1>2 DEF SchedIdle, Cleaned
<1> QED
  BY <1>1, <1>2 DEF Forgets

-----------------------------------------------------------------------------
(* A cancel request that came before the terminal write is honoured. *)

\* Sequence numbers have been handed out.
SeqBound == \A j \in JobIds : jobs[j] # None => jobs[j].seq <= enqSeq

\* Every step hands out sequence numbers in order.
LEMMA SeqBoundStep == TypeOK /\ SeqBound /\ Next => SeqBound'
<1> SUFFICES ASSUME TypeOK, SeqBound, Next, NEW k \in JobIds, jobs'[k] # None
             PROVE  jobs'[k].seq <= enqSeq'
  BY DEF SeqBound
<1> USE NoneAssumption, JobQueueAssumption DEF TypeOK, TypeJobs, SeqBound
<1>1. CASE Submits
  <2>1. PICK j \in JobIds, prio \in Priorities, stamp \in Stamps, art \in Artifacts,
             reset \in Resets, refs \in SUBSET RefIds : Submit(j, prio, stamp, art, reset, refs)
    BY <1>1 DEF Submits
  <2>2. enqSeq' = enqSeq + 1 /\ (k # j => jobs'[k] = jobs[k]) /\ (k = j => jobs'[k].seq = enqSeq + 1)
    BY <2>1 DEF Submit
  <2>3. jobs[k] # None => jobs[k].seq \in Nat
    BY DEF JobState
  <2> QED
    BY <2>2, <2>3
<1>2. CASE jobs' = jobs /\ enqSeq' = enqSeq
  BY <1>2
<1>3. CASE Cancels /\ enqSeq' = enqSeq
  <2>1. PICK j \in JobIds : CancelWaiting(j) \/ CancelRunning(j)
    BY <1>3 DEF Cancels
  <2> QED
    BY <1>3, <2>1, CancelFacts
<1>4. CASE Releases /\ enqSeq' = enqSeq
  BY <1>4, ReleaseFacts DEF Releases
<1>5. CASE Forgets /\ enqSeq' = enqSeq
  BY <1>5, ForgetFacts
<1>6. CASE Ends /\ enqSeq' = enqSeq
  <2>1. PICK outcome \in Terminal : pc \in RunPcs /\ jobs' = [jobs EXCEPT ![task.job].status = outcome]
    BY <1>6 DEF Ends, SchedFail, SchedWriteback, RunPcs, Terminal
  <2>2. jobs[k] # None /\ jobs'[k].seq = jobs[k].seq
    BY <2>1, EndFacts
  <2> QED
    BY <1>6, <2>2
<1>7. CASE CloseBegin /\ enqSeq' = enqSeq
  BY <1>7, CloseFacts
<1> QED
  BY <1>1, <1>2, <1>3, <1>4, <1>5, <1>6, <1>7, JobsStep

\* What CancelHonoured says of a step.
CancelStep ==
  \A j \in JobIds :
    jobs[j] # None /\ jobs[j].cancel /\ jobs'[j] # None /\ jobs'[j].seq = jobs[j].seq
      => jobs'[j].cancel /\ (jobs'[j].status = "SUCCEEDED" => jobs[j].status = "SUCCEEDED")

\* No step takes a request back or ends the job that was asked to stop as
\* succeeded: the terminal write looks at the flag of the job it ends.
LEMMA CancelStepHolds == TypeOK /\ SeqBound /\ Next => CancelStep
<1> SUFFICES ASSUME TypeOK, SeqBound, Next, NEW k \in JobIds, jobs[k] # None, jobs[k].cancel,
                    jobs'[k] # None, jobs'[k].seq = jobs[k].seq
             PROVE  jobs'[k].cancel /\ (jobs'[k].status = "SUCCEEDED" => jobs[k].status = "SUCCEEDED")
  BY DEF CancelStep
<1> USE NoneAssumption, JobQueueAssumption DEF TypeOK, TypeJobs
<1>1. CASE Submits
  <2>1. PICK j \in JobIds, prio \in Priorities, stamp \in Stamps, art \in Artifacts,
             reset \in Resets, refs \in SUBSET RefIds : Submit(j, prio, stamp, art, reset, refs)
    BY <1>1 DEF Submits
  <2>2. (k # j => jobs'[k] = jobs[k]) /\ (k = j => jobs'[k].seq = enqSeq + 1)
    BY <2>1 DEF Submit
  <2>3. jobs[k].seq \in Nat /\ enqSeq \in Nat /\ jobs[k].seq <= enqSeq
    BY DEF JobState, SeqBound
  <2> QED
    BY <2>2, <2>3
<1>2. CASE jobs' = jobs
  BY <1>2
<1>3. CASE Cancels
  <2>1. PICK j \in JobIds : CancelWaiting(j) \/ CancelRunning(j)
    BY <1>3 DEF Cancels
  <2> QED
    BY <2>1, CancelFacts
<1>4. CASE Releases
  BY <1>4, ReleaseFacts DEF Releases
<1>5. CASE Forgets
  BY <1>5, ForgetFacts DEF Live
<1>6. CASE Ends
  <2>1. PICK outcome \in Terminal :
             /\ pc \in RunPcs /\ jobs' = [jobs EXCEPT ![task.job].status = outcome]
             /\ outcome = "SUCCEEDED" => ~jobs[task.job].cancel
    BY <1>6 DEF Ends, SchedFail, SchedWriteback, RunPcs, Terminal
  <2> QED
    BY <2>1, EndFacts
<1>7. CASE CloseBegin
  BY <1>7, CloseFacts
<1> QED
  BY <1>1, <1>2, <1>3, <1>4, <1>5, <1>6, <1>7, JobsStep

\* A cancel request that cancel_job() accepted before the terminal write of the
\* run is neither lost nor overtaken: the job never ends SUCCEEDED.
THEOREM CancelsAreHonoured == Spec => CancelHonoured
<1>1. Init => SeqBound
  BY DEF Init, SeqBound
<1>2. TypeOK /\ SeqBound /\ [Next]_vars => SeqBound'
  <2>1. SeqBound /\ UNCHANGED vars => SeqBound'
    BY DEF SeqBound, vars
  <2> QED
    BY <2>1, SeqBoundStep
<1>3. TypeOK /\ SeqBound /\ [Next]_vars => [CancelStep]_vars
  BY CancelStepHolds
<1> QED
  BY <1>1, <1>2, <1>3, TypeCorrect, PTL DEF Spec, CancelHonoured, CancelStep

-----------------------------------------------------------------------------
(* A summary served from the cache is the view of the present state. *)

\* SummaryFresh is not inductive: get_job() forgets a running job that is over
\* without dropping the cache.  It need not, because whoever ends a job drops it,
\* and a summary is only begun after such a job has been forgotten.
SummaryInv ==
  ~stop => /\ cache # None => cache = View(running) /\ ~StaleRunning
           /\ sumc # None /\ sumc.fresh => sumc.current = running /\ ~StaleRunning

\* A step that drops the cache keeps SummaryInv.
LEMMA SummaryInvalidated == TypeOK /\ Invalidate => SummaryInv'
BY NoneAssumption DEF TypeOK, TypeView, Invalidate, SummaryInv, SummaryCall

\* So does one that changes neither a status nor the running job.
LEMMA SummaryFrame ==
  ASSUME TypeOK, SummaryInv, UNCHANGED viewVars, stop' = stop, running' = running,
         \A k \in JobIds : /\ jobs'[k] = None <=> jobs[k] = None
                           /\ jobs[k] # None => jobs'[k].status = jobs[k].status
  PROVE  SummaryInv'
<1>1. View(running)' = View(running)
  BY DEF View
<1>2. StaleRunning' <=> StaleRunning
  BY DEF StaleRunning, IsTerminal, TypeOK, TypeView
<1> QED
  BY <1>1, <1>2 DEF SummaryInv, viewVars

\* So does one that only forgets a running job that is over.
LEMMA SummaryDetach ==
  ASSUME TypeOK, SummaryInv, UNCHANGED viewVars, stop' = stop, jobs' = jobs, DetachStale
  PROVE  SummaryInv'
<1>1. CASE StaleRunning
  BY <1>1 DEF SummaryInv, viewVars
<1>2. CASE ~StaleRunning
  BY <1>2, SummaryFrame DEF DetachStale
<1> QED
  BY <1>1, <1>2

\* SummaryInv is kept by every step.
LEMMA SummaryStep == TypeOK /\ SummaryInv /\ Next => SummaryInv'
<1> SUFFICES ASSUME TypeOK, SummaryInv, Next PROVE SummaryInv'
  OBVIOUS
<1>1. CASE Clients
  <2>1. CASE Submits \/ Cancels \/ \E j \in JobIds, dir \in Directions : Reorder(j, dir)
    BY <2>1, SummaryInvalidated DEF Submits, Cancels, Submit, CancelWaiting, CancelRunning, Reorder
  <2>2. CASE Start
    BY <2>2, SummaryFrame DEF Start
  <2>3. CASE GetJob \/ \E x \in cxl : CancelGet(x)
    BY <2>3, SummaryDetach DEF GetJob, CancelGet, Refresh, closeVars
  <2>4. CASE SummaryBegin
    <3>1. jobs' = jobs /\ cache' = cache /\ stop' = stop /\ DetachStale
          /\ sumc' = [current |-> running', fresh |-> TRUE]
      BY <2>4 DEF SummaryBegin, Refresh, closeVars
    <3>2. ~StaleRunning'
      BY <3>1 DEF DetachStale, StaleRunning, IsTerminal
    <3>3. ~StaleRunning => View(running)' = View(running)
      BY <3>1 DEF DetachStale, View
    <3> QED
      BY <3>1, <3>2, <3>3 DEF SummaryInv
  <2>5. CASE SummaryEnd
    <3>1. UNCHANGED <<jobs, running, stop>> /\ sumc' = None
          /\ cache' = IF sumc.fresh THEN View(sumc.current) ELSE cache
      BY <2>5 DEF SummaryEnd, closeVars
    <3>2. View(running)' = View(running) /\ (StaleRunning' <=> StaleRunning)
      BY <3>1 DEF View, StaleRunning, IsTerminal
    <3> QED
      BY <2>5, <3>1, <3>2 DEF SummaryInv, SummaryEnd
  <2>6. ASSUME NEW x \in cxl, CancelRelease(x)
        PROVE  SummaryInv'
    <3>1. x.job \in JobIds /\ Release(x.job, x.refs)
      BY <2>6 DEF CancelRelease, TypeOK, TypeRefs
    <3>2. CASE x.refs # {}
      BY <2>6, <3>2, SummaryInvalidated DEF CancelRelease
    <3>3. CASE x.refs = {}
      BY <2>6, <3>1, <3>3, ReleaseFacts, SummaryFrame DEF CancelRelease, closeVars
    <3> QED
      BY <3>2, <3>3
  <2> QED
    BY <1>1, <2>1, <2>2, <2>3, <2>4, <2>5, <2>6 DEF Clients, Submits, Cancels
<1>2. CASE Scheduler
  <2>1. CASE Ends \/ SchedClear \/ \E E \in SUBSET JobIds, j \in JobIds : SchedPick(E, j)
    BY <2>1, SummaryInvalidated DEF Ends, SchedFail, SchedWriteback, SchedClear, SchedPick
  <2>2. ASSUME NEW E \in SUBSET JobIds, NEW expire \in BOOLEAN, SchedIdle(E, expire)
        PROVE  SummaryInv'
    <3>1. CASE StaleRunning \/ E # {}
      BY <2>2, <3>1, SummaryInvalidated DEF SchedIdle
    <3>2. CASE ~StaleRunning /\ E = {}
      <4>1. UNCHANGED viewVars /\ stop' = stop /\ running' = running
        BY <2>2, <3>2 DEF SchedIdle, LoopReady, closeVars
      <4>2. \A k \in JobIds : jobs'[k] = jobs[k]
        BY <2>2, <3>2 DEF SchedIdle, Cleaned
      <4> QED
        BY <4>1, <4>2, SummaryFrame
    <3> QED
      BY <3>1, <3>2
  <2>3. CASE \/ SchedExit \/ SchedFlush \/ SchedSnapshot \/ SchedResolve \/ SchedBlob \/ SchedEscape
             \/ SchedReuse \/ SchedRebuild \/ SchedBind \/ SchedStreamEnd
             \/ \E p \in PoolIds : SchedCreate(p)
             \/ \E left \in BOOLEAN : SchedCancelSeen(left)
    <3>1. UNCHANGED <<jobs, running, viewVars, stop>>
      BY <2>3 DEF SchedExit, SchedFlush, SchedSnapshot, SchedResolve, SchedBlob, SchedEscape,
         SchedReuse, SchedRebuild, SchedBind, SchedStreamEnd, SchedAdvance, SchedCreate,
         SchedCancelSeen, closeVars
    <3> QED
      BY <3>1, SummaryFrame
  <2>4. CASE SchedDone
    BY <2>4, SummaryDetach DEF SchedDone, closeVars
  <2>5. CASE SchedRelease
    <3>1. task.job \in JobIds /\ Release(task.job, held)
      BY <2>5 DEF SchedRelease, TypeOK, TypeSched, RunPcs, Snapshot
    <3>2. CASE held # {}
      BY <2>5, <3>2, SummaryInvalidated DEF SchedRelease
    <3>3. CASE held = {}
      BY <2>5, <3>1, <3>3, ReleaseFacts, SummaryFrame DEF SchedRelease, closeVars
    <3> QED
      BY <3>2, <3>3
  <2> QED
    BY <1>2, <2>1, <2>2, <2>3, <2>4, <2>5 DEF Scheduler, Ends
<1>3. CASE Maintenance
  <2>1. CASE \E p \in closeq : MaintClose(p)
    BY <2>1, SummaryFrame DEF MaintClose, closeVars
  <2>2. ASSUME NEW x \in relq, MaintRelease(x)
        PROVE  SummaryInv'
    BY <2>2, ReleaseFacts, SummaryFrame DEF MaintRelease, closeVars, TypeOK, TypeRefs, RefWork
  <2> QED
    BY <1>3, <2>1, <2>2 DEF Maintenance
<1>4. CASE Closer
  <2>1. CASE CloseBegin
    BY <2>1 DEF CloseBegin, SummaryInv
  <2>2. CASE CloseDetach \/ CloseShutdown
    BY <2>2, SummaryFrame DEF CloseDetach, CloseShutdown
  <2>3. CASE \E x \in clrel : CloseRelease(x)
    BY <2>3, SummaryInvalidated DEF CloseRelease
  <2> QED
    BY <1>4, <2>1, <2>2, <2>3 DEF Closer
<1> QED
  BY <1>1, <1>2, <1>3, <1>4 DEF Next

\* Until close(), summary() never serves a view of a state that is past, although
\* it puts the view together without the lock and other threads end jobs, cancel
\* them and forget the running one meanwhile.
THEOREM SummariesAreFresh == Spec => []SummaryFresh
<1>1. Init => SummaryInv
  BY DEF Init, SummaryInv
<1>2. TypeOK /\ SummaryInv /\ [Next]_vars => SummaryInv'
  <2>1. SummaryInv /\ UNCHANGED vars => SummaryInv'
    BY DEF SummaryInv, vars, viewVars, closeVars, View, StaleRunning, IsTerminal
  <2> QED
    BY <2>1, SummaryStep
<1>3. SummaryInv => SummaryFresh
  BY DEF SummaryInv, SummaryFresh
<1> QED
  BY <1>1, <1>2, <1>3, TypeCorrect, PTL DEF Spec

-----------------------------------------------------------------------------
(* The references of an ended job are released by somebody. *)

\* RefsOwned is not inductive: a scheduler thread about to release references must
\* hold all those of the job, for its id may have been submitted again, with other
\* references, and that submission cancelled since the thread looked.
Owned(j) ==
  \/ stop
  \/ pc = "done" /\ task.job = j
  \/ pc = "release" /\ task.job = j /\ jobs[j].refs \subseteq held
  \/ \E x \in cxl : x.job = j /\ x.step = "release" /\ jobs[j].refs \subseteq x.refs

RefsInv == \A j \in JobIds : IsTerminal(jobs, j) /\ jobs[j].refs # {} => Owned(j)

\* RefsInv is kept by a step that ends no job, adds no references and leaves those
\* alone who are about to release some.
LEMMA RefsFrame ==
  ASSUME TypeOK, RefsInv, stop => stop', cxl \subseteq cxl', task' = task \/ pc \notin {"done", "release"},
         held' = held \/ pc # "release", pc' = pc \/ pc \notin {"done", "release"},
         \A k \in JobIds : IsTerminal(jobs, k)' =>
           IsTerminal(jobs, k) /\ jobs'[k].refs \subseteq jobs[k].refs
  PROVE  RefsInv'
<1> SUFFICES ASSUME NEW k \in JobIds, IsTerminal(jobs, k)', jobs'[k].refs # {}
             PROVE  Owned(k)'
  BY DEF RefsInv
<1>1. IsTerminal(jobs, k) /\ jobs'[k].refs \subseteq jobs[k].refs /\ jobs[k].refs # {}
  OBVIOUS
<1>2. Owned(k)
  BY <1>1 DEF RefsInv
<1> QED
  BY <1>1, <1>2 DEF Owned

\* RefsInv is kept when the terminal write hands the job to the thread that made it.
LEMMA RefsEnds == TypeOK /\ RefsInv /\ Ends => RefsInv'
<1> SUFFICES ASSUME TypeOK, RefsInv, Ends, NEW k \in JobIds, IsTerminal(jobs, k)', jobs'[k].refs # {}
             PROVE  Owned(k)'
  BY DEF RefsInv
<1>1. PICK outcome \in Terminal : pc \in RunPcs /\ jobs' = [jobs EXCEPT ![task.job].status = outcome]
  BY DEF Ends, SchedFail, SchedWriteback, RunPcs, Terminal
<1>2. pc' = "done" /\ UNCHANGED <<task, cxl, stop>> /\ pc \notin {"done", "release"}
  BY DEF Ends, SchedFail, SchedWriteback, closeVars
<1>3. CASE k = task.job
  BY <1>2, <1>3 DEF Owned
<1>4. CASE k # task.job
  <2>1. jobs'[k] = jobs[k]
    BY <1>1, <1>4, EndFacts
  <2>2. Owned(k)
    BY <2>1 DEF RefsInv, IsTerminal
  <2> QED
    BY <1>2, <2>1, <2>2 DEF Owned
<1> QED
  BY <1>3, <1>4

\* RefsInv is kept by every step.
LEMMA RefsStep == TypeOK /\ RefsInv /\ Next => RefsInv'
<1> SUFFICES ASSUME TypeOK, RefsInv, Next PROVE RefsInv'
  OBVIOUS
<1>0. ASSUME NEW j \in JobIds, NEW refs, Release(j, refs), NEW k \in JobIds, IsTerminal(jobs, k)'
      PROVE  /\ IsTerminal(jobs, k)
             /\ jobs'[k].refs = IF k = j THEN jobs[k].refs \ refs ELSE jobs[k].refs
  BY <1>0, ReleaseFacts DEF IsTerminal
<1>1. CASE Clients
  <2>1. ASSUME NEW j \in JobIds, NEW prio \in Priorities, NEW stamp \in Stamps,
               NEW art \in Artifacts, NEW reset \in Resets, NEW refs \in SUBSET RefIds,
               Submit(j, prio, stamp, art, reset, refs)
        PROVE  RefsInv'
    <3>1. UNCHANGED <<stop, cxl, task, held>> /\ (pc' = pc \/ pc = "off")
      BY <2>1 DEF Submit, EnsureThread, closeVars
    <3>2. \A k \in JobIds : IsTerminal(jobs, k)' => jobs'[k] = jobs[k]
      BY <2>1 DEF Submit, IsTerminal, Terminal, TypeOK, TypeJobs
    <3> QED
      BY <3>1, <3>2, RefsFrame DEF IsTerminal
  <2>2. CASE Start \/ GetJob \/ SummaryBegin \/ SummaryEnd
             \/ \E j \in JobIds, dir \in Directions : Reorder(j, dir)
    <3>1. UNCHANGED <<jobs, stop, cxl, task, held>> /\ (pc' = pc \/ pc = "off")
      BY <2>2 DEF Start, GetJob, SummaryBegin, SummaryEnd, Reorder, Refresh, EnsureThread,
         closeVars, schedVars
    <3> QED
      BY <3>1, RefsFrame DEF IsTerminal
  <2>3. ASSUME NEW x \in cxl, CancelGet(x)
        PROVE  RefsInv'
    <3> SUFFICES ASSUME NEW k \in JobIds, IsTerminal(jobs, k)', jobs'[k].refs # {}
                 PROVE  Owned(k)'
      BY DEF RefsInv
    <3>1. UNCHANGED <<jobs, stop, task, held>> /\ (pc' = pc \/ pc = "off")
          /\ cxl' = cxl \ {x} /\ x.step = "get"
      BY <2>3 DEF CancelGet, Refresh, EnsureThread, closeVars
    <3>2. Owned(k)
      BY <3>1 DEF RefsInv, IsTerminal
    <3> QED
      BY <3>1, <3>2 DEF Owned
  <2>4. ASSUME NEW j \in JobIds, CancelWaiting(j)
        PROVE  RefsInv'
    <3> SUFFICES ASSUME NEW k \in JobIds, IsTerminal(jobs, k)', jobs'[k].refs # {}
                 PROVE  Owned(k)'
      BY DEF RefsInv
    <3>1. UNCHANGED <<stop, task, held, pc>>
          /\ cxl' = cxl \cup {[job |-> j, refs |-> jobs[j].refs, step |-> "release"]}
      BY <2>4 DEF CancelWaiting, closeVars, schedVars
    <3>2. CASE k = j
      <4> DEFINE x == [job |-> j, refs |-> jobs[j].refs, step |-> "release"]
      <4>1. x \in cxl' /\ x.job = j /\ x.step = "release" /\ jobs'[j].refs \subseteq x.refs
        BY <2>4, <3>1, CancelFacts
      <4> QED
        BY <3>2, <4>1 DEF Owned
    <3>3. CASE k # j
      <4>1. jobs'[k] = jobs[k]
        BY <2>4, <3>3, CancelFacts
      <4>2. Owned(k)
        BY <4>1 DEF RefsInv, IsTerminal
      <4> QED
        BY <3>1, <4>1, <4>2 DEF Owned
    <3> QED
      BY <3>2, <3>3
  <2>5. ASSUME NEW j \in JobIds, CancelRunning(j)
        PROVE  RefsInv'
    <3>1. UNCHANGED <<stop, cxl, task, held, pc>>
      BY <2>5 DEF CancelRunning, closeVars, schedVars
    <3>2. \A k \in JobIds : IsTerminal(jobs, k)' => jobs'[k] = jobs[k]
      BY <2>5, CancelFacts DEF IsTerminal, Terminal
    <3> QED
      BY <3>1, <3>2, RefsFrame DEF IsTerminal
  <2>6. ASSUME NEW x \in cxl, CancelRelease(x)
        PROVE  RefsInv'
    <3> SUFFICES ASSUME NEW k \in JobIds, IsTerminal(jobs, k)', jobs'[k].refs # {}
                 PROVE  Owned(k)'
      BY DEF RefsInv
    <3>1. x.job \in JobIds /\ Release(x.job, x.refs) /\ x.step = "release"
      BY <2>6 DEF CancelRelease, TypeOK, TypeRefs
    <3>2. UNCHANGED <<stop, task, held, pc>> /\ cxl' = (cxl \ {x}) \cup {[x EXCEPT !.step = "get"]}
      BY <2>6 DEF CancelRelease, closeVars, schedVars
    <3>3. IsTerminal(jobs, k) /\ jobs'[k].refs = IF k = x.job THEN jobs[k].refs \ x.refs ELSE jobs[k].refs
      BY <1>0, <3>1
    <3>4. Owned(k)
      BY <3>3 DEF RefsInv
    <3>5. CASE \E y \in cxl : y.job = k /\ y.step = "release" /\ jobs[k].refs \subseteq y.refs
      <4>1. PICK y \in cxl : y.job = k /\ y.step = "release" /\ jobs[k].refs \subseteq y.refs
        BY <3>5
      <4>2. y # x
        BY <3>3, <4>1
      <4>3. y \in cxl' /\ jobs'[k].refs \subseteq y.refs
        BY <3>2, <3>3, <4>1, <4>2
      <4> QED
        BY <4>1, <4>3 DEF Owned
    <3>6. CASE ~\E y \in cxl : y.job = k /\ y.step = "release" /\ jobs[k].refs \subseteq y.refs
      BY <3>2, <3>3, <3>4, <3>6 DEF Owned
    <3> QED
      BY <3>5, <3>6
  <2> QED
    BY <1>1, <2>1, <2>2, <2>3, <2>4, <2>5, <2>6 DEF Clients
<1>2. CASE Scheduler
  <2>1. CASE \/ SchedExit \/ SchedFlush \/ SchedSnapshot \/ SchedResolve \/ SchedBlob \/ SchedEscape
             \/ SchedReuse \/ SchedRebuild \/ SchedBind \/ SchedStreamEnd \/ SchedClear
             \/ \E p \in PoolIds : SchedCreate(p)
             \/ \E left \in BOOLEAN : SchedCancelSeen(left)
    <3>1. UNCHANGED <<jobs, cxl, stop>> /\ pc \notin {"done", "release"}
      BY <2>1 DEF SchedExit, SchedFlush, SchedSnapshot, SchedResolve, SchedBlob, SchedEscape,
         SchedReuse, SchedRebuild, SchedBind, SchedStreamEnd, SchedAdvance, SchedCreate,
         SchedCancelSeen, SchedClear, closeVars
    <3> QED
      BY <3>1, RefsFrame DEF IsTerminal
  <2>2. CASE Forgets
    <3>1. UNCHANGED <<cxl, stop>> /\ pc = "top"
      BY <2>2 DEF Forgets, SchedPick, SchedIdle, LoopReady, closeVars
    <3>2. \A k \in JobIds : IsTerminal(jobs, k)' => IsTerminal(jobs, k) /\ jobs'[k].refs = jobs[k].refs
      BY <2>2, ForgetFacts DEF IsTerminal, Terminal
    <3> QED
      BY <3>1, <3>2, RefsFrame
  <2>3. CASE Ends
    BY <2>3, RefsEnds
  <2>4. CASE SchedDone
    <3> SUFFICES ASSUME NEW k \in JobIds, IsTerminal(jobs, k)', jobs'[k].refs # {}
                 PROVE  Owned(k)'
      BY DEF RefsInv
    <3>1. UNCHANGED <<jobs, cxl, stop, task>> /\ pc = "done"
          /\ (IsTerminal(jobs, task.job) => pc' = "release" /\ held' = jobs[task.job].refs)
      BY <2>4 DEF SchedDone, closeVars
    <3>2. IsTerminal(jobs, k) /\ Owned(k)
      BY <3>1 DEF RefsInv, IsTerminal
    <3> QED
      BY <3>1, <3>2 DEF Owned
  <2>5. CASE SchedRelease
    <3> SUFFICES ASSUME NEW k \in JobIds, IsTerminal(jobs, k)', jobs'[k].refs # {}
                 PROVE  Owned(k)'
      BY DEF RefsInv
    <3>1. task.job \in JobIds /\ Release(task.job, held) /\ UNCHANGED <<cxl, stop>> /\ pc = "release"
      BY <2>5 DEF SchedRelease, closeVars, TypeOK, TypeSched, RunPcs, Snapshot
    <3>2. IsTerminal(jobs, k) /\ jobs'[k].refs = IF k = task.job THEN jobs[k].refs \ held ELSE jobs[k].refs
      BY <1>0, <3>1
    <3>3. Owned(k)
      BY <3>2 DEF RefsInv
    <3> QED
      BY <3>1, <3>2, <3>3 DEF Owned
  <2> QED
    BY <1>2, <2>1, <2>2, <2>3, <2>4, <2>5 DEF Scheduler, Ends, Forgets
<1>3. CASE Maintenance
  <2>1. CASE \E p \in closeq : MaintClose(p)
    BY <2>1, RefsFrame DEF MaintClose, closeVars, schedVars, IsTerminal
  <2>2. ASSUME NEW x \in relq, MaintRelease(x)
        PROVE  RefsInv'
    <3>1. UNCHANGED <<cxl, stop, task, held, pc>> /\ x.job \in JobIds /\ Release(x.job, x.refs)
      BY <2>2 DEF MaintRelease, closeVars, schedVars, TypeOK, TypeRefs, RefWork
    <3> QED
      BY <1>0, <3>1, RefsFrame
  <2> QED
    BY <1>3, <2>1, <2>2 DEF Maintenance
<1>4. CASE Closer
  <2>1. CASE CloseBegin
    BY <2>1 DEF CloseBegin, RefsInv, Owned
  <2>2. CASE CloseDetach \/ CloseShutdown
    BY <2>2, RefsFrame DEF CloseDetach, CloseShutdown, schedVars, IsTerminal
  <2>3. ASSUME NEW x \in clrel, CloseRelease(x)
        PROVE  RefsInv'
    <3>1. UNCHANGED <<cxl, stop, task, held, pc>> /\ x.job \in JobIds /\ Release(x.job, x.refs)
      BY <2>3 DEF CloseRelease, schedVars, TypeOK, TypeRefs, RefWork
    <3> QED
      BY <1>0, <3>1, RefsFrame
  <2> QED
    BY <1>4, <2>1, <2>2, <2>3 DEF Closer
<1> QED
  BY <1>1, <1>2, <1>3, <1>4 DEF Next

\* No staged reference of an ended job is left without a releaser, whoever ends it
\* and however often its id has been submitted again, until close() releases all.
THEOREM RefsAreOwned == Spec => []RefsOwned
<1>1. Init => RefsInv
  BY DEF Init, RefsInv, IsTerminal
<1>2. TypeOK /\ RefsInv /\ [Next]_vars => RefsInv'
  <2>1. RefsInv /\ UNCHANGED vars => RefsInv'
    BY DEF RefsInv, Owned, vars, schedVars, closeVars, IsTerminal
  <2> QED
    BY <2>1, RefsStep
<1>3. RefsInv => RefsOwned
  BY DEF RefsInv, RefsOwned, Owned
<1> QED
  BY <1>1, <1>2, <1>3, TypeCorrect, PTL DEF Spec

-----------------------------------------------------------------------------
(* The manager implements the abstract queue. *)

\* As long as no id is submitted again before its job has ended, the job that the
\* scheduler thread has picked is RUNNING until the thread itself writes its end.
RunsOwn ==
  pc \in ({"flush", "run"} \cup RunPcs) \ {"done", "release", "clear"} /\ task # None =>
    jobs[task.job].status = "RUNNING"

\* RunsOwn is kept by every step.
LEMMA RunsOwnStep == ReuseIds # "any" /\ TypeOK /\ RunsOwn /\ Next => RunsOwn'
<1> SUFFICES ASSUME ReuseIds # "any", TypeOK, RunsOwn, Next PROVE RunsOwn'
  OBVIOUS
<1> USE NoneAssumption, JobQueueAssumption
<1> DEFINE Runs == pc \in ({"flush", "run"} \cup RunPcs) \ {"done", "release", "clear"} /\ task # None
<1>1. ASSUME Runs PROVE task.job \in JobIds /\ jobs[task.job] # None /\ jobs[task.job].status = "RUNNING"
  BY <1>1 DEF RunsOwn, TypeOK, TypeRun
<1>2. ASSUME \A k \in JobIds : jobs[k] # None /\ jobs[k].status = "RUNNING" => jobs'[k].status = "RUNNING",
             Runs' => Runs /\ task'.job = task.job
      PROVE  RunsOwn'
  BY <1>1, <1>2 DEF RunsOwn
<1>3. ASSUME Runs' => Runs /\ task'.job = task.job, Submits \/ jobs' = jobs \/ Cancels \/ Releases \/ CloseBegin
      PROVE  RunsOwn'
  <2>1. CASE Submits
    BY <1>2, <1>3, <2>1 DEF Submits, Submit, MaySubmit, IsTerminal, Terminal, TypeOK, TypeJobs
  <2>2. CASE jobs' = jobs
    BY <1>2, <1>3, <2>2
  <2>3. CASE Cancels
    BY <1>2, <1>3, <2>3, CancelFacts DEF Cancels
  <2>4. CASE Releases
    BY <1>2, <1>3, <2>4, ReleaseFacts DEF Releases
  <2>5. CASE CloseBegin
    BY <1>2, <1>3, <2>5, CloseFacts
  <2> QED
    BY <1>3, <2>1, <2>2, <2>3, <2>4, <2>5
<1>4. CASE Clients
  <2>1. UNCHANGED task /\ (pc' = pc \/ pc' = "top")
    BY <1>4 DEF Clients, Start, Submit, GetJob, SummaryBegin, SummaryEnd, CancelWaiting, CancelRunning,
       CancelRelease, CancelGet, Reorder, Refresh, EnsureThread, schedVars
  <2>2. Submits \/ jobs' = jobs \/ Cancels \/ Releases
    BY <1>4 DEF Clients, Start, GetJob, SummaryBegin, SummaryEnd, CancelGet, Reorder, CancelRelease,
       Submits, Cancels, Releases, TypeOK, TypeRefs
  <2> QED
    BY <1>3, <2>1, <2>2 DEF RunPcs
<1>5. CASE Scheduler
  <2>1. CASE \/ SchedExit \/ SchedFlush \/ SchedSnapshot \/ SchedResolve \/ SchedBlob \/ SchedEscape
             \/ SchedReuse \/ SchedRebuild \/ SchedBind \/ SchedStreamEnd \/ SchedDone \/ SchedClear
             \/ \E p \in PoolIds : SchedCreate(p)
             \/ \E left \in BOOLEAN : SchedCancelSeen(left)
    <3>1. jobs' = jobs /\ (Runs' => Runs /\ task'.job = task.job)
      BY <2>1 DEF SchedExit, SchedFlush, SchedSnapshot, SchedResolve, SchedBlob, SchedEscape,
         SchedReuse, SchedRebuild, SchedBind, SchedStreamEnd, SchedAdvance, SchedDone, SchedClear,
         SchedCreate, SchedCancelSeen, RunPcs, TypeOK, TypeSched
    <3> QED
      BY <1>3, <3>1
  <2>2. ASSUME NEW E \in SUBSET JobIds, NEW j \in JobIds, SchedPick(E, j)
        PROVE  RunsOwn'
    <3>1. task' = [job |-> j]
      BY <2>2 DEF SchedPick
    <3>2. jobs'[j].status = "RUNNING"
      BY <2>2, TypeOK DEF SchedPick, Cleaned, IsNext, Live, TypeOK, TypeJobs, JobState
    <3> QED
      BY <3>1, <3>2 DEF RunsOwn
  <2>3. CASE \E E \in SUBSET JobIds, expire \in BOOLEAN : SchedIdle(E, expire)
    BY <2>3 DEF SchedIdle, RunsOwn
  <2>4. CASE Ends \/ SchedRelease
    BY <2>4 DEF Ends, SchedFail, SchedWriteback, SchedRelease, RunsOwn
  <2> QED
    BY <1>5, <2>1, <2>2, <2>3, <2>4 DEF Scheduler, Ends
<1>6. CASE Maintenance \/ Closer
  <2>1. UNCHANGED <<pc, task>>
    BY <1>6 DEF Maintenance, MaintClose, MaintRelease, Closer, CloseBegin, CloseDetach, CloseRelease,
       CloseShutdown, schedVars
  <2>2. jobs' = jobs \/ Releases \/ CloseBegin
    BY <1>6 DEF Maintenance, MaintClose, MaintRelease, Closer, CloseDetach, CloseRelease, CloseShutdown,
       Releases, TypeOK, TypeRefs, RefWork
  <2> QED
    BY <1>3, <2>1, <2>2
<1> QED
  BY <1>4, <1>5, <1>6 DEF Next

\* A step of the manager that changes no status and no request of a running job is
\* none of the abstract queue.
LEMMA Stutters ==
  ASSUME \A k \in JobIds : /\ jobs'[k] = None <=> jobs[k] = None
                           /\ jobs[k] # None => /\ jobs'[k].status = jobs[k].status
                                                /\ jobs[k].status = "RUNNING" => jobs'[k].cancel = jobs[k].cancel
  PROVE  UNCHANGED Serial!serialVars
BY DEF Serial!serialVars, StatusOf, AskedOf

\* Every step of the manager is one of the abstract queue, or none.
LEMMA SerialStep ==
  ReuseIds # "any" /\ TypeOK /\ RunsOwn /\ SingleActive /\ Next => [Serial!SerialNext]_(Serial!serialVars)
<1> SUFFICES ASSUME ReuseIds # "any", TypeOK, RunsOwn, SingleActive, Next
             PROVE  Serial!SerialNext \/ UNCHANGED Serial!serialVars
  OBVIOUS
<1> USE NoneAssumption, JobQueueAssumption
<1>1. CASE Submits
  <2>1. PICK j \in JobIds, prio \in Priorities, stamp \in Stamps, art \in Artifacts,
             reset \in Resets, refs \in SUBSET RefIds : Submit(j, prio, stamp, art, reset, refs)
    BY <1>1 DEF Submits
  <2>2. /\ \A k \in JobIds \ {j} : jobs'[k] = jobs[k]
        /\ jobs'[j].status = "WAITING"
        /\ jobs'[j] # None
        /\ jobs[j] = None \/ jobs[j].status \in Terminal
    <3>1. jobs'[j] \in JobState
      BY <2>1 DEF Submit, TypeOK, TypeJobs, JobState, Statuses
    <3> QED
      BY <2>1, <3>1 DEF Submit, MaySubmit, IsTerminal, TypeOK, TypeJobs
  <2>3. StatusOf[j] \in Serial!Ended \cup {"ABSENT"} /\ StatusOf' = [StatusOf EXCEPT ![j] = "WAITING"]
    BY <2>2 DEF StatusOf, Serial!Ended, Terminal
  <2>4. AskedOf' = AskedOf
    BY <2>2 DEF AskedOf, Terminal
  <2> QED
    BY <2>3, <2>4 DEF Serial!SerialNext, Serial!SubmitJob
<1>2. CASE Cancels
  <2>1. PICK j \in JobIds : CancelWaiting(j) \/ CancelRunning(j)
    BY <1>2 DEF Cancels
  <2>2. CASE CancelWaiting(j)
    <3>1. StatusOf[j] = "WAITING" /\ AskedOf' = AskedOf
      BY <2>2, CancelFacts DEF StatusOf, AskedOf
    <3>2. StatusOf' = [k \in JobIds |-> IF k \in {j} /\ StatusOf[k] = "WAITING" THEN "CANCELLED" ELSE StatusOf[k]]
      BY <2>2, CancelFacts DEF StatusOf
    <3>3. Serial!CancelJobs({j})
      BY <3>1, <3>2 DEF Serial!CancelJobs
    <3> QED
      BY <3>3 DEF Serial!SerialNext
  <2>3. CASE CancelRunning(j)
    <3>1. StatusOf[j] = "RUNNING" /\ AskedOf' = AskedOf \cup {j}
      BY <2>3, CancelFacts DEF StatusOf, AskedOf
    <3>2. StatusOf' = [k \in JobIds |-> IF k \in {j} /\ StatusOf[k] = "WAITING" THEN "CANCELLED" ELSE StatusOf[k]]
      BY <2>3, CancelFacts DEF StatusOf
    <3>3. Serial!CancelJobs({j})
      BY <3>1, <3>2 DEF Serial!CancelJobs
    <3> QED
      BY <3>3 DEF Serial!SerialNext
  <2> QED
    BY <2>1, <2>2, <2>3
<1>3. CASE Releases
  BY <1>3, ReleaseFacts, Stutters DEF Releases
<1>4. ASSUME NEW E \in SUBSET JobIds, NEW j \in JobIds, SchedPick(E, j)
      PROVE  Serial!SerialNext
  <2>1. E \subseteq {k \in JobIds : StatusOf[k] \in Serial!Ended}
    BY <1>4 DEF SchedPick, StatusOf, IsTerminal, Serial!Ended, Terminal
  <2>2. j \notin E /\ StatusOf[j] = "WAITING" /\ ~jobs[j].cancel /\ jobs[j] # None
    BY <1>4 DEF SchedPick, IsNext, Live, Cleaned, StatusOf
  <2>3. \A k \in JobIds : StatusOf[k] # "RUNNING"
    BY <1>4 DEF SchedPick, LoopReady, StaleRunning, SingleActive, StatusOf, IsTerminal, Terminal
  <2>4. /\ jobs'[j] # None /\ jobs'[j].status = "RUNNING" /\ ~jobs'[j].cancel
        /\ \A k \in JobIds \ {j} : jobs'[k] = IF k \in E THEN None ELSE jobs[k]
    <3>1. jobs[j] \in JobState /\ Cleaned(E)[j] = jobs[j]
      BY <2>2 DEF TypeOK, TypeJobs, Cleaned
    <3>2. jobs'[j] = [jobs[j] EXCEPT !.status = "RUNNING"]
      BY <1>4, <3>1 DEF SchedPick, Cleaned
    <3>3. jobs'[j] \in JobState /\ jobs'[j].status = "RUNNING" /\ ~jobs'[j].cancel
      BY <2>2, <3>1, <3>2 DEF JobState, Statuses
    <3> QED
      BY <1>4, <3>3 DEF SchedPick, Cleaned
  <2>5. StatusOf' = [k \in JobIds |-> IF k = j THEN "RUNNING" ELSE IF k \in E THEN "ABSENT" ELSE StatusOf[k]]
    BY <2>4 DEF StatusOf
  <2>6. AskedOf' = AskedOf
    BY <2>3, <2>4 DEF AskedOf, StatusOf
  <2>7. Serial!Begin(j, E)
    BY <2>1, <2>2, <2>3, <2>5, <2>6 DEF Serial!Begin
  <2> QED
    BY <2>7 DEF Serial!SerialNext
<1>5. ASSUME NEW E \in SUBSET JobIds, NEW expire \in BOOLEAN, SchedIdle(E, expire)
      PROVE  Serial!SerialNext \/ UNCHANGED Serial!serialVars
  <2>1. E \subseteq {k \in JobIds : StatusOf[k] \in Serial!Ended}
    BY <1>5 DEF SchedIdle, StatusOf, IsTerminal, Serial!Ended, Terminal
  <2>2. \A k \in JobIds : jobs'[k] = IF k \in E THEN None ELSE jobs[k]
    BY <1>5 DEF SchedIdle, Cleaned
  <2>3. StatusOf' = [k \in JobIds |-> IF k \in E THEN "ABSENT" ELSE StatusOf[k]]
    BY <2>2 DEF StatusOf
  <2>4. AskedOf' = AskedOf
    BY <2>1, <2>2 DEF AskedOf, StatusOf, Serial!Ended
  <2>5. CASE E = {}
    BY <2>2, <2>5, Stutters
  <2>6. CASE E # {}
    BY <2>1, <2>3, <2>4, <2>6 DEF Serial!SerialNext, Serial!Forget
  <2> QED
    BY <2>5, <2>6
<1>6. CASE Ends
  <2>1. PICK outcome \in Terminal :
             /\ pc \in RunPcs \ {"done", "release", "clear"}
             /\ jobs' = [jobs EXCEPT ![task.job].status = outcome]
             /\ jobs[task.job].cancel => outcome # "SUCCEEDED"
    BY <1>6 DEF Ends, SchedFail, SchedWriteback, RunPcs, Terminal
  <2>2. task.job \in JobIds /\ jobs[task.job] # None /\ jobs[task.job].status = "RUNNING"
    <3>1. task # None
      BY <2>1 DEF TypeOK, TypeSched
    <3> QED
      BY <2>1, <3>1 DEF RunsOwn, RunPcs, TypeOK, TypeRun
  <2>3. StatusOf' = [StatusOf EXCEPT ![task.job] = outcome]
    <3>1. \A k \in JobIds : k # task.job => jobs'[k] = jobs[k]
      BY <2>1, EndFacts
    <3>2. jobs'[task.job] # None /\ jobs'[task.job].status = outcome
      BY <2>1, <2>2, EndFacts
    <3>3. \A k \in JobIds : StatusOf'[k] = IF k = task.job THEN outcome ELSE StatusOf[k]
      BY <3>1, <3>2 DEF StatusOf
    <3> QED
      BY <2>2, <3>3 DEF StatusOf
  <2>4. AskedOf' = AskedOf \ {task.job}
    BY <2>1, <2>2, EndFacts, ZenonT(60) DEF AskedOf, Terminal
  <2>5. StatusOf[task.job] = "RUNNING" /\ (task.job \in AskedOf => outcome # "SUCCEEDED")
    BY <2>1, <2>2 DEF StatusOf, AskedOf
  <2>6. Serial!EndJob(task.job, outcome)
    BY <2>3, <2>4, <2>5 DEF Serial!EndJob
  <2> QED
    BY <2>2, <2>6 DEF Serial!SerialNext, Serial!Ended, Terminal
<1>7. CASE CloseBegin
  <2> DEFINE C == {k \in JobIds : jobs[k] # None /\ jobs[k].status \in {"WAITING", "RUNNING"}}
  <2>1. \A k \in JobIds : jobs[k] # None /\ jobs[k].status = "RUNNING" => jobs'[k].cancel
    BY <1>7, CloseFacts DEF SingleActive
  <2>2. \A k \in C : StatusOf[k] \in {"WAITING", "RUNNING"}
    BY DEF StatusOf
  <2>3. StatusOf' = [k \in JobIds |-> IF k \in C /\ StatusOf[k] = "WAITING" THEN "CANCELLED" ELSE StatusOf[k]]
    BY <1>7, CloseFacts DEF StatusOf
  <2>4. AskedOf' = AskedOf \cup {k \in C : StatusOf[k] = "RUNNING"}
    BY <1>7, <2>1, CloseFacts DEF AskedOf, StatusOf
  <2>5. CASE C = {}
    <3>1. \A k \in JobIds : jobs[k] # None => jobs[k].status \notin {"WAITING", "RUNNING"}
      BY <2>5
    <3> QED
      BY <1>7, <3>1, CloseFacts, Stutters
  <2>6. CASE C # {}
    <3>1. Serial!CancelJobs(C)
      BY <2>2, <2>3, <2>4, <2>6 DEF Serial!CancelJobs
    <3> QED
      BY <3>1 DEF Serial!SerialNext
  <2> QED
    BY <2>5, <2>6
<1>8. CASE jobs' = jobs
  BY <1>8, Stutters
<1> QED
  BY <1>1, <1>2, <1>3, <1>4, <1>5, <1>6, <1>7, <1>8, JobsStep DEF Forgets

\* When no id is submitted again before its job has ended, the manager implements
\* the abstract queue: jobs run one at a time, end once, and do not succeed after a
\* request to stop, whatever its threads, pools, clean-ups and failures do.
THEOREM Implementation == ReuseIds # "any" /\ Spec => ImplementsSerialJobs
<1> SUFFICES ASSUME ReuseIds # "any" PROVE Spec => ImplementsSerialJobs
  OBVIOUS
<1>1. Init => RunsOwn
  BY DEF Init, RunsOwn
<1>2. TypeOK /\ RunsOwn /\ [Next]_vars => RunsOwn'
  <2>1. RunsOwn /\ UNCHANGED vars => RunsOwn'
    BY DEF RunsOwn, vars, schedVars
  <2> QED
    BY <2>1, RunsOwnStep
<1>3. Init => Serial!SerialInit
  BY DEF Init, Serial!SerialInit, StatusOf, AskedOf
<1>4. TypeOK /\ RunsOwn /\ SingleActive /\ [Next]_vars => [Serial!SerialNext]_(Serial!serialVars)
  <2>1. UNCHANGED vars => UNCHANGED Serial!serialVars
    BY DEF vars, Serial!serialVars, StatusOf, AskedOf
  <2> QED
    BY <2>1, SerialStep
<1> QED
  BY <1>1, <1>2, <1>3, <1>4, TypeCorrect, OneActiveJob, PTL DEF Spec, ImplementsSerialJobs, Serial!SerialSpec


-----------------------------------------------------------------------------
(* The waiting order: a set with a relation, as inserts, removals and      *)
(* swaps make them.                                                        *)

Ordered(L, B) ==
  /\ \A j, k \in L : <<j, k>> \in B => j # k /\ <<k, j>> \notin B
  /\ \A j, k \in L : j # k => <<j, k>> \in B \/ <<k, j>> \in B
  /\ \A j, k, m \in L : <<j, k>> \in B /\ <<k, m>> \in B => <<j, m>> \in B

\* What is left of an order is one.
LEMMA OrderedWithin ==
  ASSUME NEW L, NEW B, Ordered(L, B), NEW M \in SUBSET L
  PROVE  Ordered(M, Within(B, M))
BY DEF Ordered, Within

\* An element may go after any initial part of an order.
LEMMA OrderedBetween ==
  ASSUME NEW K, NEW C, Ordered(K, C), C \subseteq K \X K, NEW P \in SUBSET K, NEW j, j \notin K,
         \A k \in P, m \in K : <<m, k>> \in C => m \in P
  PROVE  Ordered(K \cup {j}, C \cup (P \X {j}) \cup ({j} \X (K \ P)))
<1> DEFINE D == C \cup (P \X {j}) \cup ({j} \X (K \ P))
<1>1. \A a, b \in K : <<a, b>> \in D <=> <<a, b>> \in C
  OBVIOUS
<1>2. \A a \in K : (<<a, j>> \in D <=> a \in P) /\ (<<j, a>> \in D <=> a \notin P)
  OBVIOUS
<1>3. <<j, j>> \notin D
  OBVIOUS
<1> HIDE DEF D
<1>4. ASSUME NEW a \in K \cup {j}, NEW b \in K \cup {j}, <<a, b>> \in D
      PROVE  a # b /\ <<b, a>> \notin D
  <2>1. CASE a \in K /\ b \in K
    BY <1>1, <1>4, <2>1 DEF Ordered
  <2>2. CASE a \in K /\ b = j
    BY <1>2, <1>4, <2>2
  <2>3. CASE a = j /\ b \in K
    BY <1>2, <1>4, <2>3
  <2>4. CASE a = j /\ b = j
    BY <1>3, <1>4, <2>4
  <2> QED
    BY <2>1, <2>2, <2>3, <2>4
<1>5. ASSUME NEW a \in K \cup {j}, NEW b \in K \cup {j}, a # b
      PROVE  <<a, b>> \in D \/ <<b, a>> \in D
  <2>1. CASE a \in K /\ b \in K
    BY <1>1, <1>5, <2>1 DEF Ordered
  <2>2. CASE a = j \/ b = j
    BY <1>2, <1>5, <2>2
  <2> QED
    BY <2>1, <2>2
<1>6. ASSUME NEW a \in K \cup {j}, NEW b \in K \cup {j}, NEW c \in K \cup {j},
             <<a, b>> \in D, <<b, c>> \in D
      PROVE  <<a, c>> \in D
  <2>1. CASE a \in K /\ b \in K /\ c \in K
    BY <1>1, <1>6, <2>1 DEF Ordered
  <2>2. CASE a = j
    <3>1. b \in K \ P
      BY <1>2, <1>3, <1>6, <2>2
    <3>2. c \in K
      BY <1>2, <1>6, <3>1
    <3>3. c \notin P
      BY <1>1, <1>6, <3>1, <3>2
    <3> QED
      BY <1>2, <2>2, <3>2, <3>3
  <2>3. CASE a \in K /\ b = j
    <3>1. a \in P /\ c \in K \ P
      BY <1>2, <1>3, <1>6, <2>3
    <3>2. <<c, a>> \notin D
      BY <1>1, <3>1
    <3> QED
      BY <1>5, <2>3, <3>1, <3>2
  <2>4. CASE a \in K /\ b \in K /\ c = j
    BY <1>1, <1>2, <1>6, <2>4
  <2> QED
    BY <2>1, <2>2, <2>3, <2>4
<1> QED
  BY <1>4, <1>5, <1>6 DEF Ordered, D

\* Neighbours may change places.
LEMMA OrderedSwap ==
  ASSUME NEW L, NEW B, Ordered(L, B), NEW a \in L, NEW b \in L, <<a, b>> \in B,
         ~\E m \in L : <<a, m>> \in B /\ <<m, b>> \in B
  PROVE  Ordered(L, (B \ {<<a, b>>}) \cup {<<b, a>>})
<1> DEFINE D == (B \ {<<a, b>>}) \cup {<<b, a>>}
<1>0. a # b
  BY DEF Ordered
<1>1. \A x, y \in L : <<x, y>> \in D <=> \/ <<x, y>> \in B /\ ~(x = a /\ y = b)
                                         \/ x = b /\ y = a
  OBVIOUS
<1> HIDE DEF D
<1>2. ASSUME NEW x \in L, NEW y \in L, <<x, y>> \in D
      PROVE  x # y /\ <<y, x>> \notin D
  BY <1>0, <1>1, <1>2 DEF Ordered
<1>3. ASSUME NEW x \in L, NEW y \in L, x # y
      PROVE  <<x, y>> \in D \/ <<y, x>> \in D
  BY <1>0, <1>1, <1>3 DEF Ordered
<1>4. ASSUME NEW x \in L, NEW y \in L, NEW z \in L, <<x, y>> \in D, <<y, z>> \in D
      PROVE  <<x, z>> \in D
  <2>1. CASE x = b /\ y = a
    <3>1. <<a, z>> \in B /\ z # b
      BY <1>0, <1>1, <1>4, <2>1
    <3>2. <<z, b>> \notin B
      BY <3>1
    <3>3. <<b, z>> \in B
      BY <3>1, <3>2 DEF Ordered
    <3> QED
      BY <1>0, <1>1, <2>1, <3>3
  <2>2. CASE y = b /\ z = a
    <3>1. <<x, b>> \in B /\ x # a
      BY <1>0, <1>1, <1>4, <2>2
    <3>2. <<a, x>> \notin B
      BY <3>1
    <3>3. <<x, a>> \in B
      BY <3>1, <3>2 DEF Ordered
    <3> QED
      BY <1>0, <1>1, <2>2, <3>3
  <2>3. CASE ~(x = b /\ y = a) /\ ~(y = b /\ z = a)
    <3>1. <<x, y>> \in B /\ <<y, z>> \in B /\ <<x, z>> \in B
      BY <1>1, <1>4, <2>3 DEF Ordered
    <3>2. ~(x = a /\ z = b)
      BY <3>1
    <3> QED
      BY <1>1, <3>1, <3>2
  <2> QED
    BY <2>1, <2>2, <2>3
<1> QED
  BY <1>2, <1>3, <1>4 DEF Ordered

\* Inserting a job, listed or not, gives an order (_insert_waiting_job_locked).
LEMMA OrderedInsert ==
  ASSUME NEW js, NEW L, NEW B, Ordered(L, B), NEW j
  PROVE  Ordered(Prune(js, L) \cup {j}, InsertBefore(js, L, B, j))
<1> DEFINE K     == Prune(js, L) \ {j}
           Ahead == {k \in K : \A m \in K : KeyLess(js[j], js[m]) => m # k /\ <<m, k>> \notin B}
           Pre   == IF j \in L THEN {k \in Ahead : <<k, j>> \in B} ELSE Ahead
<1>1. K \subseteq L /\ Ordered(K, Within(B, K)) /\ Within(B, K) \subseteq K \X K
  BY OrderedWithin DEF Prune, Within
<1>2. ASSUME NEW k \in Ahead, NEW m \in K, <<m, k>> \in B
      PROVE  m \in Ahead
  <2> SUFFICES ASSUME NEW n \in K, KeyLess(js[j], js[n])
               PROVE  n # m /\ <<n, m>> \notin B
    OBVIOUS
  <2>1. k \in K /\ n # k /\ <<n, k>> \notin B
    OBVIOUS
  <2> HIDE DEF Ahead, K, Pre
  <2> QED
    BY <1>1, <1>2, <2>1 DEF Ordered
<1>3. \A k \in Pre, m \in K : <<m, k>> \in Within(B, K) => m \in Pre
  <2> SUFFICES ASSUME NEW k \in Pre, NEW m \in K, <<m, k>> \in B
               PROVE  m \in Pre
    BY DEF Within
  <2>1. k \in Ahead /\ k \in K /\ m \in Ahead
    BY <1>2
  <2>2. CASE j \in L
    <3>1. <<k, j>> \in B
      BY <2>2
    <3> HIDE DEF Ahead, K
    <3>2. <<m, j>> \in B
      BY <1>1, <2>1, <2>2, <3>1 DEF Ordered
    <3> QED
      BY <2>1, <2>2, <3>2
  <2> QED
    BY <2>1, <2>2
<1>4. Pre \in SUBSET K /\ j \notin K /\ Prune(js, L) \cup {j} = K \cup {j}
  OBVIOUS
<1>5. InsertBefore(js, L, B, j) = Within(B, K) \cup (Pre \X {j}) \cup ({j} \X (K \ Pre))
  BY DEF InsertBefore
<1> HIDE DEF K, Ahead, Pre
<1> QED
  BY <1>1, <1>3, <1>4, <1>5, OrderedBetween


\* Moving a job past its neighbour, if it has one (reorder_job).
LEMMA OrderedUp ==
  ASSUME NEW L, NEW B, Ordered(L, B), NEW j \in L, NEW N \in SUBSET L,
         \A k \in N : <<k, j>> \in B /\ ~\E m \in L : <<k, m>> \in B /\ <<m, j>> \in B
  PROVE  Ordered(L, (B \ (N \X {j})) \cup ({j} \X N))
<1>1. CASE N = {}
  <2>1. (B \ (N \X {j})) \cup ({j} \X N) = B
    BY <1>1
  <2> QED
    BY <2>1
<1>2. ASSUME NEW k \in N
      PROVE  Ordered(L, (B \ (N \X {j})) \cup ({j} \X N))
  <2>1. ASSUME NEW m \in N, m # k
        PROVE  FALSE
    <3>1. <<k, m>> \in B \/ <<m, k>> \in B
      BY <2>1 DEF Ordered
    <3> QED
      BY <2>1, <3>1
  <2>2. N = {k}
    BY <2>1
  <2>3. {k} \X {j} = {<<k, j>>} /\ {j} \X {k} = {<<j, k>>}
    OBVIOUS
  <2>4. Ordered(L, (B \ {<<k, j>>}) \cup {<<j, k>>})
    BY OrderedSwap
  <2> QED
    BY <2>2, <2>3, <2>4
<1> QED
  BY <1>1, <1>2

\* The same the other way.
LEMMA OrderedDown ==
  ASSUME NEW L, NEW B, Ordered(L, B), NEW j \in L, NEW N \in SUBSET L,
         \A k \in N : <<j, k>> \in B /\ ~\E m \in L : <<j, m>> \in B /\ <<m, k>> \in B
  PROVE  Ordered(L, (B \ ({j} \X N)) \cup (N \X {j}))
<1>1. CASE N = {}
  <2>1. (B \ ({j} \X N)) \cup (N \X {j}) = B
    BY <1>1
  <2> QED
    BY <2>1
<1>2. ASSUME NEW k \in N
      PROVE  Ordered(L, (B \ ({j} \X N)) \cup (N \X {j}))
  <2>1. ASSUME NEW m \in N, m # k
        PROVE  FALSE
    <3>1. <<k, m>> \in B \/ <<m, k>> \in B
      BY <2>1 DEF Ordered
    <3> QED
      BY <2>1, <3>1
  <2>2. N = {k}
    BY <2>1
  <2>3. {k} \X {j} = {<<k, j>>} /\ {j} \X {k} = {<<j, k>>}
    OBVIOUS
  <2>4. Ordered(L, (B \ {<<j, k>>}) \cup {<<k, j>>})
    BY OrderedSwap
  <2> QED
    BY <2>2, <2>3, <2>4
<1> QED
  BY <1>1, <1>2

\* The waiting order is an order, and whatever may run is on it.
OrderInv == /\ \A j \in JobIds : Live(jobs, j) => j \in listed
            /\ Ordered(listed, before)

\* A step that makes no job runnable and leaves the order alone.
LEMMA OrderFrame ==
  ASSUME OrderInv, UNCHANGED orderVars, \A k \in JobIds : Live(jobs, k)' => Live(jobs, k)
  PROVE  OrderInv'
BY DEF OrderInv, orderVars, Ordered

\* Every step keeps the waiting order.
LEMMA OrderStep == TypeOK /\ OrderInv /\ Next => OrderInv'
<1> SUFFICES ASSUME TypeOK, OrderInv, Next
             PROVE  OrderInv'
  OBVIOUS
<1> USE NoneAssumption DEF TypeOK
<1>1. CASE Submits
  <2>1. PICK j \in JobIds : /\ listed' = Prune(jobs', listed) \cup {j}
                            /\ before' = InsertBefore(jobs', listed, before, j)
                            /\ \A k \in JobIds \ {j} : jobs'[k] = jobs[k]
    BY <1>1 DEF Submits, Submit, TypeJobs
  <2>2. Ordered(listed', before')
    BY <2>1, OrderedInsert DEF OrderInv
  <2>3. ASSUME NEW k \in JobIds, Live(jobs, k)'
        PROVE  k \in listed'
    BY <2>1, <2>3 DEF OrderInv, Live, Prune
  <2> QED
    BY <2>2, <2>3 DEF OrderInv, Ordered
<1>2. ASSUME NEW j \in JobIds, CancelWaiting(j)
      PROVE  OrderInv'
  <2>1. listed' = listed \ {j} /\ before' = Within(before, listed \ {j})
    BY <1>2 DEF CancelWaiting
  <2>2. Ordered(listed', before')
    BY <2>1, OrderedWithin DEF OrderInv
  <2>3. ASSUME NEW k \in JobIds, Live(jobs, k)'
        PROVE  k \in listed'
    BY <1>2, <2>1, <2>3, CancelFacts DEF OrderInv, Live
  <2> QED
    BY <2>2, <2>3 DEF OrderInv, Ordered
<1>3. ASSUME NEW j \in JobIds, NEW dir \in Directions, Reorder(j, dir)
      PROVE  OrderInv'
  <2> DEFINE L == Prune(jobs, listed) \cup {j}
             B == IF j \in listed THEN Within(before, L) ELSE InsertBefore(jobs, listed, before, j)
             Adjacent(a, b) == <<a, b>> \in B /\ ~\E m \in L : <<a, m>> \in B /\ <<m, b>> \in B
             Near == {k \in L : IF dir = "up" THEN Adjacent(k, j) ELSE Adjacent(j, k)}
  <2>1. Live(jobs, j) /\ j \in listed /\ L \subseteq listed /\ B = Within(before, L)
    BY <1>3 DEF Reorder, OrderInv, Prune
  <2>2. Ordered(L, B)
    BY <2>1, OrderedWithin DEF OrderInv
  <2>3. /\ listed' = L /\ jobs' = jobs
        /\ before' = IF dir = "up" THEN (B \ (Near \X {j})) \cup ({j} \X Near)
                                   ELSE (B \ ({j} \X Near)) \cup (Near \X {j})
    BY <1>3 DEF Reorder
  <2>4. Ordered(L, before')
    <3>1. j \in L /\ Near \in SUBSET L
      OBVIOUS
    <3>2. CASE dir = "up"
      <4>1. \A k \in Near : <<k, j>> \in B /\ ~\E m \in L : <<k, m>> \in B /\ <<m, j>> \in B
        BY <3>2
      <4>2. before' = (B \ (Near \X {j})) \cup ({j} \X Near)
        BY <2>3, <3>2
      <4> HIDE DEF L, B, Near
      <4> QED
        BY <2>2, <3>1, <4>1, <4>2, OrderedUp
    <3>3. CASE dir # "up"
      <4>1. \A k \in Near : <<j, k>> \in B /\ ~\E m \in L : <<j, m>> \in B /\ <<m, k>> \in B
        BY <3>3
      <4>2. before' = (B \ ({j} \X Near)) \cup (Near \X {j})
        BY <2>3, <3>3
      <4> HIDE DEF L, B, Near
      <4> QED
        BY <2>2, <3>1, <4>1, <4>2, OrderedDown
    <3> QED
      BY <3>2, <3>3
  <2>5. ASSUME NEW k \in JobIds, Live(jobs, k)'
        PROVE  k \in listed'
    BY <2>3, <2>5 DEF OrderInv, Live, Prune
  <2>6. Ordered(listed', before')
    BY <2>3, <2>4
  <2> HIDE DEF L, B, Near
  <2> QED
    BY <2>5, <2>6 DEF OrderInv, Ordered
<1>4. ASSUME NEW E \in SUBSET JobIds, NEW j \in JobIds, SchedPick(E, j)
      PROVE  OrderInv'
  <2> DEFINE js == Cleaned(E)
             L  == listed \ E
             W  == Prune(js, L)
  <2>1. j \notin E /\ Live(jobs, j) /\ j \in listed /\ Live(js, j)
    BY <1>4 DEF SchedPick, IsNext, Live, Cleaned, OrderInv
  <2>2. W # {} /\ listed' = W \ {j} /\ before' = Within(before, W \ {j}) /\ W \ {j} \subseteq listed
    BY <1>4, <2>1 DEF SchedPick, Prune
  <2>3. Ordered(listed', before')
    <3> HIDE DEF W
    <3> QED
      BY <2>2, OrderedWithin DEF OrderInv
  <2>4. ASSUME NEW k \in JobIds, Live(jobs, k)'
        PROVE  k \in listed'
    <3>1. k # j
      <4> SUFFICES ASSUME k = j PROVE FALSE
        OBVIOUS
      <4>1. js[j] = jobs[j] /\ jobs[j] \in JobState
        BY <2>1 DEF Live, Cleaned, TypeJobs
      <4>2. jobs'[j].status = "RUNNING"
        BY <1>4, <4>1 DEF SchedPick, Cleaned, JobState
      <4> QED
        BY <2>4, <4>2 DEF Live
    <3>2. jobs'[k] = js[k]
      BY <1>4, <3>1 DEF SchedPick, Cleaned
    <3>3. k \notin E /\ js[k] = jobs[k]
      BY <2>4, <3>2 DEF Live, Cleaned
    <3> QED
      BY <2>2, <2>4, <3>1, <3>2, <3>3 DEF Live, Prune, OrderInv
  <2> QED
    BY <2>3, <2>4 DEF OrderInv, Ordered
<1>5. ASSUME NEW E \in SUBSET JobIds, NEW expire \in BOOLEAN, SchedIdle(E, expire)
      PROVE  OrderInv'
  BY <1>5 DEF SchedIdle, OrderInv, Ordered, Live
<1>6. CASE UNCHANGED orderVars /\ ~Submits /\ ~Forgets
  <2>1. ASSUME NEW k \in JobIds, Live(jobs, k)'
        PROVE  Live(jobs, k)
    <3>1. jobs' = jobs \/ Cancels \/ Releases \/ Ends \/ CloseBegin
      BY <1>6, JobsStep
    <3>2. CASE jobs' = jobs
      BY <2>1, <3>2 DEF Live
    <3>3. CASE Cancels
      BY <2>1, <3>3, CancelFacts DEF Live, Cancels
    <3>4. CASE Releases
      BY <2>1, <3>4, ReleaseFacts DEF Live, Releases
    <3>5. CASE Ends
      <4>1. PICK outcome \in Terminal : pc \in RunPcs /\ jobs' = [jobs EXCEPT ![task.job].status = outcome]
        BY <3>5 DEF Ends, SchedFail, SchedWriteback, RunPcs, Terminal
      <4> QED
        BY <2>1, <4>1, EndFacts DEF Live, Terminal
    <3>6. CASE CloseBegin
      BY <2>1, <3>6, CloseFacts DEF Live
    <3> QED
      BY <3>1, <3>2, <3>3, <3>4, <3>5, <3>6
  <2> QED
    BY <1>6, <2>1, OrderFrame
<1>7. \/ Submits \/ (\E j \in JobIds : CancelWaiting(j))
      \/ (\E j \in JobIds, dir \in Directions : Reorder(j, dir)) \/ Forgets \/ UNCHANGED orderVars
  <2>1. CASE Clients
    BY <2>1 DEF Clients, Submits, Start, GetJob, SummaryBegin, SummaryEnd, CancelRunning, CancelRelease, CancelGet
  <2>2. CASE Scheduler
    BY <2>2 DEF Scheduler, Forgets, SchedExit, SchedFlush, SchedSnapshot, SchedResolve, SchedBlob, SchedEscape,
       SchedFail, SchedReuse, SchedRebuild, SchedCreate, SchedBind, SchedCancelSeen, SchedStreamEnd,
       SchedAdvance, SchedWriteback, SchedDone, SchedRelease, SchedClear
  <2>3. CASE Maintenance
    BY <2>3 DEF Maintenance, MaintClose, MaintRelease
  <2>4. CASE CloseBegin \/ CloseDetach
    <3>1. CASE CloseBegin
      <4>1. UNCHANGED orderVars
        BY <3>1, Zenon DEF CloseBegin
      <4> QED
        BY <4>1
    <3>2. CASE CloseDetach
      BY <3>2 DEF CloseDetach
    <3> QED
      BY <2>4, <3>1, <3>2
  <2>5. CASE (\E x \in clrel : CloseRelease(x)) \/ CloseShutdown
    BY <2>5 DEF CloseRelease, CloseShutdown
  <2> QED
    BY <2>1, <2>2, <2>3, <2>4, <2>5 DEF Next, Closer
<1>8. CASE Forgets
  BY <1>4, <1>5, <1>8 DEF Forgets
<1> QED
  BY <1>1, <1>2, <1>3, <1>6, <1>7, <1>8

\* No waiting job is lost from the waiting order, which stays a total order through
\* any inserts, removals and swaps (_insert_waiting_job_locked, reorder_job,
\* _pick_next_job_locked).
THEOREM OrderStaysSound == Spec => []OrderSound
<1>1. Init => OrderInv
  BY DEF Init, OrderInv, Ordered, Live
<1>2. TypeOK /\ OrderInv /\ [Next]_vars => OrderInv'
  <2>1. OrderInv /\ UNCHANGED vars => OrderInv'
    BY DEF vars, orderVars, OrderInv, Ordered, Live
  <2> QED
    BY <2>1, OrderStep
<1>3. OrderInv => OrderSound
  BY DEF OrderInv, Ordered, OrderSound
<1> QED
  BY <1>1, <1>2, <1>3, TypeCorrect, PTL DEF Spec
=============================================================================
