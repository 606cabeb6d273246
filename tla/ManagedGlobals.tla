--------------------------- MODULE ManagedGlobals ---------------------------
(***************************************************************************)
(* The managed globals of a deployed service or of a task pool: the owner  *)
(* hands new values to all its replicas (update_globals of                 *)
(* execution/service_session.py and execution/task_pool.py), each node     *)
(* merges them into the snapshot of its service or pool and publishes it   *)
(* (controlplane/nodecontrol_state.py), and a worker brings its module to  *)
(* the snapshot of each call before the call runs (node/execution.py).     *)
(* A replica that is lost gets replaced, and the last values are replayed  *)
(* in the background; the user may update at the same time.                *)
(*                                                                         *)
(* The digest of a snapshot stands for the snapshot, for snapshots are     *)
(* stored under their content.  The module sets no value the initial       *)
(* globals leave out, a node has one worker process, and the hook          *)
(* apply_managed_globals of the user's module does not fail.               *)
(***************************************************************************)
EXTENDS Integers, Sequences, FiniteSets

CONSTANTS
  Kinds,         \* subset of {"service", "pool"}: what is deployed
  Nodes,         \* nodes with a replica
  GlobalNames,         \* managed_global_names
  Patches,       \* sets of names an update may set
  Plans,         \* ways of cutting an update into batches: sequences of sets of names
  Calls,         \* calls of the service
  MaxUpdates,    \* bound: updates, replays included
  MaxFaults      \* bound: replicas that are lost and requests that fail

ASSUME ManagedGlobalsAssumption ==
  /\ Kinds \subseteq {"service", "pool"}
  /\ Patches \subseteq SUBSET GlobalNames /\ {} \notin Patches
  /\ Plans \subseteq Seq(SUBSET GlobalNames) /\ 0 \notin Calls
  /\ MaxUpdates \in Nat /\ MaxFaults \in Nat

VARIABLES
  kind,    \* what is deployed
  repl,    \* the service or pool of each node, with its worker
  sess,    \* nodes in sessions or _pools of the owner
  last,    \* _last_managed_globals
  upds,    \* the updates so far: values, targets and who runs them
  hand,    \* the handler of each update on each node
  wait,    \* _pending_globals_values: the replay that waits for the running one
  comp,    \* try_compensate_replicas
  calls,   \* the calls
  faults,  \* faults so far
  acked,   \* history: values a node has acknowledged
  mixed    \* history: updates, one that waits included, met one another or a
           \* change of the replicas

globalsVars == <<kind, repl, sess, last, upds, hand, wait, comp, calls, faults, acked, mixed>>

Updates == 1..MaxUpdates
Unset   == [x \in GlobalNames |-> 0]            \* the snapshot without a value
Initial == [x \in GlobalNames |-> 1]            \* initial_globals
NoPatch == [x \in {} |-> 0]
Merge(s, p) == [x \in GlobalNames |-> IF x \in DOMAIN p THEN p[x] ELSE s[x]]

Replica(n, i) == [st |-> n, inc |-> i, digest |-> Initial, state |-> Initial,
                  cache |-> Unset, vals |-> Unset, queue |-> <<>>]
NoHandler == [pc |-> "none", inc |-> 0, new |-> Unset, batch |-> 1, lost |-> FALSE]
NoCall    == [pc |-> "new", node |-> 0, inc |-> 0, snap |-> Unset, floor |-> Unset,
              seen |-> Unset]

Active == {u \in DOMAIN upds : upds[u].pc = "run"}
Busy(n) == {u \in DOMAIN upds : hand[u][n].pc \in {"loaded", "wrote", "committed"}}

GlobalsInit ==
  /\ kind \in Kinds
  /\ repl = [n \in Nodes |-> Replica("ready", 1)]
  /\ sess = Nodes /\ last = NoPatch /\ upds = <<>> /\ wait = NoPatch
  /\ hand = [u \in Updates |-> [n \in Nodes |-> NoHandler]]
  /\ comp = [pc |-> "idle", node |-> 0]
  /\ calls = [c \in Calls |-> NoCall]
  /\ faults = 0 /\ acked = [n \in Nodes |-> Unset] /\ mixed = FALSE

-----------------------------------------------------------------------------
(* The owner. *)

\* _prepare_managed_globals_batches_for_upload: an update larger than the limit of
\* a request goes out in several.
Cuts(P) == {plan \in Plans : UNION {plan[i] : i \in 1..Len(plan)} = P}

\* update_managed_globals_across_replicas: one request per batch and replica,
\* the replicas in parallel, the batches of a replica in their order.
Launch(before, by, patch, plan) ==
  LET u == Len(before) + 1 IN
  /\ u <= MaxUpdates
  /\ upds' = Append(before, [pc |-> "run", by |-> by, patch |-> patch, plan |-> plan,
                             to |-> sess])
  /\ hand' = [hand EXCEPT ![u] = [n \in Nodes |->
                IF n \in sess THEN [NoHandler EXCEPT !.pc = "sent", !.inc = repl[n].inc]
                               ELSE NoHandler]]
  /\ mixed' = (mixed \/ Active # {} \/ (by = "user" /\ wait # NoPatch) \/ comp.pc = "created"
                \/ \E n \in Nodes : Busy(n) # {})

\* update_globals of a user's thread.
UserUpdate ==
  /\ sess # {}
  /\ \A v \in Active : upds[v].by # "user"
  /\ \E P \in Patches : \E plan \in Cuts(P) :
       Launch(upds, "user", [x \in P |-> Len(upds) + 2], plan)
  /\ UNCHANGED <<kind, repl, sess, last, wait, comp, calls, faults, acked>>

\* A request fails for the owner: an error, a deadline, or an answer that is
\* lost.  What the node has begun goes on without it.
GiveUp(u, n) ==
  /\ faults < MaxFaults /\ faults' = faults + 1
  /\ u \in Active /\ n \in upds[u].to /\ ~hand[u][n].lost
  /\ hand[u][n].pc \in {"sent", "loaded", "wrote", "committed"}
  /\ hand' = [hand EXCEPT ![u][n].lost = TRUE,
                          ![u][n].pc = IF @ \in {"sent", "committed"} THEN "over" ELSE @]
  /\ UNCHANGED <<kind, repl, sess, last, upds, wait, comp, calls, acked, mixed>>

Failed(u) == {n \in upds[u].to : hand[u][n].lost}
Ended(u)  == \A n \in upds[u].to \ Failed(u) : hand[u][n].pc = "over"

\* The end of update_globals when a set of replicas is left to the owner; the
\* values become the last ones unless every replica failed.
EndWith(u, kept) ==
  /\ u \in Active /\ Ended(u)
  /\ upds' = [upds EXCEPT ![u].pc = IF upds[u].by = "replay" THEN "leave" ELSE "over"]
  /\ sess' = kept
  /\ last' = IF Failed(u) = upds[u].to THEN last ELSE upds[u].patch
  /\ UNCHANGED <<kind, repl, hand, wait, comp, calls, faults, acked, mixed>>

\* Mutant: a replica whose update failed stays in the session.
MutFinishUpdate(u) == EndWith(u, sess)

\* A service gives up the replicas that failed, whatever stands in their place
\* by now; a pool keeps them.
FinishUpdate(u) == EndWith(u, IF kind = "service" THEN sess \ Failed(u) ELSE sess)

\* _submit_async_update_globals: one replay runs, one waits, and the values that
\* arrive while one waits take its place.
Submit(patch) ==
  IF \E v \in DOMAIN upds : upds[v].by = "replay" /\ upds[v].pc # "over"
    THEN /\ wait' = patch /\ UNCHANGED <<upds, hand>>
         /\ mixed' = (mixed \/ \E v \in Active : upds[v].by = "user")
    ELSE Launch(upds, "replay", patch, <<DOMAIN patch>>) /\ UNCHANGED wait

\* The finally clause of _run: the end of a replay starts the one that waits.
Leave(u) ==
  LET before == [upds EXCEPT ![u].pc = "over"] IN
  /\ upds[u].pc = "leave"
  /\ wait' = NoPatch
  /\ IF wait = NoPatch \/ sess = {}
       THEN upds' = before /\ UNCHANGED <<hand, mixed>>
       ELSE Launch(before, "replay", wait, <<DOMAIN wait>>)
  /\ UNCHANGED <<kind, repl, sess, last, comp, calls, faults, acked>>

-----------------------------------------------------------------------------
(* A replica is lost and replaced. *)

\* The node stops the service or pool, or its process dies; the owner learns of
\* it and takes it out.
Lose(n) ==
  /\ faults < MaxFaults /\ faults' = faults + 1
  /\ n \in sess /\ repl[n].st = "ready"
  /\ repl' = [repl EXCEPT ![n] = [Replica("gone", @.inc) EXCEPT !.digest = Unset]]
  /\ sess' = sess \ {n}
  /\ mixed' = (mixed \/ Active # {} \/ Busy(n) # {})
  /\ UNCHANGED <<kind, last, upds, hand, wait, comp, calls, acked>>

\* A create that takes part in a compensation: the service runs with an empty
\* snapshot first, the initial globals follow.
Create(n) ==
  /\ comp.pc = "idle" /\ n \notin sess /\ repl[n].st = "gone"
  /\ repl' = [repl EXCEPT ![n] = [Replica("warming", @.inc + 1) EXCEPT
                                    !.digest = Unset, !.state = Unset]]
  /\ comp' = [pc |-> "created", node |-> n]
  /\ acked' = [acked EXCEPT ![n] = Unset]
  /\ mixed' = (mixed \/ Active # {} \/ Busy(n) # {})
  /\ UNCHANGED <<kind, sess, last, upds, hand, wait, calls, faults>>

InitialGlobals(n) ==
  /\ repl[n].st = "warming"
  /\ repl' = [repl EXCEPT ![n].st = "ready", ![n].digest = Initial, ![n].state = Initial,
                          ![n].queue = Append(@, [call |-> 0, snap |-> Initial])]
  /\ UNCHANGED <<kind, sess, last, upds, hand, wait, comp, calls, faults, acked, mixed>>

\* The new replica joins the session.
Join ==
  /\ comp.pc = "created" /\ repl[comp.node].st = "ready"
  /\ sess' = sess \cup {comp.node}
  /\ comp' = [comp EXCEPT !.pc = "added"]
  /\ mixed' = (mixed \/ Active # {})
  /\ UNCHANGED <<kind, repl, last, upds, hand, wait, calls, faults, acked>>

\* ... and the last values are replayed to all.
Replay ==
  /\ comp.pc = "added" /\ comp' = [comp EXCEPT !.pc = "idle"]
  /\ IF last # NoPatch /\ sess # {} THEN Submit(last) ELSE UNCHANGED <<upds, hand, mixed, wait>>
  /\ UNCHANGED <<kind, repl, sess, last, calls, faults, acked>>

-----------------------------------------------------------------------------
(* A node. *)

\* _update_service_globals, _update_runtime_globals of the control server: the
\* service or pool the request names is not there (404, 401).
Refused(u, n) == repl[n].st = "gone" \/ repl[n].inc # hand[u][n].inc

\* The first critical section of update_service_globals and
\* update_runtime_globals, and the snapshot that is read after it: a service
\* copies the digest under the lock, the pools of a client share a state.
Load(u, n) ==
  /\ hand[u][n].pc = "sent" /\ ~hand[u][n].lost
  /\ LET r == repl[n]
         names == upds[u].plan[hand[u][n].batch]
         base == IF kind = "service" THEN r.digest ELSE r.state
     IN IF Refused(u, n)
          THEN hand' = [hand EXCEPT ![u][n].pc = "over", ![u][n].lost = TRUE]
          ELSE hand' = [hand EXCEPT ![u][n].pc = "loaded",
                 ![u][n].new = Merge(base, [x \in names |-> upds[u].patch[x]])]
  /\ mixed' = (mixed \/ Busy(n) # {})
  /\ UNCHANGED <<kind, repl, sess, last, upds, wait, comp, calls, faults, acked>>

\* _write_managed_globals_snapshot: the digest of the shared state changes here.
Write(u, n) ==
  /\ hand[u][n].pc = "loaded"
  /\ hand' = [hand EXCEPT ![u][n].pc = "wrote"]
  /\ repl' = [repl EXCEPT ![n].state =
       IF kind = "pool" /\ repl[n].inc = hand[u][n].inc THEN hand[u][n].new ELSE @]
  /\ UNCHANGED <<kind, sess, last, upds, wait, comp, calls, faults, acked, mixed>>

\* Mutant: the digest of the service or pool is not moved on.
MutCommit(u, n) ==
  /\ hand[u][n].pc = "wrote"
  /\ hand' = [hand EXCEPT ![u][n].pc = IF hand[u][n].lost THEN "over" ELSE "committed"]
  /\ UNCHANGED <<repl, kind, sess, last, upds, wait, comp, calls, faults, acked, mixed>>

\* The second critical section: the digest belongs to a service or pool that is
\* still the same.
Commit(u, n) ==
  /\ hand[u][n].pc = "wrote"
  /\ hand' = [hand EXCEPT ![u][n].pc = IF hand[u][n].lost THEN "over" ELSE "committed"]
  /\ repl' = [repl EXCEPT ![n].digest =
       IF repl[n].st # "gone" /\ repl[n].inc = hand[u][n].inc THEN hand[u][n].new ELSE @]
  /\ UNCHANGED <<kind, sess, last, upds, wait, comp, calls, faults, acked, mixed>>

\* _warmup_service_managed_globals, _warmup_pool_managed_globals, then the answer;
\* the next batch follows it.
Answer(u, n) ==
  LET h == hand[u][n]
      more == h.batch < Len(upds[u].plan) IN
  /\ h.pc = "committed"
  /\ hand' = [hand EXCEPT ![u][n].pc = IF more THEN "sent" ELSE "over",
                          ![u][n].batch = IF more THEN @ + 1 ELSE @]
  /\ repl' = [repl EXCEPT ![n].queue =
       IF repl[n].inc = h.inc /\ repl[n].st # "gone"
         THEN Append(@, [call |-> 0, snap |-> h.new]) ELSE @]
  /\ acked' = [acked EXCEPT ![n] =
       IF ~more /\ repl[n].inc = h.inc THEN Merge(@, upds[u].patch) ELSE @]
  /\ UNCHANGED <<kind, sess, last, upds, wait, comp, calls, faults, mixed>>

\* A call takes the digest of the moment; its turn in the worker comes later.
Call(c, n) ==
  /\ calls[c].pc = "new"
  /\ repl[n].st = "ready" \/ (repl[n].st = "warming" /\ kind = "service")
  /\ calls' = [calls EXCEPT ![c] = [NoCall EXCEPT !.pc = "built", !.node = n,
                 !.inc = repl[n].inc, !.snap = repl[n].digest, !.floor = acked[n]]]
  /\ UNCHANGED <<kind, repl, sess, last, upds, hand, wait, comp, faults, acked, mixed>>

Submitted(c) ==
  LET n == calls[c].node IN
  /\ calls[c].pc = "built"
  /\ IF repl[n].inc = calls[c].inc /\ repl[n].st # "gone"
       THEN /\ calls' = [calls EXCEPT ![c].pc = "queued"]
            /\ repl' = [repl EXCEPT ![n].queue = Append(@, [call |-> c, snap |-> calls[c].snap])]
       ELSE /\ calls' = [calls EXCEPT ![c].pc = "failed"] /\ UNCHANGED repl
  /\ UNCHANGED <<kind, sess, last, upds, hand, wait, comp, faults, acked, mixed>>

\* _apply_managed_globals_to_router: the values of the snapshot, unless it is the
\* one that was applied last.
Applied(w, snap) ==
  IF w.cache = snap THEN w
    ELSE [w EXCEPT !.cache = snap,
                   !.vals = [x \in GlobalNames |-> IF snap[x] # 0 THEN snap[x] ELSE @[x]]]

\* The worker takes the next item: a warmup, or a call with the user's code.
Run(n) ==
  LET item == Head(repl[n].queue)
      w == Applied(repl[n], item.snap) IN
  /\ repl[n].queue # <<>>
  /\ repl' = [repl EXCEPT ![n] = [w EXCEPT !.queue = Tail(@)]]
  /\ calls' = IF item.call \notin Calls THEN calls
                ELSE [calls EXCEPT ![item.call].pc = "done", ![item.call].seen = w.vals]
  /\ UNCHANGED <<kind, sess, last, upds, hand, wait, comp, faults, acked, mixed>>

-----------------------------------------------------------------------------
NodeStep(n) ==
  \/ Lose(n) \/ Create(n) \/ InitialGlobals(n) \/ Run(n)
  \/ \E u \in DOMAIN upds : GiveUp(u, n) \/ Load(u, n) \/ Write(u, n) \/ Commit(u, n) \/ Answer(u, n)

GlobalsNext ==
  \/ UserUpdate \/ Join \/ Replay
  \/ \E u \in DOMAIN upds : FinishUpdate(u) \/ Leave(u)
  \/ \E n \in Nodes : NodeStep(n)
  \/ \E c \in Calls : Submitted(c) \/ \E n \in Nodes : Call(c, n)

GlobalsSpec == GlobalsInit /\ [][GlobalsNext]_globalsVars

-----------------------------------------------------------------------------
(* What must hold. *)

\* A call runs with the values of the snapshot that was current when the node
\* built it, not with those of an older or a newer one and not with a mixture,
\* whatever warmups and calls of other snapshots the worker served in between.
\* (_apply_managed_globals_to_router, node/execution.py)
ReadsOneSnapshot ==
  \A c \in Calls : calls[c].pc = "done" =>
    \A x \in GlobalNames : calls[c].snap[x] # 0 => calls[c].seen[x] = calls[c].snap[x]

\* A call that a replica builds after it has acknowledged an update sees the
\* values of that update or newer ones, as long as no two updates and no change
\* of the replicas met one another.  (update_service_globals,
\* update_runtime_globals, controlplane/nodecontrol_state.py)
AcknowledgedIsSeen ==
  ~mixed => \A c \in Calls : calls[c].pc = "done" =>
              \A x \in GlobalNames : calls[c].seen[x] >= calls[c].floor[x]

\* What a call reads is what it was meant to read.
CallsSeeGlobals == ReadsOneSnapshot /\ AcknowledgedIsSeen

Quiet == Active = {} /\ wait = NoPatch /\ comp.pc = "idle" /\ \A n \in Nodes : Busy(n) = {}

\* Once its updates have come to rest, an owner has left only replicas with the
\* same values: those an update did not reach are gone and a new one has been
\* brought to the others.  It needs updates that do not meet one another, and
\* that set the same names when a replica was replaced: only the last values are
\* replayed.  A pool keeps the replicas an update failed on.  (update_globals,
\* _submit_async_update_globals, execution/service_session.py)
ReplicasAgree ==
  /\ Quiet /\ ~mixed
  /\ \A u \in DOMAIN upds : kind = "pool" => Failed(u) = {}
  /\ (\E n \in Nodes : repl[n].inc > 1) => \A u \in DOMAIN upds : DOMAIN upds[u].patch = DOMAIN last
  => \A m, n \in sess : repl[m].digest = repl[n].digest
=============================================================================
