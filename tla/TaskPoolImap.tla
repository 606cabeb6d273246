---------------------------- MODULE TaskPoolImap ----------------------------
(***************************************************************************)
(* The batch call of a task pool client: imap_unordered and the calls that *)
(* are built on it (execution/task_pool.py).  The call hands every payload *)
(* of its input to some node of the pool, polls the nodes for results,     *)
(* moves tasks of nodes that were lost, that failed in their own code or   *)
(* that fell silent, and yields one item per payload.                      *)
(*                                                                         *)
(* A task is <<i, k>>: the k-th submission of payload i.  The code draws   *)
(* fresh identifiers and keeps task_index_by_id to find i again.  The call *)
(* runs in one thread; between two of its requests the keepalive thread    *)
(* may take a node out of the active set or bring it back, and the nodes   *)
(* answer what they like.  The choice of a node by load is left open.      *)
(***************************************************************************)
EXTENDS Integers, Sequences, FiniteSets, FiniteSetsExt, TLC

CONSTANTS
    Nodes,        \* node instances that hold a replica of the pool
    N,            \* payloads of the call
    Window,       \* max_in_flight, or the ceiling of the adaptive window
    MaxRetries,   \* max_infra_retries
    MaxTries,     \* bound on submissions of one payload
    MaxFlaps,     \* bound on changes of the active set by the keepalive thread
    Raises,       \* the values of raise_on_error to try
    Splits        \* TRUE: a submission may exceed the body limit of a node

ASSUME ImapAssumption ==
    /\ N \in Nat \ {0} /\ Window \in Nat \ {0} /\ MaxRetries \in Nat
    /\ MaxTries \in Nat /\ MaxFlaps \in Nat /\ Raises \subseteq BOOLEAN /\ Splits \in BOOLEAN

Payloads == 1..N
Tasks == Payloads \X (1..MaxTries)
Index(t) == t[1]

VARIABLES
    active,   \* _active_replica_ids
    tripped,  \* nodes whose submit breaker has seen a failure since the last success
    black,    \* _method_node_blacklist of the method
    pending,  \* _pending_task_node_ids: the node of each task a result is awaited of
    recs,     \* _replay_records
    at,       \* tasks each node has accepted and not yet handed out
    tries,    \* submissions of each payload so far
    ran,      \* how many submissions of each payload a node accepted
    call,     \* the locals of imap_unordered
    out,      \* items yielded for each payload
    flaps

vars == <<active, tripped, black, pending, recs, at, tries, ran, call, out, flaps>>
session == <<active, tripped, black>>
ledger == <<pending, recs, at, tries, ran>>

NoCall == [pc |-> "idle", nodes |-> {}, inflight |-> [n \in Nodes |-> 0], disabled |-> {},
           infra |-> [n \in Nodes |-> 0], queue |-> <<>>, plan |-> <<>>, why |-> "none",
           sent |-> 0, left |-> {}, node |-> "none", got |-> {}, moving |-> {},
           targets |-> {}, done |-> <<>>, freed |-> 0, ready |-> <<>>,
           raise |-> FALSE, end |-> "none"]

Init ==
    /\ active = Nodes /\ tripped = {} /\ black = {} /\ flaps = 0
    /\ pending = <<>> /\ recs = <<>>
    /\ at = [n \in Nodes |-> {}]
    /\ tries = [i \in Payloads |-> 0] /\ ran = tries /\ out = tries
    /\ call = NoCall

-----------------------------------------------------------------------------
Drop(f, S) == [x \in DOMAIN f \ S |-> f[x]]
PendingOn(n) == {t \in DOMAIN pending : pending[t] = n}
Total == SumFunction(call.inflight)
Least(a, b) == IF a < b THEN a ELSE b
Most(a, b) == IF a > b THEN a ELSE b

\* _available_pool_node_ids: active and not blacklisted; a node whose breaker
\* has seen failures is listed or not, as its cool-down has passed or not.
Listed(A) == /\ A \subseteq active \ black
             /\ (active \ black) \ tripped \subseteq A

\* A submission of one replayed task: the nodes of F refuse or fail, then n
\* accepts it, if n is a node.
Moved(r, F, n, att, tmo) ==
    LET t == <<Index(r.t), tries[Index(r.t)] + 1>>
        failed == [i |-> Index(r.t), ok |-> FALSE]
    IN  /\ tripped' = (tripped \union F) \ {n}
        /\ IF n \in Nodes
           THEN /\ t \in Tasks
                /\ pending' = (t :> n) @@ pending
                /\ recs' = (t :> [att |-> att, tmo |-> tmo]) @@ recs
                /\ at' = [at EXCEPT ![n] = @ \union {t}]
                /\ tries' = [tries EXCEPT ![t[1]] = @ + 1]
                /\ ran' = [ran EXCEPT ![t[1]] = @ + 1]
                /\ call' = [call EXCEPT !.disabled = @ \union F, !.inflight[n] = @ + 1,
                                        !.moving = @ \ {r}]
           ELSE /\ call' = [call EXCEPT !.disabled = @ \union F, !.moving = @ \ {r},
                                        !.done = Append(@, failed)]
                /\ UNCHANGED ledger

Record(t) == [t |-> t, n |-> pending[t], att |-> recs[t].att, tmo |-> recs[t].tmo]

\* _take_pending_replay_records_for_node: the tasks of the nodes stop being awaited.
Take(S) == {t \in DOMAIN pending : pending[t] \in S}
MutForgetRecs(T) == pending' = Drop(pending, T) /\ UNCHANGED recs
Forget(T) == /\ pending' = Drop(pending, T)
             /\ recs' = Drop(recs, T)

-----------------------------------------------------------------------------
(* Starting, filling the window *)

\* Exclusive mode wants a clean session; the nodes of the call are fixed here.
Begin(raise) ==
    /\ call = NoCall
    /\ pending = <<>>
    /\ \E A \in SUBSET active :
         /\ Listed(A) /\ A # {}
         /\ call' = [NoCall EXCEPT !.pc = "plan", !.nodes = A, !.raise = raise, !.why = "first",
                                   !.queue = [i \in Payloads |-> i]]
    /\ UNCHANGED <<session, ledger, out, flaps>>

\* _fill_imap_from_quota up to the requests: payloads given back come first, and
\* nodes that are disabled or not listed get none.
Plan ==
    /\ call.pc = "plan"
    /\ \E A \in SUBSET active, w \in 1..Window :
         LET E == (call.nodes \ call.disabled) \intersect A
             k == IF E = {} THEN 0 ELSE Least(Most(w - Total, 0), Len(call.queue))
             given == SubSeq(call.queue, 1, k)
         IN  /\ Listed(A)
             /\ \A j \in 1..k : tries[given[j]] < MaxTries
             /\ \E f \in [1..k -> E] :
                  call' = [call EXCEPT
                    !.plan = [j \in 1..k |-> [t |-> <<given[j], tries[given[j]] + 1>>, n |-> f[j]]],
                    !.queue = SubSeq(@, k + 1, Len(@)), !.pc = "submit", !.sent = 0]
             /\ tries' = [i \in Payloads |->
                            tries[i] + Cardinality({j \in 1..k : given[j] = i})]
    /\ UNCHANGED <<session, pending, recs, at, ran, out, flaps>>

Entries(n) == SelectSeq(call.plan, LAMBDA e : e.n = n)
TasksOf(s) == {s[j].t : j \in DOMAIN s}
Others(n) == SelectSeq(call.plan, LAMBDA e : e.n # n)

\* requeue_front keeps the order of the entries
Requeue(s) == [j \in DOMAIN s |-> Index(s[j].t)] \o call.queue

\* A submission is registered: the tasks of S are awaited from n.
Accepted(n, S) ==
    /\ pending' = [t \in S |-> n] @@ pending
    /\ ran' = [i \in Payloads |-> ran[i] + Cardinality({t \in S : Index(t) = i})]

\* One node answers its submission; what it refused goes back to the buffer.
SubmitOk(n) ==
    LET ent == Entries(n)
    IN  /\ call.pc = "submit" /\ ent # <<>>
        /\ \E S \in SUBSET TasksOf(ent) :
             /\ Accepted(n, S)
             /\ at' = [at EXCEPT ![n] = @ \union S]
             /\ recs' = [t \in S |-> [att |-> 0, tmo |-> 0]] @@ recs
             /\ tripped' = IF S = {} THEN tripped \union {n} ELSE tripped \ {n}
             /\ call' = [call EXCEPT
                  !.plan = Others(n), !.inflight[n] = @ + Cardinality(S),
                  !.sent = @ + Cardinality(S),
                  !.queue = Requeue(SelectSeq(ent, LAMBDA e : e.t \notin S))]
        /\ UNCHANGED <<active, black, tries, out, flaps>>

\* The submission raises: every entry goes back, whether the node has taken it
\* or not.  Of a submission in several batches the earlier ones are registered.
SubmitFail(n) ==
    LET ent == Entries(n)
    IN  /\ call.pc = "submit" /\ ent # <<>>
        /\ \E cut \in 0..(IF Splits THEN Len(ent) - 1 ELSE 0) :
             /\ Accepted(n, TasksOf(SubSeq(ent, 1, cut)))
             /\ \E j \in {cut, Len(ent)} :
                  at' = [at EXCEPT ![n] = @ \union TasksOf(SubSeq(ent, 1, j))]
        /\ tripped' = tripped \union {n}
        /\ call' = [call EXCEPT !.plan = Others(n), !.disabled = @ \union {n},
                                !.queue = Requeue(ent)]
        /\ UNCHANGED <<active, black, recs, tries, out, flaps>>

\* After a fill that found the pool idle and could place nothing the call gives up.
MutEndFill ==
    /\ call.pc = "submit" /\ call.plan = <<>>
    /\ call' = [call EXCEPT !.pc = "turn", !.why = "none", !.sent = 0]
    /\ UNCHANGED <<session, ledger, out, flaps>>
EndFill ==
    /\ call.pc = "submit" /\ call.plan = <<>>
    /\ call' = IF call.why = "idle" /\ call.sent = 0
               THEN [NoCall EXCEPT !.end = "no_node"]
               ELSE [call EXCEPT !.pc = "turn", !.why = "none", !.sent = 0]
    /\ UNCHANGED <<session, ledger, out, flaps>>

-----------------------------------------------------------------------------
(* The loop *)

\* The caller takes an item and may drop the generator there.
Yield(close) ==
    LET item == Head(call.ready)
    IN  /\ call.pc = "turn" /\ call.ready # <<>>
        /\ item.ok \/ ~call.raise
        /\ out' = [out EXCEPT ![item.i] = @ + 1]
        /\ call' = IF close THEN [NoCall EXCEPT !.end = "closed"]
                   ELSE [call EXCEPT !.ready = Tail(@)]
        /\ UNCHANGED <<session, ledger, flaps>>

\* The first failed item of a call that raises: cancel_job asks every pool and
\* clears the ledger when all have answered; its error is suppressed.
RaiseFailed(cancelled) ==
    /\ call.pc = "turn" /\ call.ready # <<>>
    /\ ~Head(call.ready).ok /\ call.raise
    /\ IF cancelled THEN Forget(DOMAIN pending) ELSE UNCHANGED <<pending, recs>>
    /\ call' = [NoCall EXCEPT !.end = "raised"]
    /\ UNCHANGED <<session, at, tries, ran, out, flaps>>

Finish ==
    /\ call.pc = "turn" /\ call.ready = <<>> /\ pending = <<>> /\ call.queue = <<>>
    /\ call' = [NoCall EXCEPT !.end = "done"]
    /\ UNCHANGED <<session, ledger, out, flaps>>

FillIdle ==
    /\ call.pc = "turn" /\ call.ready = <<>> /\ pending = <<>> /\ call.queue # <<>>
    /\ call' = [call EXCEPT !.pc = "plan", !.why = "idle"]
    /\ UNCHANGED <<session, ledger, out, flaps>>

BeginPoll ==
    /\ call.pc = "turn" /\ call.ready = <<>> /\ pending # <<>>
    /\ call' = [call EXCEPT !.pc = "poll", !.left = call.nodes, !.done = <<>>, !.freed = 0]
    /\ UNCHANGED <<session, ledger, out, flaps>>

\* A disabled node with nothing in flight and a node out of the active set are skipped.
Pollable(n) == /\ n \in call.left
               /\ n \notin call.disabled \/ call.inflight[n] > 0
               /\ n \in active

Outcome == {"ok", "failed", "infra", "dependency"}

PullOk(n) ==
    /\ call.pc = "poll" /\ call.moving = {} /\ call.got = {} /\ Pollable(n)
    /\ \E S \in SUBSET at[n] :
         /\ Cardinality(S) <= Most(1, call.inflight[n])
         /\ at' = [at EXCEPT ![n] = @ \ S]
         /\ \E o \in [S -> Outcome] :
              call' = [call EXCEPT !.left = @ \ {n}, !.node = IF S = {} THEN "none" ELSE n,
                                   !.got = {[t |-> t, o |-> o[t]] : t \in S}]
    /\ UNCHANGED <<session, pending, recs, tries, ran, out, flaps>>

\* The pull raises: the node is lost and its tasks are to move.
PullFail(n) ==
    /\ call.pc = "poll" /\ call.moving = {} /\ call.got = {} /\ Pollable(n)
    /\ active' = active \ {n}
    /\ tripped' = tripped \union {n}
    /\ Forget(Take({n}))
    /\ call' = [call EXCEPT !.left = @ \ {n}, !.disabled = @ \union {n}, !.inflight[n] = 0,
                            !.moving = {Record(t) : t \in Take({n}) \intersect DOMAIN recs}]
    /\ UNCHANGED <<black, at, tries, ran, out, flaps>>

\* Is the result awaited?  Late answers of tasks that moved are dropped here.
MutAwaited(t) == TRUE
Awaited(t) == t \in DOMAIN pending

\* the node whose answer is being read, while there is more of it
Polled(g) == IF call.got = {g} THEN "none" ELSE call.node

LateResult(g) ==
    /\ call.pc = "poll" /\ call.moving = {} /\ g \in call.got /\ ~Awaited(g.t)
    /\ call' = [call EXCEPT !.got = @ \ {g}, !.node = Polled(g)]
    /\ UNCHANGED <<session, ledger, out, flaps>>

Result(g) ==
    LET n == call.node
        bad == g.o \in {"infra", "dependency"}
        fails == IF bad THEN call.infra[n] + 1 ELSE IF g.o = "ok" THEN 0 ELSE call.infra[n]
        moves == bad /\ g.t \in DOMAIN recs
    IN  /\ call.pc = "poll" /\ call.moving = {} /\ g \in call.got /\ Awaited(g.t)
        /\ Forget({g.t})
        /\ black' = IF g.o = "dependency" THEN black \union {n} ELSE black
        /\ tripped' = IF bad THEN tripped \union {n}
                      ELSE IF g.o = "ok" THEN tripped \ {n} ELSE tripped
        /\ call' = [call EXCEPT
             !.got = @ \ {g}, !.node = Polled(g), !.freed = @ + 1, !.inflight[n] = Most(0, @ - 1),
             !.infra[n] = Least(2, fails),
             !.disabled = IF g.o = "dependency" \/ (bad /\ fails >= 2) THEN @ \union {n} ELSE @,
             !.moving = IF moves THEN {Record(g.t)} ELSE {},
             !.done = IF moves THEN @ ELSE Append(@, [i |-> Index(g.t), ok |-> g.o = "ok"])]
        /\ UNCHANGED <<active, at, tries, ran, out, flaps>>

\* _retry_replay_record: another listed node, in order, until one accepts.
NextAttempt(r) == r.att + 1
Retry(r) ==
    /\ call.pc = "poll" /\ r \in call.moving
    /\ \E A \in SUBSET active :
         LET K == IF r.att >= MaxRetries THEN {} ELSE (A \ {r.n}) \ call.disabled
         IN  /\ Listed(A)
             /\ \E F \in SUBSET K :
                  \/ F = K /\ Moved(r, F, "none", 0, 0)
                  \/ \E n \in K \ F : Moved(r, F, n, NextAttempt(r), 0)
    /\ UNCHANGED <<active, black, out, flaps>>

PollOver == /\ call.pc = "poll" /\ call.moving = {} /\ call.got = {}
            /\ \A n \in call.left : ~Pollable(n)

\* New items move the deadline and, unless one of them is going to raise, freed
\* places are filled again.
EndPoll ==
    LET raising == call.raise /\ \E j \in DOMAIN call.done : ~call.done[j].ok
        refill == call.freed > 0 /\ ~raising
    IN  /\ PollOver /\ call.done # <<>>
        /\ call' = [call EXCEPT !.ready = @ \o call.done, !.done = <<>>, !.freed = 0, !.left = {},
                                !.why = IF refill THEN "refill" ELSE "none",
                                !.pc = IF refill THEN "plan" ELSE "turn"]
        /\ UNCHANGED <<session, ledger, out, flaps>>

\* A pass that brought no item: the deadline has passed, or the thread sleeps a little.
EmptyPoll(next) ==
    /\ PollOver /\ call.done = <<>>
    /\ call' = [call EXCEPT !.pc = next, !.freed = 0, !.left = {}]
    /\ UNCHANGED <<session, ledger, out, flaps>>

-----------------------------------------------------------------------------
(* Nothing came before the deadline *)

Stalled == {n \in call.nodes \ call.disabled : call.inflight[n] > 0}
Fresh == (call.nodes \ call.disabled) \ Stalled

\* The tasks of the silent nodes are given to the nodes that owe nothing, or
\* spread over the silent ones; a task is moved for silence once per attempt.
Deadline ==
    LET T == Take(Stalled)
        R == {Record(t) : t \in T \intersect DOMAIN recs}
        spread == MaxRetries > 0 /\ R # {}
    IN  /\ call.pc = "deadline"
        /\ IF MaxRetries > 0 THEN Forget(T) ELSE UNCHANGED <<pending, recs>>
        /\ call' = IF ~spread \/ \E r \in R : r.tmo >= 1
                   THEN [NoCall EXCEPT !.end = "timeout"]
                   ELSE [call EXCEPT
                          !.pc = "replay", !.moving = R, !.done = <<>>,
                          !.targets = IF Fresh # {} THEN Fresh ELSE Stalled,
                          !.inflight = [n \in Nodes |->
                             IF n \in {r.n : r \in R} THEN 0 ELSE call.inflight[n]]]
        /\ UNCHANGED <<session, at, tries, ran, out, flaps>>

Replay(r) ==
    /\ call.pc = "replay" /\ r \in call.moving
    /\ LET away == call.targets \ {r.n}
           K == (IF away # {} THEN away ELSE call.targets) \ call.disabled
       IN  \E F \in SUBSET K :
             \/ F = K /\ Moved(r, F, "none", 0, 0)
             \/ \E n \in K \ F : Moved(r, F, n, r.att, r.tmo + 1)
    /\ UNCHANGED <<active, black, out, flaps>>

EndReplay ==
    /\ call.pc = "replay" /\ call.moving = {}
    /\ call' = [call EXCEPT !.pc = "turn", !.ready = @ \o call.done, !.done = <<>>,
                            !.targets = {}]
    /\ UNCHANGED <<session, ledger, out, flaps>>

-----------------------------------------------------------------------------
(* The keepalive thread *)

Flap(n) ==
    /\ flaps < MaxFlaps
    /\ flaps' = flaps + 1
    /\ active' = IF n \in active THEN active \ {n} ELSE active \union {n}
    /\ UNCHANGED <<tripped, black, ledger, call, out>>

Step ==
    \/ Plan \/ EndFill \/ Finish \/ FillIdle \/ BeginPoll \/ EndPoll \/ EmptyPoll("turn") \/ Deadline \/ EndReplay
    \/ \E b \in BOOLEAN : Yield(b) \/ RaiseFailed(b)
    \/ \E n \in Nodes : SubmitOk(n) \/ SubmitFail(n) \/ PullOk(n) \/ PullFail(n)
    \/ \E g \in call.got : LateResult(g) \/ Result(g)
    \/ \E r \in call.moving : Retry(r) \/ Replay(r)

Next ==
    \/ \E b \in Raises : Begin(b)
    \/ Step
    \/ EmptyPoll("deadline")
    \/ \E n \in Nodes : Flap(n)

\* The thread of the caller runs on, and passes that bring nothing take time: only
\* an item moves the deadline.  A node may stay silent.
Fairness == WF_vars(Step) /\ SF_vars(EmptyPoll("deadline"))
Spec == Init /\ [][Next]_vars /\ Fairness

-----------------------------------------------------------------------------
(* Properties *)

Running == call.pc # "idle"

\* A payload yields at most one item, whatever late answers of earlier submissions
\* (a lost request, a silent node, a lost node) still arrive.
OneItemPerPayload == \A i \in Payloads : out[i] <= 1

\* A call that ends normally has yielded an item for every payload: none is lost
\* between a refused submission, a lost node and the moves of its tasks.
Complete == call.end = "done" => \A i \in Payloads : out[i] = 1

\* Each payload of a call that ends normally has exactly one item, and no payload
\* ever has two.
EachPayloadOnce == OneItemPerPayload /\ Complete

\* The counters the window and the polling go by are the tasks awaited of each
\* node, and they never exceed the window, also while tasks move.
InflightExact ==
    Running => /\ \A n \in Nodes : call.inflight[n] = Cardinality(PendingOn(n))
               /\ Total <= Window

\* Every accepted task of the call has a replay record (docs/TASK_MODE.md), so
\* the loss of its node cannot lose it.
RecordKept == Running => DOMAIN recs = DOMAIN pending

\* The user's function runs a bounded number of times for a payload: per infra
\* attempt one submission and one move for silence.
RunsBounded == \A i \in Payloads : ran[i] <= 2 * (1 + MaxRetries)

\* The call returns or raises: a silent pool cannot hold the caller for ever.
CallEnds == Running ~> ~Running

=============================================================================
