-------------------------- MODULE TaskPoolResults --------------------------
(***************************************************************************)
(* The low-level calls of a task pool client: submit_payloads hands tasks  *)
(* to the nodes, iter_results and the calls built on it (collect_results,  *)
(* iter_items without payloads, iter_data, wait_for_results,               *)
(* wait_for_data) consume the answers (execution/task_pool.py).  Nothing   *)
(* is replayed here: a task of a lost node is answered by a failure that   *)
(* the client makes up and buffers.  Submitting and consuming may be done  *)
(* by two threads of the user, as the exclusive mode is not taken.         *)
(***************************************************************************)
EXTENDS Integers, Sequences, FiniteSets, SequencesExt, TLC

CONSTANTS
    Nodes,       \* node instances with a replica of the pool
    Tasks,       \* task identifiers
    Wanted,      \* values of max_count to try; 0 stands for None
    Filters,     \* values of task_ids to try; Tasks stands for no filter
    Concurrent,  \* TRUE: another thread submits while this one consumes
    MaxFlaps,    \* bound on changes of the active set by the keepalive thread
    MaxIters     \* bound on iterations started

VARIABLES
    active,    \* nodes whose results are accepted
    pending,   \* _pending_task_node_ids
    buffered,  \* _buffered_result_items
    at,        \* tasks each node has accepted and not yet answered
    fresh,     \* tasks not submitted yet
    sub,       \* the submission under way: requests left, and the tasks accepted
               \* by a request whose answer is not registered yet
    it,        \* the generator of _iter_raw_results
    out,       \* answers each task has had: from its node, and made up
    flaps, iters

vars == <<active, pending, buffered, at, fresh, sub, it, out, flaps, iters>>

NoSubmit == [left |-> <<>>, node |-> "none", taken |-> {}]
NoIter == [pc |-> "idle", want |-> 0, filter |-> {}, yielded |-> 0, left |-> {},
           node |-> "none", batch |-> <<>>, end |-> "none"]

Init ==
    /\ active = Nodes /\ pending = <<>> /\ buffered = <<>> /\ fresh = Tasks
    /\ at = [n \in Nodes |-> {}] /\ out = [t \in Tasks |-> [node |-> 0, lost |-> 0]]
    /\ sub = NoSubmit /\ it = NoIter /\ flaps = 0 /\ iters = 0

-----------------------------------------------------------------------------
(* submit_payloads *)

ConsumerIdle == it.pc = "idle"

\* The tasks are planned onto active nodes and sent with one request per node.
Submit ==
    /\ sub = NoSubmit /\ active # {}
    /\ Concurrent \/ ConsumerIdle
    /\ \E S \in SUBSET fresh \ {{}} : \E f \in [S -> active] :
         /\ fresh' = fresh \ S
         /\ \E order \in SetToSeqs({f[t] : t \in S}) :
              sub' = [NoSubmit EXCEPT
                !.left = [j \in DOMAIN order |->
                            [n |-> order[j], ts |-> {t \in S : f[t] = order[j]}]]]
    /\ UNCHANGED <<active, pending, buffered, at, it, out, flaps, iters>>

\* The node takes some of the tasks of a request and refuses the others.
Send ==
    /\ sub.left # <<>> /\ sub.node = "none"
    /\ LET r == Head(sub.left)
       IN  \E T \in SUBSET r.ts :
             /\ at' = [at EXCEPT ![r.n] = @ \union T]
             /\ sub' = [left |-> Tail(sub.left), node |-> r.n, taken |-> T]
    /\ UNCHANGED <<active, pending, buffered, fresh, it, out, flaps, iters>>

\* The answer arrives and the accepted tasks are awaited from here on.
Register ==
    /\ sub.node # "none"
    /\ pending' = [t \in sub.taken |-> sub.node] @@ pending
    /\ sub' = [sub EXCEPT !.node = "none", !.taken = {}]
    /\ UNCHANGED <<active, buffered, at, fresh, it, out, flaps, iters>>

\* The request raises: submit_payloads raises too and sends nothing more.
SubmitRaises ==
    /\ sub.node # "none"
    /\ sub' = NoSubmit
    /\ UNCHANGED <<active, pending, buffered, at, fresh, it, out, flaps, iters>>

-----------------------------------------------------------------------------
(* _iter_raw_results *)

Count == Cardinality(DOMAIN pending)

\* Without a count the target is what is awaited now, not what was awaited when
\* the iteration began.
Target == IF it.want = 0 THEN Count ELSE it.want
Reached == Target > 0 /\ it.yielded >= Target

Start(want, filter) ==
    /\ ConsumerIdle /\ iters < MaxIters
    /\ Concurrent \/ sub = NoSubmit
    /\ iters' = iters + 1
    /\ it' = [NoIter EXCEPT !.pc = "top", !.want = want, !.filter = filter]
    /\ UNCHANGED <<active, pending, buffered, at, fresh, sub, out, flaps>>

Ended(why) == [NoIter EXCEPT !.end = why, !.want = it.want]

\* Buffered answers that are still awaited and asked for, no more than wanted;
\* those no longer awaited are thrown away.
AwaitedItems == SelectSeq(buffered, LAMBDA b : b.t \in DOMAIN pending)
Asked(b) == b.t \in it.filter
Matching == SelectSeq(AwaitedItems, Asked)
Cap(s) == IF Target = 0 \/ Len(s) <= Target - it.yielded THEN s
          ELSE SubSeq(s, 1, Target - it.yielded)
Kept == SelectSeq(AwaitedItems, LAMBDA b : ~Asked(b))
            \o SubSeq(Matching, Len(Cap(Matching)) + 1, Len(Matching))

Top ==
    /\ it.pc = "top"
    /\ IF Reached
       THEN it' = Ended("target") /\ UNCHANGED buffered
       ELSE /\ buffered' = Kept
            /\ it' = [it EXCEPT !.pc = IF Matching = <<>> THEN "round" ELSE "buffered",
                                !.batch = Cap(Matching), !.left = Nodes]
    /\ UNCHANGED <<active, pending, at, fresh, sub, out, flaps, iters>>

MutWithout(t) == pending
Without(t) == [x \in DOMAIN pending \ {t} |-> pending[x]]

\* One answer is yielded; the task is not awaited any more.  A count that is
\* reached ends the iteration at once.
Yields(a, next) ==
    /\ out' = [out EXCEPT ![a.t] = [@ EXCEPT ![a.from] = @ + 1]]
    /\ pending' = Without(a.t)
    /\ it' = [next EXCEPT !.yielded = @ + 1]

YieldBuffered ==
    /\ it.pc = "buffered"
    /\ IF it.batch = <<>>
       THEN it' = [it EXCEPT !.pc = "round"] /\ UNCHANGED <<pending, out>>
       ELSE Yields(Head(it.batch), [it EXCEPT !.batch = Tail(@)])
    /\ UNCHANGED <<active, buffered, at, fresh, sub, flaps, iters>>

\* One node is asked; it answers with some of its tasks, the first ones wanted.
Pull(n) ==
    /\ it.pc = "round" /\ it.batch = <<>> /\ n \in it.left \intersect active
    /\ \E S \in SUBSET at[n] :
         /\ it.want > 0 => Cardinality(S) <= it.want - it.yielded
         /\ at' = [at EXCEPT ![n] = @ \ S]
         /\ \E order \in SetToSeqs(S) :
              it' = [it EXCEPT !.left = @ \ {n},
                               !.node = IF S = {} THEN "none" ELSE n,
                               !.batch = [j \in DOMAIN order |-> [t |-> order[j], from |-> "node"]]]
    /\ UNCHANGED <<active, pending, buffered, fresh, sub, out, flaps, iters>>

\* The pull raises: the node leaves the active set, its answers may be lost with
\* the connection, and each of its awaited tasks gets a failure in the buffer.
FailureOf(t) == [t |-> t, from |-> "lost"]
Lost(n) == {t \in DOMAIN pending : pending[t] = n}
PullFail(n) ==
    /\ it.pc = "round" /\ it.batch = <<>> /\ n \in it.left \intersect active
    /\ active' = active \ {n}
    /\ \E S \in {{}, at[n]} : at' = [at EXCEPT ![n] = @ \ S]
    /\ \E order \in SetToSeqs(Lost(n)) :
         buffered' = buffered \o [j \in DOMAIN order |-> FailureOf(order[j])]
    /\ it' = [it EXCEPT !.left = @ \ {n}]
    /\ UNCHANGED <<pending, fresh, sub, out, flaps, iters>>

\* An answer in hand: of a task not awaited it is dropped, of one not asked for
\* it is buffered, else it is yielded.
Consume ==
    LET a == Head(it.batch)
        t == a.t
        rest == [it EXCEPT !.batch = Tail(@), !.node = IF Len(it.batch) = 1 THEN "none" ELSE @]
    IN  /\ it.pc = "round" /\ it.batch # <<>>
        /\ CASE t \notin DOMAIN pending ->
                  it' = rest /\ UNCHANGED <<pending, buffered, out>>
             [] t \in DOMAIN pending /\ t \notin it.filter ->
                  it' = rest /\ buffered' = Append(buffered, a) /\ UNCHANGED <<pending, out>>
             [] OTHER -> Yields(a, IF it.want > 0 /\ it.yielded + 1 >= it.want
                                   THEN [Ended("target") EXCEPT !.yielded = it.yielded]
                                   ELSE rest)
                         /\ UNCHANGED buffered
        /\ UNCHANGED <<active, at, fresh, sub, flaps, iters>>

\* All nodes were asked: done when nothing is awaited, else another turn, unless
\* the deadline has passed.
EndRound ==
    /\ it.pc = "round" /\ it.batch = <<>> /\ it.left \intersect active = {}
    /\ it' = IF pending = <<>> THEN Ended("nothing_pending")
             ELSE [it EXCEPT !.pc = "top", !.left = {}]
    /\ UNCHANGED <<active, pending, buffered, at, fresh, sub, out, flaps, iters>>

Deadline ==
    /\ it.pc = "top"
    /\ it' = Ended("deadline")
    /\ UNCHANGED <<active, pending, buffered, at, fresh, sub, out, flaps, iters>>

\* The keepalive thread loses a node or finds it again.
Flap(n) ==
    /\ flaps < MaxFlaps
    /\ flaps' = flaps + 1
    /\ active' = IF n \in active THEN active \ {n} ELSE active \union {n}
    /\ UNCHANGED <<pending, buffered, at, fresh, sub, it, out, iters>>

Next ==
    \/ Submit \/ Send \/ Register \/ SubmitRaises
    \/ \E w \in Wanted, S \in Filters : Start(w, S)
    \/ Top \/ YieldBuffered \/ Consume \/ EndRound \/ Deadline
    \/ \E n \in Nodes : Pull(n) \/ PullFail(n) \/ Flap(n)

Spec == Init /\ [][Next]_vars

-----------------------------------------------------------------------------
(* Properties *)

InHand == {it.batch[j].t : j \in DOMAIN it.batch}
Buffered == {buffered[j].t : j \in DOMAIN buffered}

\* A task has one answer: its node's, given once, or the failure made up for a
\* lost node, also when the node comes back and answers after all.
OneVerdict == \A t \in Tasks : /\ out[t].node <= 1
                               /\ out[t].node = 0 \/ out[t].lost = 0

\* Every awaited task still has an answer to come: its node holds it, the
\* generator or the buffer does.  Else a caller that counts its tasks waits for ever.
AnswerComes == \A t \in DOMAIN pending : t \in at[pending[t]] \union InHand \union Buffered

\* A caller that counts its tasks gets one answer for each, not fewer, not more.
EachTaskOnce == OneVerdict /\ AnswerComes

\* An iteration without a count goes on until nothing is awaited or the deadline
\* passes (tests/test_taskpool_execution.py, collect_results_with_none_waits_pending_results).
WaitsForPending == it.want = 0 /\ it.end = "target" => pending = <<>>

=============================================================================
