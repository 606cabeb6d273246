---- MODULE ServiceCall ----
(***************************************************************************)
(* Calls of one service on one node: the HTTP threads of the node          *)
(* (_invoke_service_call, _invoke_service_stream_http), the client of the  *)
(* executor host (ExecutorHostClient), the loop of the host process        *)
(* (ExecutorCore) and the workers that run the user's code.  Unary calls   *)
(* and streams share the path; a stream also has a queue from the worker   *)
(* to the host and a buffer in the client.                                 *)
(***************************************************************************)
EXTENDS Naturals, Sequences, SequencesExt, FiniteSets

CONSTANTS
    Calls,        \* requests of the service, each with an id of its own
    Streams,      \* those that ask for a stream
    Items,        \* items a streaming method yields
    QueueMax,     \* places of the queue between worker and host (32)
    DrainMax,     \* items one drain takes from it (32)
    BufferMax,    \* items the client keeps for a consumer (128)
    Workers,      \* worker processes of the service
    MaxCrash      \* bound: deaths of workers or of the host

ASSUME SizesAssumption ==
    /\ Streams \subseteq Calls
    /\ {Items, QueueMax, DrainMax, BufferMax, Workers, MaxCrash} \subseteq Nat
    /\ "stop" \notin Calls

VARIABLES
    session,      \* "running", "stopped" or "forgotten" (pruned)
    received,     \* request_count
    returned,     \* returned_count
    pc,           \* what the thread of a call does
    outcome,      \* what it is told: a status of the worker or an error
    got,          \* items its consumer has received, in order
    client,       \* the client of the host: "open" or "none"
    host,         \* the host process: "up", "down"
    reqq,         \* request queue of the host
    evq,          \* its event queue, read by the reader of the client
    response,     \* _responses
    buffer,       \* _stream_events
    skip,         \* _expired_requests and _overflowed_streams
    known,        \* the service is in _service_workers
    pool,         \* its ProcessPoolExecutor: "none", "up", "broken"
    step,         \* where the loop of the host is
    inflight,     \* _inflight
    retries,      \* recoveries of a call
    fut,          \* the future of a call
    next,         \* the item its worker yields next
    sq,           \* its stream queue
    crashes

nodeVars == <<session, received, returned, pc, outcome, got>>
linkVars == <<reqq, evq, response, buffer, skip>>
coreVars == <<known, pool, inflight, retries, fut, next, sq>>
vars == <<nodeVars, linkVars, coreVars, client, host, step, crashes>>

\* What a worker returns (FAILED_USER and FAILED_DEPENDENCY are "FAILED"), and
\* what stands for a call without its result (FAILED_INFRA, 504, an exception).
Finished == {"SUCCEEDED", "FAILED"}
Errors == {"error"}
Answer(c, s) == [call |-> c, item |-> 0, status |-> s]
Item(c, i) == [call |-> c, item |-> i, status |-> "none"]

Waiting == {"sending", "waiting"}
Open == {c \in Calls : pc[c] \in Waiting \cup {"finish"}}
OnPool == {c \in Calls : fut[c] \in {"queued", "running"}}

TypeOK ==
    /\ session \in {"running", "stopped", "forgotten"}
    /\ received \in 0..Cardinality(Calls) /\ returned \in 0..received
    /\ pc \in [Calls -> {"idle", "sending", "waiting", "finish", "answered", "gone"}]
    /\ outcome \in [Calls -> Finished \cup Errors \cup {"none", "refused"}]
    /\ \A c \in Calls : got[c] \in Seq(1..Items)
    /\ client \in {"open", "none"} /\ host \in {"up", "down"}
    /\ reqq \in Seq(Calls \cup {"stop"})
    /\ evq \in Seq([call : Calls, item : 0..Items, status : Finished \cup Errors \cup {"none"}])
    /\ response \in [Calls -> Finished \cup Errors \cup {"none"}]
    /\ \A c \in Calls : buffer[c] \in Seq(1..Items)
    /\ skip \subseteq Calls
    /\ known \in BOOLEAN /\ pool \in {"none", "up", "broken"}
    /\ step \in {"request", "streams", "completed"}
    /\ inflight \subseteq Calls /\ retries \in [Calls -> 0..1]
    /\ fut \in [Calls -> Finished \cup {"none", "queued", "running", "broken", "cancelled"}]
    /\ next \in [Calls -> 1..Items + 1]
    /\ \A c \in Calls : sq[c] \in Seq(1..Items) /\ Len(sq[c]) <= QueueMax
    /\ crashes \in 0..MaxCrash

\* A service that has just been created: its executor is up.
Init ==
    /\ session = "running" /\ received = 0 /\ returned = 0
    /\ pc = [c \in Calls |-> "idle"] /\ outcome = [c \in Calls |-> "none"]
    /\ got = [c \in Calls |-> <<>>]
    /\ client = "open" /\ host = "up" /\ reqq = <<>> /\ evq = <<>>
    /\ response = [c \in Calls |-> "none"] /\ buffer = [c \in Calls |-> <<>>]
    /\ skip = {} /\ known = TRUE /\ pool = "up" /\ step = "request"
    /\ inflight = {} /\ retries = [c \in Calls |-> 0]
    /\ fut = [c \in Calls |-> "none"] /\ next = [c \in Calls |-> 1]
    /\ sq = [c \in Calls |-> <<>>] /\ crashes = 0

-----------------------------------------------------------------------------
(* HTTP threads of the node *)

\* The checks of the first section: a stopped or forgotten service (404, 409),
\* a wrong token or method (401, 404), an executor that is not ready.
Refuse(c) ==
    /\ pc' = [pc EXCEPT ![c] = "answered"]
    /\ outcome' = [outcome EXCEPT ![c] = "refused"]
    /\ UNCHANGED <<session, received, returned, got>>

\* The call passes them and is counted.
Count(c) ==
    /\ session = "running"
    /\ received' = received + 1
    /\ pc' = [pc EXCEPT ![c] = "sending"]
    /\ UNCHANGED <<session, returned, outcome, got>>

Invoke(c) ==
    /\ pc[c] = "idle" /\ c \notin Streams
    /\ Count(c) \/ Refuse(c)
    /\ UNCHANGED <<linkVars, coreVars, client, host, step, crashes>>

InvokeStream(c) ==
    /\ pc[c] = "idle" /\ c \in Streams
    /\ Count(c) \/ Refuse(c)
    /\ UNCHANGED <<linkVars, coreVars, client, host, step, crashes>>

Fail(c, err) ==
    /\ pc' = [pc EXCEPT ![c] = "finish"]
    /\ outcome' = [outcome EXCEPT ![c] = err]

\* No client, a dead host, or a specification that cannot be built (an
\* exception before the request is sent).
SendFails(c) ==
    /\ pc[c] = "sending"
    /\ Fail(c, "error")
    /\ UNCHANGED <<session, received, returned, got, linkVars, coreVars,
                   client, host, step, crashes>>

Send(c) ==
    /\ pc[c] = "sending" /\ client = "open" /\ host = "up"
    /\ reqq' = Append(reqq, c)
    /\ pc' = [pc EXCEPT ![c] = "waiting"]
    /\ UNCHANGED <<session, received, returned, outcome, got, evq, response,
                   buffer, skip, coreVars, client, host, step, crashes>>

\* The end of a wait in the client: nothing of the request is kept; when the
\* answer is still to come it is to be dropped.
Forget(c, late) ==
    /\ response' = [response EXCEPT ![c] = "none"]
    /\ buffer' = [buffer EXCEPT ![c] = <<>>]
    /\ skip' = IF late THEN skip \cup {c} ELSE skip

TakeResponse(c) ==
    /\ pc[c] = "waiting" /\ c \notin Streams /\ response[c] # "none"
    /\ Fail(c, response[c])
    /\ Forget(c, FALSE)
    /\ UNCHANGED <<session, received, returned, got, reqq, evq, coreVars,
                   client, host, step, crashes>>

\* The iterator of a stream gives the items it has before the answer.
TakeStreamed(c) ==
    /\ pc[c] = "waiting" /\ c \in Streams
    /\ \/ /\ buffer[c] # <<>>
          /\ got' = [got EXCEPT ![c] = Append(@, Head(buffer[c]))]
          /\ buffer' = [buffer EXCEPT ![c] = Tail(@)]
          /\ UNCHANGED <<pc, outcome, response, skip>>
       \/ /\ buffer[c] = <<>> /\ response[c] # "none"
          /\ Fail(c, response[c])
          /\ Forget(c, FALSE)
          /\ UNCHANGED got
    /\ UNCHANGED <<session, received, returned, reqq, evq, coreVars, client,
                   host, step, crashes>>

\* The deadline of the wait (the timeout of the call and 2 s more).
WaitTimeout(c) ==
    /\ pc[c] = "waiting" /\ response[c] = "none"
    /\ c \in Streams => buffer[c] = <<>>
    /\ Fail(c, "error")
    /\ Forget(c, TRUE)
    /\ UNCHANGED <<session, received, returned, got, reqq, evq, coreVars,
                   client, host, step, crashes>>

\* The wait looks every 0.1 s whether the process lives.
ProcessDied(c) ==
    /\ pc[c] = "waiting" /\ host = "down" /\ response[c] = "none"
    /\ c \in Streams => buffer[c] = <<>>
    /\ Fail(c, "error")
    /\ Forget(c, c \in Streams)
    /\ UNCHANGED <<session, received, returned, got, reqq, evq, coreVars,
                   client, host, step, crashes>>

\* The peer of a stream goes away: the generator is closed where it stands and
\* the section that counts the call as returned is not reached.
Disconnect(c) ==
    /\ pc[c] \in Waiting \cup {"finish"} /\ c \in Streams
    /\ pc' = [pc EXCEPT ![c] = "gone"]
    /\ IF pc[c] = "waiting" THEN Forget(c, TRUE) ELSE UNCHANGED <<response, buffer, skip>>
    /\ UNCHANGED <<session, received, returned, outcome, got, reqq, evq,
                   coreVars, client, host, step, crashes>>

\* The call is given back only to a service that still runs.
MutReturn(c) ==
    /\ pc[c] = "finish"
    /\ returned' = IF session = "running" THEN returned + 1 ELSE returned
    /\ pc' = [pc EXCEPT ![c] = "answered"]
    /\ UNCHANGED <<session, received, got, outcome, linkVars, coreVars,
                   client, host, step, crashes>>

\* The second section; a service that was forgotten meanwhile is not touched.
Return(c) ==
    /\ pc[c] = "finish"
    /\ returned' = IF session = "forgotten" THEN returned ELSE returned + 1
    /\ pc' = [pc EXCEPT ![c] = "answered"]
    /\ UNCHANGED <<session, received, got, outcome, linkVars, coreVars,
                   client, host, step, crashes>>

Finish(c) == c \notin Streams /\ Return(c)

FinishStream(c) == c \in Streams /\ Return(c)

-----------------------------------------------------------------------------
(* Owner and maintenance of the node *)

\* The session is stopped under the lock; its executor is stopped by another
\* thread, which takes the client first, so that no later call finds it.
StopService ==
    /\ session = "running"
    /\ session' = "stopped"
    /\ UNCHANGED <<received, returned, pc, outcome, got, linkVars, coreVars,
                   client, host, step, crashes>>

StopExecutor ==
    /\ session # "running" /\ client = "open"
    /\ client' = "none"
    /\ reqq' = IF host = "up" THEN Append(reqq, "stop") ELSE reqq
    /\ UNCHANGED <<nodeVars, evq, response, buffer, skip, coreVars, host, step,
                   crashes>>

\* A stopped session is pruned after its retention.
ForgetService ==
    /\ session = "stopped"
    /\ session' = "forgotten"
    /\ UNCHANGED <<received, returned, pc, outcome, got, linkVars, coreVars,
                   client, host, step, crashes>>

\* A dead host is replaced once its callers have seen that it died (they hold
\* its client, not the new one).  The new host has a new client.  The rebuild may fail,
\* which stops the service.
RebuildHost ==
    /\ host = "down" /\ client = "open" /\ session = "running"
    /\ \A c \in Calls : pc[c] # "waiting"
    /\ \/ /\ host' = "up" /\ known' = TRUE /\ pool' = "up" 
          /\ UNCHANGED <<session, client>>
       \/ /\ session' = "stopped" /\ client' = "none"
          /\ UNCHANGED <<host, known, pool>>
    /\ evq' = <<>> /\ skip' = {}
    /\ response' = [c \in Calls |-> "none"] /\ buffer' = [c \in Calls |-> <<>>]
    /\ UNCHANGED <<received, returned, pc, outcome, got, reqq, inflight,
                   retries, fut, next, sq, step, crashes>>

-----------------------------------------------------------------------------
(* The reader thread of the client *)

Read ==
    /\ evq # <<>>
    /\ evq' = Tail(evq)
    /\ LET c == Head(evq).call
           i == Head(evq).item
       IN  \/ /\ c \in skip
              /\ skip' = IF i > 0 THEN skip ELSE skip \ {c}
              /\ UNCHANGED <<response, buffer>>
           \/ /\ c \notin skip /\ i = 0
              /\ response' = [response EXCEPT ![c] = Head(evq).status]
              /\ UNCHANGED <<buffer, skip>>
           \/ /\ c \notin skip /\ i > 0 /\ Len(buffer[c]) < BufferMax
              /\ buffer' = [buffer EXCEPT ![c] = Append(@, i)]
              /\ UNCHANGED <<response, skip>>
           \/ /\ c \notin skip /\ i > 0 /\ Len(buffer[c]) >= BufferMax
              /\ skip' = skip \cup {c}
              /\ buffer' = [buffer EXCEPT ![c] = <<>>]
              /\ response' = [response EXCEPT ![c] = "error"]
    /\ UNCHANGED <<nodeVars, reqq, coreVars, client, host, step, crashes>>

-----------------------------------------------------------------------------
(* The loop of the host process: one request, the streams, the futures that are
   done, the calls whose time is over *)

\* Futures after the pool is shut down: running ones break with their worker,
\* queued ones are cancelled, or break when the death is seen first.
ShutDown(f) ==
    {[c \in Calls |-> IF f[c] \in {"queued", "running"}
                      THEN IF c \in B THEN "broken" ELSE "cancelled" ELSE f[c]] :
        B \in {S \in SUBSET OnPool : \A c \in OnPool \ S : f[c] = "queued"}}

\* _submit_service_future: a missing or broken pool is rebuilt first; a broken
\* one has nothing left on it.
Submit(c) ==
    /\ pool' = "up"
    /\ fut' = [fut EXCEPT ![c] = "queued"]
    /\ next' = [next EXCEPT ![c] = 1]

Idle == step' = "streams"

HandleCall(c) ==
    /\ step = "request" /\ host = "up" /\ reqq # <<>> /\ Head(reqq) = c
    /\ reqq' = Tail(reqq) /\ Idle
    /\ IF known
       THEN /\ Submit(c)
            /\ inflight' = inflight \cup {c}
            /\ UNCHANGED evq
       ELSE /\ evq' = Append(evq, Answer(c, "error"))
            /\ UNCHANGED <<pool, fut, next, inflight>>
    /\ UNCHANGED <<nodeVars, response, buffer, skip, known, retries, sq, client,
                   host, crashes>>

FailInflight == SetToSeq({Answer(c, "error") : c \in inflight})

\* The client closes the host once its request is answered: it leaves its loop
\* with "shutdown", or is terminated, and its workers with it.
CloseHost ==
    /\ host' = "down" /\ reqq' = <<>> /\ step' = "request"
    /\ fut' = [c \in Calls |-> "none"] /\ next' = [c \in Calls |-> 1]
    /\ sq' = [c \in Calls |-> <<>>]
    /\ inflight' = {} /\ known' = FALSE /\ pool' = "none"

\* stop_service: what is in flight is answered before the pool goes.
HandleStop ==
    /\ step = "request" /\ host = "up" /\ reqq # <<>> /\ Head(reqq) = "stop"
    /\ evq' = evq \o FailInflight
    /\ CloseHost
    /\ UNCHANGED <<nodeVars, response, buffer, skip, retries, client, crashes>>

NoRequest ==
    /\ step = "request" /\ host = "up" /\ reqq = <<>>
    /\ inflight # {}
    /\ Idle
    /\ UNCHANGED <<nodeVars, linkVars, coreVars, client, host, crashes>>

Taken(c) == SubSeq(sq[c], 1, IF Len(sq[c]) < DrainMax THEN Len(sq[c]) ELSE DrainMax)

Drained(c) == SubSeq(sq[c], Len(Taken(c)) + 1, Len(sq[c]))

ItemEvents(c) == [i \in 1..Len(Taken(c)) |-> Item(c, Taken(c)[i])]

DrainStreams ==
    /\ step = "streams" /\ host = "up"
    /\ LET S == SetToSeq(inflight \cap Streams)
       IN  evq' = evq \o FlattenSeq([i \in 1..Len(S) |-> ItemEvents(S[i])])
    /\ sq' = [c \in Calls |-> IF c \in inflight THEN Drained(c) ELSE sq[c]]
    /\ step' = "completed"
    /\ UNCHANGED <<nodeVars, reqq, response, buffer, skip, known, pool, inflight,
                   retries, fut, next, client, host, crashes>>

\* A result that is sent without what the worker left in the queue.
MutComplete(c) ==
    /\ fut[c] \in Finished
    /\ evq' = evq \o <<Answer(c, fut[c])>>
    /\ sq' = [sq EXCEPT ![c] = <<>>]
    /\ inflight' = inflight \ {c}
    /\ fut' = [fut EXCEPT ![c] = "none"] /\ next' = [next EXCEPT ![c] = 1]
    /\ UNCHANGED <<pool, retries>>

\* A result: what is left of the stream goes first.
Complete(c) ==
    /\ fut[c] \in Finished
    /\ evq' = (evq \o ItemEvents(c)) \o <<Answer(c, fut[c])>>
    /\ sq' = [sq EXCEPT ![c] = <<>>]
    /\ inflight' = inflight \ {c}
    /\ fut' = [fut EXCEPT ![c] = "none"] /\ next' = [next EXCEPT ![c] = 1]
    /\ UNCHANGED <<pool, retries>>

\* A future that broke is submitted again, once; the call starts from its first
\* item and keeps its stream queue and the time it began.
Recover(c) ==
    /\ fut[c] = "broken" /\ retries[c] < 1 /\ known
    /\ Submit(c)
    /\ retries' = [retries EXCEPT ![c] = @ + 1]
    /\ UNCHANGED <<evq, sq, inflight>>

GiveUp(c) ==
    /\ fut[c] = "cancelled" \/ (fut[c] = "broken" /\ retries[c] >= 1)
    /\ evq' = (evq \o ItemEvents(c)) \o <<Answer(c, "error")>>
    /\ sq' = [sq EXCEPT ![c] = <<>>]
    /\ inflight' = inflight \ {c}
    /\ fut' = [fut EXCEPT ![c] = "none"] /\ next' = [next EXCEPT ![c] = 1]
    /\ UNCHANGED <<pool, retries>>

DrainCompleted ==
    /\ step = "completed" /\ host = "up"
    /\ \/ /\ \E c \in inflight : Complete(c) \/ Recover(c) \/ GiveUp(c)
          /\ UNCHANGED step
       \/ /\ \A c \in inflight : fut[c] \in {"queued", "running"}
          /\ step' = "request"
          /\ UNCHANGED <<evq, sq, inflight, pool, fut, next, retries>>
    /\ UNCHANGED <<nodeVars, reqq, response, buffer, skip, known, client, host,
                   crashes>>

\* A timeout that answers without freeing the worker.
MutExpire(late) ==
    /\ step = "request" /\ host = "up" /\ late # {} /\ late \subseteq inflight
    /\ inflight' = inflight \ late
    /\ evq' = evq \o SetToSeq({Answer(c, "error") : c \in late})
    /\ UNCHANGED <<nodeVars, reqq, response, buffer, skip, known, retries, pool,
                   fut, next, sq, client, host, step, crashes>>

\* The calls whose time is over are answered, and the pool of the service is
\* shut down with whatever else runs on it.
Expire(late) ==
    /\ step = "request" /\ host = "up"
    /\ late # {} /\ late \subseteq inflight
    /\ inflight' = inflight \ late
    /\ evq' = evq \o SetToSeq({Answer(c, "error") : c \in late})
    /\ sq' = [c \in Calls |-> IF c \in late THEN <<>> ELSE sq[c]]
    /\ pool' = "none"
    /\ \E f \in ShutDown(fut) : fut' = [c \in Calls |-> IF c \in late THEN "none" ELSE f[c]]
    /\ next' = [c \in Calls |-> IF c \in late THEN 1 ELSE next[c]]
    /\ UNCHANGED <<nodeVars, reqq, response, buffer, skip, known, retries,
                   client, host, step, crashes>>

-----------------------------------------------------------------------------
(* Workers *)

Start(c) ==
    /\ host = "up" /\ pool = "up" /\ fut[c] = "queued"
    /\ Cardinality({d \in Calls : fut[d] = "running"}) < Workers
    /\ fut' = [fut EXCEPT ![c] = "running"]
    /\ UNCHANGED <<nodeVars, linkVars, known, pool, inflight, retries, next, sq,
                   client, host, step, crashes>>

\* The worker waits while the queue is full.
Yield(c) ==
    /\ fut[c] = "running" /\ c \in Streams
    /\ next[c] <= Items /\ Len(sq[c]) < QueueMax
    /\ sq' = [sq EXCEPT ![c] = Append(@, next[c])]
    /\ next' = [next EXCEPT ![c] = @ + 1]
    /\ UNCHANGED <<nodeVars, linkVars, known, pool, inflight, retries, fut,
                   client, host, step, crashes>>

\* _execute_payload_in_subprocess always returns a status: an import or a call
\* that lacks a dependency, any other error of the user's code, or a result.  A
\* stream has put all its items when it succeeds.
ExecutePayload(c, status) ==
    /\ fut[c] = "running" /\ status \in Finished
    /\ (c \in Streams /\ status = "SUCCEEDED") => next[c] > Items
    /\ fut' = [fut EXCEPT ![c] = status]
    /\ UNCHANGED <<nodeVars, linkVars, known, pool, inflight, retries, next, sq,
                   client, host, step, crashes>>

WorkerCrash ==
    /\ host = "up" /\ pool = "up" /\ OnPool # {} /\ crashes < MaxCrash
    /\ pool' = "broken"
    /\ fut' = [c \in Calls |-> IF c \in OnPool THEN "broken" ELSE fut[c]]
    /\ crashes' = crashes + 1
    /\ UNCHANGED <<nodeVars, linkVars, known, inflight, retries, next, sq, client,
                   host, step>>

\* The host dies with its workers; what it has written stays in the pipe.
HostCrash ==
    /\ host = "up" /\ crashes < MaxCrash
    /\ crashes' = crashes + 1
    /\ CloseHost
    /\ UNCHANGED <<nodeVars, evq, response, buffer, skip, retries, client>>

-----------------------------------------------------------------------------
NodeCall(c) ==
    \/ SendFails(c) \/ Send(c)
    \/ TakeResponse(c) \/ TakeStreamed(c) \/ ProcessDied(c)
    \/ Finish(c) \/ FinishStream(c)

HostLoop ==
    \/ \E c \in Calls : HandleCall(c)
    \/ HandleStop \/ NoRequest \/ DrainStreams \/ DrainCompleted

Next ==
    \/ \E c \in Calls :
        \/ Invoke(c) \/ InvokeStream(c) \/ NodeCall(c)
        \/ WaitTimeout(c) \/ Disconnect(c)
        \/ Start(c) \/ Yield(c) \/ \E s \in Finished : ExecutePayload(c, s)
    \/ StopService \/ StopExecutor \/ ForgetService \/ RebuildHost
    \/ Read \/ HostLoop \/ (\E late \in SUBSET Calls : Expire(late))
    \/ WorkerCrash \/ HostCrash

Spec == Init /\ [][Next]_vars

-----------------------------------------------------------------------------
(* Properties *)

\* The in-flight count of a service, which counts against the queue capacity of
\* the whole node, is the number of its open calls and of the streams whose peer
\* went away: each call is counted once and given back once on every way out but
\* that one.
InflightExact ==
    session # "forgotten" =>
        received - returned = Cardinality(Open) + Cardinality({c \in Calls : pc[c] = "gone"})

\* A stream that ends well has delivered every item, in order, after whatever an
\* earlier attempt had delivered: the drain at the end takes what the worker left.
StreamComplete ==
    \A c \in Streams :
        (pc[c] \in {"finish", "answered"} /\ outcome[c] = "SUCCEEDED") =>
            IsSuffix([i \in 1..Items |-> i], got[c])

\* A stream is delivered more than once only if its worker died under it.
NoRepeatWithoutRetry ==
    \A c \in Streams : retries[c] = 0 => IsPrefix(got[c], [i \in 1..Items |-> i])

\* The caller of a stream gets its items: all of them before the end, in their
\* order and once, unless its worker died under it (_drain_stream_meta).
StreamExact == StreamComplete /\ NoRepeatWithoutRetry

\* A worker never keeps running a call that the host has answered: a call that
\* timed out or was stopped does not occupy a worker behind its caller's back.
RunsAreTracked ==
    host = "up" => \A c \in Calls : fut[c] \in {"queued", "running"} => c \in inflight

\* A wait that is over leaves nothing in the tables of the client, however its
\* answer and its items race with the deadline, the overflow and the peer.
NoResidue ==
    \A c \in Calls :
        pc[c] \in {"answered", "gone"} /\ client = "open" /\ host = "up" =>
            response[c] = "none" /\ buffer[c] = <<>>

\* What the node and the client of its host remember of calls is what is under way.
CallsAccounted == InflightExact /\ NoResidue

====
