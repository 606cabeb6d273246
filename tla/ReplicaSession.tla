---------------------------- MODULE ReplicaSession ----------------------------
(***************************************************************************)
(* The owner's side of a deployed service or task pool (execution/base.py, *)
(* service_session.py, task_pool.py): the keepalive thread that heartbeats *)
(* one replica per node, the threads that carry the heartbeats, the        *)
(* compensation thread that deploys missing replicas, the user who closes  *)
(* the session, and the nodes, which keep a replica while it is            *)
(* heartbeated.  A replica fails on its first failed heartbeat             *)
(* (heartbeat_failure_threshold = 1, its default).                         *)
(***************************************************************************)
EXTENDS Integers, FiniteSets

CONSTANTS
    Logical,    \* node_id of each node instance, which are 1..Len
    Deployed,   \* instances the InfoCenter lists at first, all deployed to
    Desired,    \* node_count of the compensation spec
    Scenarios   \* kind of the session ("service", "task_pool") and bounds on what
                \* goes wrong: faults of heartbeats and creates, deaths of hosts,
                \* restarts of nodes as other instances, creates a node records as failed

Nodes == DOMAIN Logical
Ids == 1..(2 * Cardinality(Nodes) + 2)

ASSUME SessionAssumption ==
    /\ Nodes \subseteq Nat /\ Deployed \subseteq Nodes /\ Desired \in Nat \ {0}
    /\ \A m, n \in Deployed : Logical[m] = Logical[n] => m = n
    /\ Scenarios \subseteq [kind : {"service", "task_pool"}, faults : Nat, deaths : Nat,
                            restarts : Nat, refusals : Nat]

VARIABLES
    kind,     \* kind of the session
    offered,  \* instances the InfoCenter lists
    live,     \* replicas on the nodes, and whether compensation made them
    wedged,   \* nodes with a failed record of the compensation's create request
    rep,      \* replicas of the session: a handle per node; id 0 is none
    active,   \* _active_replica_ids
    probe,    \* _retry_probe_replica_ids
    aged,     \* those in the probe for longer than its TTL
    terminal, \* _terminal_replica_ids
    black,    \* _owner_node_blacklist
    fail,     \* failures: class of the last message of a node
    recent,   \* nodes with a disconnect in the last hour (_disconnect_last_failure_at)
    hb,       \* heartbeats in _heartbeat_pending and _heartbeat_stale_pending
    ka,       \* keepalive thread
    comp,     \* compensation thread
    sess,     \* "open", "closed"
    bounds    \* what may still go wrong

owner == <<rep, active, probe, aged, terminal, black, fail, recent>>
vars == <<kind, offered, live, wedged, owner, hb, ka, comp, sess, bounds>>

Service == kind = "service"
NoHandle == [id |-> 0, o |-> 0]
Resting == [pc |-> "wait", todo |-> {}, ids |-> {}, n |-> 0, h |-> NoHandle, ans |-> "none"]
Idle == [pc |-> "idle", act |-> {}, skip |-> {}, retry |-> {}, todo |-> {}, got |-> {}, cur |-> NoHandle,
         n |-> 0]
IdOn(n) == {r \in live : r.id = rep[n].id /\ rep[n].id # 0}
Faulty == bounds.faults > 0
Fault == bounds' = [bounds EXCEPT !.faults = @ - 1]

\* A deployment that has succeeded; the keepalive starts with it.
Init ==
    /\ \E c \in Scenarios :
         /\ kind = c.kind
         /\ bounds = [x \in {"faults", "deaths", "restarts", "refusals"} |-> c[x]]
    /\ offered = Deployed /\ wedged = {}
    /\ rep = [n \in Nodes |-> IF n \in Deployed THEN [id |-> n, o |-> 0] ELSE NoHandle]
    /\ live = {[id |-> n, node |-> n, comp |-> FALSE] : n \in Deployed}
    /\ active = Deployed
    /\ probe = {} /\ aged = {} /\ terminal = {} /\ black = {} /\ recent = {}
    /\ fail = [n \in Nodes |-> "none"]
    /\ hb = {} /\ ka = Resting /\ comp = Idle /\ sess = "open"

-----------------------------------------------------------------------------
(* Recovery state of the replicas *)

\* Taking replicas out of the session; failures and terminal marks stay.
Removed(S) == [n \in Nodes |-> IF n \in S THEN NoHandle ELSE rep[n]]

\* A replica is put in the probe; entering again starts its TTL anew.
EnterProbe(n) == probe' = probe \union {n} /\ aged' = aged \ {n}
LeaveProbe(S) == probe' = probe \ S /\ aged' = aged \ S

CanAccept(n, h) == rep[n] = h /\ h # NoHandle /\ n \in active \union probe
CompActive == {n \in active : rep[n] # NoHandle /\ n \notin terminal}

Known(n) == rep[n] # NoHandle \/ fail[n] # "none"
Failed == {n \in Nodes : Known(n) /\ (n \in terminal \/ n \notin active)}
Retryable == {n \in Failed : \/ n \notin terminal /\ fail[n] # "perm"
                             \/ ~Service /\ fail[n] = "retry"}

\* What the answer of a heartbeat does to a node, when the replica is still the
\* current one as the effect takes place, and when it has been replaced since.
MarkOk(n) ==
    IF n \in black \/ n \in terminal THEN UNCHANGED owner
    ELSE /\ active' = active \union {n} /\ LeaveProbe({n})
         /\ fail' = [fail EXCEPT ![n] = "none"]
         /\ UNCHANGED <<rep, terminal, black, recent>>

MarkLost(n) ==
    /\ fail' = [fail EXCEPT ![n] = "perm"]
    /\ active' = active \ {n} /\ LeaveProbe({n}) /\ terminal' = terminal \union {n}
    /\ UNCHANGED <<rep, recent>>

\* A second disconnect bars the node, if it comes within the hour.
Bars(n) == MarkLost(n) /\ black' = black \union {n}
MarkTransient(n, current) ==
    \/ current /\ n \in recent /\ Bars(n)
    \/ /\ EnterProbe(n)
       /\ IF current THEN /\ recent' = recent \union {n} /\ active' = active \ {n}
                          /\ fail' = [fail EXCEPT ![n] = "retry"]
          ELSE UNCHANGED <<recent, active, fail>>
       /\ UNCHANGED <<rep, terminal, black>>

MarkUnknown(n, current) ==
    /\ IF current THEN active' = active \ {n} /\ fail' = [fail EXCEPT ![n] = "perm"]
       ELSE UNCHANGED <<active, fail>>
    /\ UNCHANGED <<rep, probe, aged, terminal, black, recent>>

\* A service also removes whatever replica the node has by then.
MarkTerminal(n, current, ans) ==
    /\ terminal' = terminal \union {n}
    /\ active' = IF current \/ Service THEN active \ {n} ELSE active
    /\ fail' = [fail EXCEPT ![n] = IF Service /\ ans = "terminal" THEN "none"
                                   ELSE IF current THEN "retry" ELSE @]
    /\ IF Service THEN rep' = Removed({n}) /\ LeaveProbe({n}) ELSE UNCHANGED <<rep, probe, aged>>
    /\ UNCHANGED <<black, recent>>

-----------------------------------------------------------------------------
(* Heartbeats, each a thread of its own *)

\* What a replica that runs may answer, and one that does not.
Pending == {t \in hb : t.at # "stale"}
Moved(t, at) == (hb \ {t}) \union {[t EXCEPT !.at = at]}
Runs(h) == \E r \in live : r.id = h.id
Bad == {"transient", "unknown", "zero", "broken"}
Answers(t) == IF Runs(t.h) THEN {"ok"} \union (IF Faulty THEN Bad ELSE {})
              ELSE IF t.node \in offered THEN {"terminal"} ELSE {"fenced", "transient"}
Costs(t, ans) == IF Runs(t.h) /\ ans \in Bad THEN Fault ELSE UNCHANGED bounds

\* A thread whose heartbeat is stale ends, and nobody looks at its answer.
StaleEnds(t) ==
    /\ t.at = "stale" /\ hb' = hb \ {t}
    /\ UNCHANGED <<kind, offered, live, wedged, owner, ka, comp, sess, bounds>>

-----------------------------------------------------------------------------
(* The keepalive thread *)

\* A tick starts: what to heartbeat and the pending heartbeats to look at.
Beats == (IF Service THEN active \union {n \in Nodes : rep[n] # NoHandle} ELSE active \union probe)
         \ terminal

MutStopped == FALSE
Stopped == sess # "open"
TickBegins ==
    /\ ka.pc = "wait" /\ ~Stopped
    /\ ka' = [Resting EXCEPT !.pc = "scan", !.ids = Beats, !.todo = {t.node : t \in Pending}]
    /\ UNCHANGED <<kind, offered, live, wedged, owner, hb, comp, sess, bounds>>

KeepaliveEnds ==
    /\ ka.pc = "wait" /\ Stopped
    /\ ka' = [Resting EXCEPT !.pc = "ended"]
    /\ hb' = {[t EXCEPT !.at = "stale"] : t \in hb}
    /\ UNCHANGED <<kind, offered, live, wedged, owner, comp, sess, bounds>>

\* One pending heartbeat: of a replaced replica, answered, or out of time; it may
\* be found running once.
Looked(t) == [ka EXCEPT !.todo = @ \ {t.node}]
Marking(t, ans) == IF CanAccept(t.node, t.h)
                   THEN [Looked(t) EXCEPT !.pc = "mark", !.n = t.node, !.h = t.h, !.ans = ans]
                   ELSE Looked(t)

Scan(t) ==
    /\ ka.pc = "scan" /\ t \in Pending /\ t.node \in ka.todo
    /\ \/ /\ rep[t.node] # t.h
          /\ hb' \in {hb \ {t}, Moved(t, "stale")}
          /\ ka' = Looked(t) /\ UNCHANGED bounds
       \/ /\ rep[t.node] = t.h
          /\ \E ans \in Answers(t) : ka' = Marking(t, ans) /\ Costs(t, ans)
          /\ hb' = hb \ {t}
       \/ /\ rep[t.node] = t.h /\ t.at = "pending"
          /\ hb' = Moved(t, "running") /\ ka' = Looked(t) /\ UNCHANGED bounds
       \/ /\ rep[t.node] = t.h /\ t.at = "running" /\ Faulty /\ Fault
          /\ hb' = Moved(t, "stale") /\ ka' = Marking(t, "transient")
    /\ UNCHANGED <<kind, offered, live, wedged, owner, comp, sess>>

\* The effect of the answer, in a step after the check that the replica is current.
MarkAnswer ==
    /\ ka.pc = "mark"
    /\ LET n == ka.n  current == rep[n] = ka.h
       IN  CASE ka.ans = "ok" -> MarkOk(n)
             [] ka.ans = "transient" -> MarkTransient(n, current)
             [] ka.ans = "unknown" -> MarkUnknown(n, current)
             [] ka.ans = "zero" -> MarkLost(n) /\ UNCHANGED black
             [] ka.ans = "broken" -> Bars(n)
             [] OTHER -> MarkTerminal(n, current, ka.ans)
    /\ ka' = [ka EXCEPT !.pc = "scan", !.n = 0, !.h = NoHandle, !.ans = "none"]
    /\ UNCHANGED <<kind, offered, live, wedged, hb, comp, sess, bounds>>

\* At the end a node gets a heartbeat unless one is pending or stale.  A service
\* whose replicas suffice may learn from the InfoCenter that some have stopped; a
\* session short of replicas submits an attempt.
MutBusy == {t.node : t \in Pending}
Busy == {t.node : t \in hb}
Free == ka.ids \ Busy
Beaten == /\ ka.pc = "scan" /\ ka.todo = {} /\ ka' = Resting
          /\ hb' = hb \union {[node |-> n, h |-> rep[n], at |-> "pending"] :
                              n \in {m \in Free : rep[m] # NoHandle}}
Lacking == {n \in Free : rep[n] = NoHandle}
Short == Cardinality(CompActive \ Lacking) < Desired

\* Only one attempt is queued or runs; the time between two is time in the queue.
Attempts == Short /\ ~Stopped /\ comp.pc = "idle"

TickEnds ==
    /\ Beaten
    /\ comp' = IF Attempts THEN [Idle EXCEPT !.pc = "queued"] ELSE comp
    /\ \E gone \in {{}} \union (IF Short \/ ~Service THEN {}
                                ELSE {{n \in active : rep[n] # NoHandle /\ IdOn(n) = {}}}) :
         /\ rep' = Removed(gone) /\ active' = active \ (Lacking \union gone) /\ LeaveProbe(gone)
    /\ UNCHANGED <<kind, offered, live, wedged, terminal, black, fail, recent, sess, bounds>>

-----------------------------------------------------------------------------
(* The compensation thread *)

\* try_compensate_replicas reads the state of the replicas...
CompStart ==
    /\ comp.pc = "queued"
    /\ comp' = IF Stopped \/ Cardinality(active) >= Desired THEN Idle
               ELSE [Idle EXCEPT !.pc = "list", !.act = active, !.skip = Failed \ Retryable,
                                 !.retry = Retryable]
    /\ UNCHANGED <<kind, offered, live, wedged, owner, hb, ka, sess, bounds>>

CompFails ==
    /\ comp.pc = "list" /\ Faulty /\ Fault /\ comp' = Idle
    /\ UNCHANGED <<kind, offered, live, wedged, owner, hb, ka, sess>>

\* ...asks the InfoCenter for nodes, drops the replicas of instances that have been
\* replaced, forgets the probes that are too old or not listed, and puts the
\* attempt off when probes cover every candidate and some replica is active.
Stale(act) == {n \in Nodes \ (offered \union act) :
                 rep[n] # NoHandle /\ \E m \in offered : Logical[m] = Logical[n]}
Candidates(act, skip) ==
    {n \in offered \ (act \union skip \union black) : \A m \in act : Logical[m] # Logical[n]}
MutExpired == {}
Expired == aged
Deferred(cands, probes, act) ==
    /\ cands \ probes = {} /\ cands \intersect probes # {} /\ act # {}

CompList ==
    /\ comp.pc = "list"
    /\ LET gone == Stale(comp.act)
           cands == Candidates(comp.act, comp.skip)
           kept == (probe \ (gone \union Expired)) \intersect offered
           n == IF Cardinality(cands) < Desired - Cardinality(comp.act) THEN Cardinality(cands)
                ELSE Desired - Cardinality(comp.act)
       IN  /\ rep' = Removed(gone) /\ active' = active \ gone
           /\ probe' = kept /\ aged' = aged \intersect kept
           /\ IF Deferred(cands, kept, comp.act) \/ cands = {} THEN comp' = Idle
              ELSE \E S \in SUBSET cands :
                     /\ Cardinality(S) = n
                     /\ comp' = [comp EXCEPT !.pc = "create", !.todo = S]
    /\ UNCHANGED <<kind, offered, live, wedged, terminal, black, fail, recent, hb, ka, sess, bounds>>

\* A create on a node: the request has the same identifier each time, so a node
\* that still runs what it made for it gives that out again, and one that recorded
\* a failure repeats it.  A service asks all nodes at once.
Made(n) == {r \in live : r.node = n /\ r.comp}
Used == {r.id : r \in live} \union {rep[n].id : n \in Nodes} \union {t.h.id : t \in hb}
        \union {g.id : g \in comp.got} \union {comp.cur.id, ka.h.id}
NewId == CHOOSE i \in Ids \ Used : \A j \in Ids \ Used : i <= j

Creating(n) == comp.pc = "create" /\ n \in comp.todo /\ (Service \/ comp.got = {})
CreateOk(n) ==
    /\ Creating(n) /\ n \in offered \ wedged
    /\ LET id == IF Made(n) # {} THEN (CHOOSE r \in Made(n) : TRUE).id ELSE NewId
       IN  /\ live' = IF Made(n) # {} THEN live ELSE live \union {[id |-> id, node |-> n, comp |-> TRUE]}
           /\ comp' = [comp EXCEPT !.todo = @ \ {n}, !.got = @ \union {[id |-> id, node |-> n]}]
    /\ UNCHANGED <<kind, offered, wedged, owner, hb, ka, sess, bounds>>

\* An error: the instance is not there, its answer is lost, it repeats or records a
\* failure, or it refuses the code for good, which bars it.
CreateFails(n) ==
    /\ Creating(n)
    /\ comp' = [comp EXCEPT !.todo = @ \ {n}]
    /\ \/ /\ n \in wedged \/ n \notin offered
          /\ fail' = [fail EXCEPT ![n] = "retry"] /\ UNCHANGED <<live, wedged, black, bounds>>
       \/ /\ n \in offered \ wedged /\ Faulty /\ Fault
          /\ fail' = [fail EXCEPT ![n] = "retry"]
          /\ live' \in {live} \union (IF Made(n) # {} THEN {}
                                      ELSE {live \union {[id |-> NewId, node |-> n, comp |-> TRUE]}})
          /\ UNCHANGED <<wedged, black>>
       \/ /\ n \in offered \ wedged /\ Made(n) = {} /\ bounds.refusals > 0
          /\ bounds' = [bounds EXCEPT !.refusals = @ - 1]
          /\ wedged' = wedged \union {n}
          /\ fail' = [fail EXCEPT ![n] = "retry"] /\ UNCHANGED <<live, black>>
       \/ /\ n \in offered \ wedged /\ Made(n) = {} /\ Faulty /\ Fault
          /\ black' = black \union {n}
          /\ fail' = [fail EXCEPT ![n] = "perm"] /\ UNCHANGED <<live, wedged>>
    /\ UNCHANGED <<kind, offered, rep, active, probe, aged, terminal, recent, hb, ka, sess>>

\* A task pool closes what it drops, a call that may fail; a service leaves it to
\* its lease.
Dropped(S) == IF Service THEN {live} ELSE {live, {r \in live : r.id \notin S}}

\* What was made is too many, or the node has a replica already, or it takes the
\* place of a failed one, which a task pool closes first.
Take(g) ==
    /\ comp.pc = "create" /\ g \in comp.got
    /\ LET n == g.node
           surplus == \/ Cardinality(active) >= Desired
                      \/ ~Service /\ rep[n] # NoHandle /\ (n \in comp.act \/ n \notin comp.retry)
       IN  IF surplus
           THEN /\ live' \in Dropped({g.id})
                /\ comp' = [comp EXCEPT !.got = @ \ {g}] /\ UNCHANGED rep
           ELSE /\ live' \in (IF rep[n] = NoHandle THEN {live} ELSE Dropped({rep[n].id}))
                /\ rep' = IF Service THEN rep ELSE Removed({n})
                /\ comp' = [comp EXCEPT !.pc = "beat", !.got = @ \ {g}, !.n = n,
                            !.cur = [id |-> g.id, o |-> IF rep[n].id = g.id THEN 1 - rep[n].o ELSE 0]]
    /\ UNCHANGED <<kind, offered, wedged, active, probe, aged, terminal, black, fail, recent, hb, ka, sess, bounds>>

\* A first heartbeat; if it is answered the replica is the node's, and active
\* unless the node is barred.
Back == [comp EXCEPT !.pc = "create", !.cur = NoHandle, !.n = 0]
Insert ==
    /\ comp.pc = "beat" /\ Runs(comp.cur)
    /\ comp' = Back
    /\ IF Service /\ Cardinality(active) >= Desired THEN UNCHANGED owner
       ELSE /\ rep' = [rep EXCEPT ![comp.n] = comp.cur]
            /\ fail' = [fail EXCEPT ![comp.n] = "none"]
            /\ IF comp.n \in black THEN UNCHANGED <<active, probe, aged, terminal>>
               ELSE /\ active' = active \union {comp.n} /\ terminal' = terminal \ {comp.n}
                    /\ LeaveProbe({comp.n})
            /\ UNCHANGED <<black, recent>>
    /\ UNCHANGED <<kind, offered, live, wedged, hb, ka, sess, bounds>>

NoInsert ==
    /\ comp.pc = "beat" /\ comp' = Back
    /\ IF Runs(comp.cur) THEN Faulty /\ Fault ELSE UNCHANGED bounds
    /\ live' \in Dropped({comp.cur.id})
    /\ UNCHANGED <<kind, offered, wedged, owner, hb, ka, sess>>

CompDone ==
    /\ comp.pc = "create" /\ comp.todo = {} /\ comp.got = {} /\ comp' = Idle
    /\ UNCHANGED <<kind, offered, live, wedged, owner, hb, ka, sess, bounds>>

-----------------------------------------------------------------------------
(* The user, time, and the nodes *)

\* The keepalive ends with its tick, joined or not within two seconds; an attempt
\* of compensation is cancelled unless it runs already; the replicas are closed, or,
\* as those of a service may be, left to their leases.
Close ==
    /\ sess = "open" /\ sess' = "closed"
    /\ comp' = IF comp.pc = "queued" THEN Idle ELSE comp
    /\ live' \in {live, live \ UNION {IdOn(n) : n \in Nodes}}
    /\ UNCHANGED <<kind, offered, wedged, owner, hb, ka, bounds>>

ProbeAges(n) ==
    /\ n \in probe \ aged /\ aged' = aged \union {n}
    /\ UNCHANGED <<kind, offered, live, wedged, rep, active, probe, terminal, black, fail, recent, hb, ka,
                   comp, sess, bounds>>

\* A replica nobody heartbeats is stopped by its node when its lease is over.
Tended(r) == \/ \E n \in Nodes : r \in IdOn(n) /\ ka.pc # "ended" /\ n \in Beats
             \/ r.id \in {g.id : g \in comp.got} \union {comp.cur.id}
Lapse(r) ==
    /\ r \in live /\ ~Tended(r) /\ live' = live \ {r}
    /\ UNCHANGED <<kind, offered, wedged, owner, hb, ka, comp, sess, bounds>>

HostDies(r) ==
    /\ r \in live /\ live' = live \ {r}
    /\ bounds.deaths > 0 /\ bounds' = [bounds EXCEPT !.deaths = @ - 1]
    /\ UNCHANGED <<kind, offered, wedged, owner, hb, ka, comp, sess>>

\* A node restarts as another instance; nothing of the old one is left.
Restart(m, n) ==
    /\ m \in offered /\ n \in Nodes \ offered /\ Logical[m] = Logical[n]
    /\ bounds.restarts > 0 /\ bounds' = [bounds EXCEPT !.restarts = @ - 1]
    /\ offered' = (offered \ {m}) \union {n}
    /\ live' = {r \in live : r.node # m}
    /\ UNCHANGED <<kind, wedged, owner, hb, ka, comp, sess>>

-----------------------------------------------------------------------------
Keepalive == TickBegins \/ KeepaliveEnds \/ (\E t \in hb : Scan(t)) \/ MarkAnswer \/ TickEnds
Create == \E n \in Nodes : CreateOk(n) \/ CreateFails(n)
Settle == (\E g \in comp.got : Take(g)) \/ Insert \/ NoInsert
Compensation == CompStart \/ CompFails \/ CompList \/ Create \/ Settle \/ CompDone
Elsewhere == \/ Close
             \/ \E n \in Nodes : ProbeAges(n)
             \/ \E r \in live : Lapse(r) \/ HostDies(r)
             \/ \E m, n \in Nodes : Restart(m, n)
Next == Keepalive \/ (\E t \in hb : StaleEnds(t)) \/ Compensation \/ Elsewhere

\* Threads run; an RPC ends, by its timeout at the latest; time passes.
Time == (\E n \in Nodes : ProbeAges(n)) \/ (\E r \in live : Lapse(r))
Fairness ==
    /\ WF_vars(Keepalive) /\ WF_vars(\E t \in hb : StaleEnds(t)) /\ WF_vars(Compensation)
    /\ WF_vars(Time)

Spec == Init /\ [][Next]_vars /\ Fairness

-----------------------------------------------------------------------------
(* Properties *)

\* A heartbeat that hangs is not piled upon: a node has at most one thread of the
\* session, whatever times out, is replaced or redeployed (_run_heartbeat_tick).
OneHeartbeat == \A t, u \in hb : t.node = u.node => t = u

\* However often creates fail, are repeated or lose their answer, a node runs at
\* most one replica made by compensation (create_request_ids of the spec).
NoPileUp == \A r, s \in live : r.comp /\ s.comp /\ r.node = s.node => r = s

\* What is tried again does not add to what still hangs, or has worked after all.
NothingPilesUp == OneHeartbeat /\ NoPileUp

\* A session short of replicas does not leave a node aside for ever that it could
\* deploy to: probes, failures and attempts that are put off all come to an end.
\* (A node that recorded the create as failed repeats this for ever.)
Deployable == Candidates(active, Failed \ Retryable) \ wedged
ShortageEnds == []<>(sess # "open" \/ Cardinality(active) >= Desired \/ Deployable = {})

\* After the owner has closed, nothing of the session stays on the nodes for ever,
\* not even what an attempt of compensation still made then.
Reclaimed == [](sess = "closed" => <>(live = {}))

\* A replica known to be lost does not count as one of those desired: a node whose
\* replica is active is not marked terminal by an answer of an earlier replica.
LostNotCounted == sess = "open" => \A n \in active \intersect terminal : rep[n] = NoHandle
=============================================================================
