-------------------------------- MODULE Deploy --------------------------------
(***************************************************************************)
(* Deploying a service and opening a task pool (execution/service_session, *)
(* execution/task_pool, deployment_create_helper): clients look nodes and  *)
(* routes up at the InfoCenter, judge the replicas that already carry the  *)
(* name, take the lock of the session cache file, adopt, replace or create *)
(* replicas, try other nodes, roll back, and later close the session.      *)
(* What keepalive and compensation do to the cache and the replicas of a   *)
(* session is here in one step each; ReplicaSession has them in full.      *)
(***************************************************************************)
EXTENDS Integers, FiniteSets

CONSTANTS
    Nodes,      \* node instances
    Clients,    \* deploy or open calls, and the sessions they return
    Scenarios,  \* what each client asks, what is deployed already, what goes wrong
    Inodes,     \* bound: files the cache path names one after the other
    Ids         \* bound: replicas of a client on a node that something still names

None == [code |-> "none", on |-> {}]   \* no file, an empty or an unreadable one

VARIABLES
    plan,    \* [Clients -> request]
    live,    \* replicas that run on the nodes
    up,      \* nodes that answer
    listed,  \* nodes the InfoCenter offers
    view,    \* those the InfoCenter lists
    path,    \* inode the path of the owner's cache file names; 0: no file
    data,    \* [owner -> [Inodes -> contents]]
    st,      \* [Clients -> state of the call and of its session]
    left     \* faults of calls, deaths of replicas and of clients still to come

vars == <<plan, live, up, listed, view, path, data, st, left>>
replicas == <<live, view>>
cluster == <<replicas, up, listed>>

Owners == {"o1", "o2"}
Codes == {"c1", "c2"}

ASSUME DeployAssumption ==
    /\ Inodes \subseteq Nat \ {0} /\ IsFiniteSet(Nodes) /\ Ids \subseteq Nat /\ 0 \notin Clients
    /\ \A s \in Scenarios : s.prior \subseteq Nodes /\ (s.prior # {} => 1 \in Inodes)
    /\ \A s \in Scenarios :
         \A c \in Clients : /\ s.plan[c].owner \in Owners /\ s.plan[c].code \in Codes
                            /\ 0 < s.plan[c].required /\ s.plan[c].required <= s.plan[c].desired

Mine(c) == plan[c].owner
Service(c) == plan[c].kind = "service"
Fresh == [pc |-> "idle", round |-> 0, cand |-> {}, todo |-> {}, infos |-> {}, lost |-> {}, cache |-> None,
          ino |-> 0, sel |-> {}, tried |-> {}, got |-> {}, ses |-> {}, fail |-> [n \in Nodes |-> "none"],
          flag |-> FALSE, hurt |-> FALSE, out |-> "none"]

\* A deployment of o1 may be there from before: its handle was closed, its
\* replicas run until their leases end, and its cache file names them.
Init ==
    \E s \in Scenarios :
      LET old == {[id |-> 1, node |-> n, by |-> 0, owner |-> "o1", code |-> "c1", kind |-> "service"] :
                    n \in s.prior}
      IN /\ plan = s.plan /\ left = s.left
         /\ live = old /\ view = old
         /\ up = Nodes /\ listed = Nodes
         /\ path = [o \in Owners |-> IF o = "o1" /\ s.prior # {} THEN 1 ELSE 0]
         /\ data = [o \in Owners |-> [i \in Inodes |->
                     IF o = "o1" /\ s.prior # {} /\ i = 1 THEN [code |-> "c1", on |-> old] ELSE None]]
         /\ st = [c \in Clients |-> Fresh]

At(c, pc) == st[c].pc = pc
\* A call that is over keeps only what it had, a session what it was decided on.
Over == {"failed", "closed", "dead"}
Kept(s) == IF s.pc \in Over THEN [Fresh EXCEPT !.pc = s.pc, !.ses = s.ses, !.hurt = s.hurt, !.flag = s.flag,
                                               !.ino = IF s.pc = "dead" THEN 0 ELSE s.ino]
           ELSE IF s.pc = "open" THEN [s EXCEPT !.cand = {}, !.tried = {}, !.fail = Fresh.fail]
           ELSE s
Set(c, new) == st' = [st EXCEPT ![c] = Kept(new)]
Fault == left.faults > 0
Spend == left' = [left EXCEPT !.faults = @ - 1]
On(S, n) == {r \in S : r.node = n}
Stopped(S) == live' = live \ S /\ view' = view \ S
Failing(c, n, why) == [st[c].fail EXCEPT ![n] = why]

-----------------------------------------------------------------------------
(* Discovery and the replicas that carry the name *)

\* Nodes and, for a service, the routes of the name; too few nodes is tried again.
Discover(c) ==
    /\ st[c].pc \in {"idle", "find"}
    /\ listed # {} /\ (Service(c) => Cardinality(listed) >= plan[c].required)
    /\ \E S \in SUBSET listed :
         /\ Cardinality(S) = IF plan[c].desired < Cardinality(listed) THEN plan[c].desired
                             ELSE Cardinality(listed)
         /\ LET routes == {r \in view : Service(c) /\ r.node \in listed}
            IN Set(c, [st[c] EXCEPT !.pc = IF ~Service(c) THEN "create"
                                           ELSE IF routes = {} THEN "lock" ELSE "inspect",
                                    !.cand = listed, !.sel = S, !.tried = S, !.todo = routes,
                                    !.infos = {}, !.lost = {}])
    /\ UNCHANGED <<plan, cluster, path, data, left>>

\* One status call per route; a node that cannot be reached is tried till the deadline.
Inspect(c, r) ==
    /\ At(c, "inspect") /\ r \in st[c].todo
    /\ \/ /\ r.node \in up
          /\ Set(c, [st[c] EXCEPT !.todo = @ \ {r}, !.infos = IF r \in live THEN @ \union {r} ELSE @])
          /\ UNCHANGED left
       \/ /\ r.node \notin up \/ Fault
          /\ Set(c, [st[c] EXCEPT !.todo = @ \ {r}, !.lost = @ \union {r.node}])
          /\ IF r.node \in up THEN Spend ELSE UNCHANGED left
       \/ Fault /\ Spend /\ Set(c, [st[c] EXCEPT !.pc = "failed"])
    /\ UNCHANGED <<plan, cluster, path, data>>

\* Lost routes are taken off the InfoCenter and discovery starts again, three times at most.
StaleRoutes(c) ==
    /\ At(c, "inspect") /\ st[c].todo = {} /\ st[c].lost # {}
    /\ listed' = listed \ st[c].lost
    /\ Set(c, [st[c] EXCEPT !.round = @ + 1, !.pc = IF st[c].round = 2 THEN "failed" ELSE "find"])
    /\ UNCHANGED <<plan, live, up, view, path, data, left>>

Contents(o) == IF path[o] = 0 THEN None ELSE data[o][path[o]]

\* Who owns the name and which code runs under it decides; the cache is read before the lock.
Judge(c) ==
    /\ At(c, "inspect") /\ st[c].todo = {} /\ st[c].lost = {}
    /\ LET infos == st[c].infos
           cache == Contents(Mine(c))
           same == \A r, q \in infos : r.owner = Mine(c) /\ r.code = q.code
           ours == \A r \in infos : r.code = plan[c].code
       IN Set(c, [st[c] EXCEPT
            !.cache = cache,
            !.pc = CASE infos = {} -> "lock"
                     [] infos # {} /\ (~same \/ ~plan[c].takeover) -> "failed"
                     [] infos # {} /\ same /\ plan[c].takeover /\ ours ->
                          IF cache.code = plan[c].code THEN "reuselock" ELSE "lock"
                     [] infos # {} /\ same /\ plan[c].takeover /\ ~ours ->
                          IF cache = None THEN "lock" ELSE "replacelock"])
    /\ UNCHANGED <<plan, cluster, path, data, left>>

\* The InfoCenter is silent or offers too few nodes till the deadline.
NoNodes(c) ==
    /\ st[c].pc \in {"idle", "find"} /\ Set(c, [st[c] EXCEPT !.pc = "failed"])
    /\ UNCHANGED <<plan, cluster, path, data, left>>

-----------------------------------------------------------------------------
(* The session cache file and its lock *)

\* A set of the process keeps its own sessions apart, flock keeps processes apart.
Holders(o, i) == {d \in Clients : st[d].ino = i /\ Mine(d) = o}
MutBarred(c) == FALSE
Barred(c) == \E d \in Clients : Mine(d) = Mine(c) /\ st[d].ino # 0 /\ plan[d].proc = plan[c].proc
NewInode(o) == {i \in Inodes : i # path[o] /\ Holders(o, i) = {}}
Waiting == {"lock", "reuselock", "replacelock"}

Acquire(c) ==
    /\ st[c].pc \in Waiting /\ ~Barred(c)
    /\ \E i \in IF path[Mine(c)] # 0 THEN {path[Mine(c)]} ELSE NewInode(Mine(c)) :
         /\ Holders(Mine(c), i) = {}
         /\ path' = [path EXCEPT ![Mine(c)] = i]
         /\ data' = IF path[Mine(c)] = i THEN data ELSE [data EXCEPT ![Mine(c)][i] = None]
         /\ Set(c, [st[c] EXCEPT !.ino = i, !.todo = IF At(c, "lock") THEN {} ELSE st[c].infos,
                                 !.pc = CASE At(c, "lock") -> "create"
                                          [] At(c, "reuselock") -> "reuse"
                                          [] At(c, "replacelock") -> "end"])
    /\ UNCHANGED <<plan, cluster, left>>

LockTimeout(c) ==
    /\ st[c].pc \in Waiting
    /\ Barred(c) \/ (path[Mine(c)] # 0 /\ Holders(Mine(c), path[Mine(c)]) # {})
    /\ Set(c, [st[c] EXCEPT !.pc = "failed"])
    /\ UNCHANGED <<plan, cluster, path, data, left>>

\* What is written goes to the open file, whether or not the path still names it.
Written(c, d) == IF st[c].ino = 0 THEN data ELSE [data EXCEPT ![Mine(c)][st[c].ino] = d]
Persisted(c, S) == Written(c, IF S = {} THEN None ELSE [code |-> plan[c].code, on |-> S])
Unlinked(c) == path' = [path EXCEPT ![Mine(c)] = 0] /\ UNCHANGED data

-----------------------------------------------------------------------------
(* Same code: adopt what the cache has tokens for *)

Cached(c, r) == r \in st[c].cache.on /\ r.node \in st[c].cand

Reuse(c, r) ==
    /\ At(c, "reuse") /\ r \in st[c].todo
    /\ \/ /\ Cached(c, r) /\ r \in live /\ r.node \in up
          /\ Set(c, [st[c] EXCEPT !.todo = @ \ {r}, !.ses = @ \union {r}])
          /\ UNCHANGED left
       \/ /\ Cached(c, r) /\ r \notin live
          /\ \E w \in {"stopped", "terminal"} :
               Set(c, [st[c] EXCEPT !.todo = @ \ {r}, !.fail = Failing(c, r.node, w)])
          /\ UNCHANGED left
       \/ /\ ~Cached(c, r) \/ r.node \notin up \/ Fault
          /\ Set(c, [st[c] EXCEPT !.todo = @ \ {r}, !.fail = Failing(c, r.node, "unknown")])
          /\ IF Cached(c, r) /\ r.node \in up THEN Spend ELSE UNCHANGED left
    /\ UNCHANGED <<plan, cluster, path, data>>

\* With nothing adopted the lock is let go; a stopped replica means to start afresh.
Reused(c) ==
    /\ At(c, "reuse") /\ st[c].todo = {}
    /\ IF st[c].ses # {}
       THEN data' = Persisted(c, st[c].ses) /\ Set(c, [st[c] EXCEPT !.pc = "open"])
       ELSE /\ UNCHANGED data
            /\ Set(c, [st[c] EXCEPT !.ino = 0,
                        !.pc = IF \E n \in Nodes : st[c].fail[n] = "stopped" THEN "unlink" ELSE "failed"])
    /\ UNCHANGED <<plan, cluster, path, left>>

Unlink(c) ==
    /\ At(c, "unlink") /\ Unlinked(c)
    /\ Set(c, [st[c] EXCEPT !.pc = "lock", !.infos = {}, !.fail = Fresh.fail])
    /\ UNCHANGED <<plan, cluster, left>>

-----------------------------------------------------------------------------
(* Other code: end what runs, all of it or not at all *)

\* An end call that fails may have worked.
EndCall(r, ok) ==
    \/ ok /\ r.node \in up /\ Stopped({r}) /\ UNCHANGED left
    \/ ~ok /\ Fault /\ Spend /\ (Stopped({r}) \/ UNCHANGED replicas)
    \/ ~ok /\ (r.node \notin up \/ r \notin live) /\ UNCHANGED <<replicas, left>>

End(c, r) ==
    /\ At(c, "end") /\ r \in st[c].todo
    /\ \E ok \in BOOLEAN :
         /\ IF r \in st[c].cache.on THEN EndCall(r, ok) ELSE ~ok /\ UNCHANGED <<replicas, left>>
         /\ Set(c, [st[c] EXCEPT !.todo = @ \ {r}, !.hurt = @ \/ ~ok,
                                 !.fail = IF ok THEN @ ELSE Failing(c, r.node, "unknown")])
    /\ UNCHANGED <<plan, up, listed, path, data>>

Ended(c) ==
    /\ At(c, "end") /\ st[c].todo = {}
    /\ IF st[c].fail = Fresh.fail
       THEN data' = Written(c, None) /\ Set(c, [st[c] EXCEPT !.pc = "create"])
       ELSE UNCHANGED data /\ Set(c, [st[c] EXCEPT !.pc = "failed", !.ino = 0])
    /\ UNCHANGED <<plan, cluster, path, left>>

-----------------------------------------------------------------------------
(* Creating replicas *)

\* A service name runs once on a node; a repeated create of one call finds its own pool.
Taken(c, n) == Service(c) /\ \E r \in On(live, n) : r.kind = "service"
Own(c, n) == {r \in On(live, n) : r.by = c /\ ~Service(c)}
Held(d) == st[d].infos \union st[d].todo \union st[d].got \union st[d].ses \union st[d].cache.on
Named == live \union (UNION {data[o][i].on : o \in Owners, i \in Inodes}) \union (UNION {Held(d) : d \in Clients})
Replica(c, n) == LET new(i) == [id |-> i, node |-> n, by |-> c, owner |-> Mine(c), code |-> plan[c].code,
                                kind |-> plan[c].kind]
                 IN {new(i) : i \in {j \in Ids : new(j) \notin Named /\ \A k \in Ids : k < j => new(k) \in Named}}

Creates(c, n, r) ==
    IF Own(c, n) # {} THEN r \in Own(c, n) /\ UNCHANGED replicas
    ELSE ~Taken(c, n) /\ live' = live \union {r} /\ UNCHANGED view

\* Selected nodes are asked at once, each answer is taken as it comes.
Create(c, n) ==
    /\ At(c, "create") /\ n \in st[c].sel
    /\ \/ /\ n \in up
          /\ \E r \in Replica(c, n) \union Own(c, n) :
               /\ Creates(c, n, r)
               /\ \/ /\ UNCHANGED left
                     /\ Set(c, [st[c] EXCEPT !.sel = @ \ {n}, !.fail = Failing(c, n, "none"),
                                  !.got = IF Service(c) THEN @ \union {r} ELSE @,
                                  !.ses = IF Service(c) THEN @ ELSE @ \union {r}])
                  \/ /\ Fault /\ Spend
                     /\ Set(c, [st[c] EXCEPT !.sel = @ \ {n}, !.fail = Failing(c, n, "transient"), !.hurt = TRUE])
          /\ UNCHANGED listed
       \/ /\ n \in up /\ Taken(c, n)
          /\ Set(c, [st[c] EXCEPT !.sel = @ \ {n}, !.fail = Failing(c, n, "unknown")])
          /\ UNCHANGED <<replicas, left, listed>>
       \/ /\ n \notin up \/ Fault
          /\ \E w \in IF n \in up THEN {"transient", "perm", "identity"} ELSE {"transient"} :
               /\ Set(c, [st[c] EXCEPT !.sel = @ \ {n}, !.fail = Failing(c, n, w)])
               /\ listed' = IF w = "identity" THEN listed \ {n} ELSE listed
          /\ IF n \in up THEN Spend ELSE UNCHANGED left
          /\ UNCHANGED replicas
    /\ UNCHANGED <<plan, up, path, data>>

\* A created service is heartbeated before it counts; if that fails it is ended.
Attach(c, r) ==
    /\ r \in st[c].got
    /\ \/ /\ r \in live /\ r.node \in up
          /\ Set(c, [st[c] EXCEPT !.got = @ \ {r}, !.ses = @ \union {r}, !.fail = Failing(c, r.node, "none")])
          /\ UNCHANGED <<replicas, left>>
       \/ /\ r \notin live \/ r.node \notin up
          /\ Set(c, [st[c] EXCEPT !.got = @ \ {r},
                                  !.fail = Failing(c, r.node, IF r.node \in up THEN "terminal" ELSE "transient")])
          /\ UNCHANGED <<replicas, left>>
       \/ /\ r \in live /\ r.node \in up /\ Fault /\ Spend
          /\ Set(c, [st[c] EXCEPT !.got = @ \ {r}, !.fail = Failing(c, r.node, "transient")])
          /\ Stopped({r})
    /\ UNCHANGED <<plan, up, listed, path, data>>

Asked(c) == At(c, "create") /\ st[c].sel = {} /\ st[c].got = {}
Has(c, k) == Cardinality(st[c].ses) >= k
Enough(c) == IF Service(c) /\ plan[c].partial THEN plan[c].required ELSE plan[c].desired
Barren(c) == {n \in Nodes : st[c].fail[n] = "perm"}
Spare(c) == st[c].cand \ (st[c].tried \union Barren(c))

\* The candidates that were not selected, one after the other.
Fallback(c, n) ==
    /\ Asked(c) /\ n \in Spare(c) /\ ~Has(c, plan[c].desired)
    /\ Set(c, [st[c] EXCEPT !.sel = {n}, !.tried = @ \union {n}])
    /\ UNCHANGED <<plan, cluster, path, data, left>>

\* Then, while a failure is of a kind that passes, nodes nobody was asked of yet;
\* a task pool asks its transient failures again and asks several nodes at once.
Retriable(c) == \E n \in Nodes : st[c].fail[n] \in {"transient", "identity"}
Met(c) == {n \in Nodes : st[c].fail[n] # "none"} \union {r.node : r \in st[c].ses}
NewNodes(c) == (listed \ Met(c)) \ Barren(c)
Again(c) == IF Service(c) \/ NewNodes(c) # {} THEN {}
            ELSE {n \in listed : st[c].fail[n] = "transient" /\ On(st[c].ses, n) = {}}
SpareOut(c) == Spare(c) = {} \/ Has(c, plan[c].desired)

Rediscover(c) ==
    /\ Asked(c) /\ SpareOut(c) /\ ~Has(c, Enough(c)) /\ Retriable(c)
    /\ \E S \in SUBSET (NewNodes(c) \union Again(c)) :
         /\ S # {} /\ Cardinality(S) <= IF Service(c) THEN 1 ELSE plan[c].desired
         /\ Set(c, [st[c] EXCEPT !.sel = S, !.tried = @ \union S])
    /\ UNCHANGED <<plan, cluster, path, data, left>>

\* Deadline passed or nothing to wait for: the call returns its session or undoes it.
MutVerdict(c) ==
    /\ Asked(c) /\ SpareOut(c)
    /\ LET short == IF Service(c)
                    THEN \/ ~plan[c].partial /\ ~Has(c, plan[c].desired) /\ st[c].fail # Fresh.fail
                         \/ ~Has(c, plan[c].required)
                    ELSE st[c].ses = {}
       IN IF short
          THEN /\ Set(c, [st[c] EXCEPT !.pc = "undo", !.out = "failed", !.todo = {}])
               /\ UNCHANGED data
          ELSE /\ Set(c, [st[c] EXCEPT !.pc = "open"])
               /\ data' = IF Service(c) THEN Persisted(c, st[c].ses) ELSE data
    /\ UNCHANGED <<plan, cluster, path, left>>

Verdict(c) ==
    /\ Asked(c) /\ SpareOut(c)
    /\ LET short == IF Service(c)
                    THEN \/ ~plan[c].partial /\ ~Has(c, plan[c].desired) /\ st[c].fail # Fresh.fail
                         \/ ~Has(c, plan[c].required)
                    ELSE st[c].ses = {}
       IN IF short
          THEN /\ Set(c, [st[c] EXCEPT !.pc = "undo", !.out = "failed", !.todo = st[c].ses])
               /\ UNCHANGED data
          ELSE /\ Set(c, [st[c] EXCEPT !.pc = "open"])
               /\ data' = IF Service(c) THEN Persisted(c, st[c].ses) ELSE data
    /\ UNCHANGED <<plan, cluster, path, left>>

-----------------------------------------------------------------------------
(* The session *)

\* Keepalive finds a replica gone, from the first one created on.
Remove(c, r) ==
    /\ Service(c) /\ st[c].pc \in {"create", "open"} /\ r \in st[c].ses /\ r \notin live
    /\ LET S == st[c].ses \ {r}
       IN /\ data' = Persisted(c, S)
          /\ Set(c, [st[c] EXCEPT !.ses = S, !.flag = @ \/ S = {}])
    /\ UNCHANGED <<plan, cluster, path, left>>

MutCompensate(c, n) ==
    /\ Service(c) /\ At(c, "open") /\ ~Has(c, plan[c].desired)
    /\ n \in listed \intersect up /\ On(st[c].ses, n) = {}
    /\ \E r \in Replica(c, n) :
         /\ Creates(c, n, r)
         /\ Set(c, [st[c] EXCEPT !.ses = @ \union {r}])
         /\ UNCHANGED data
    /\ UNCHANGED <<plan, up, listed, path, left>>

Compensate(c, n) ==
    /\ Service(c) /\ At(c, "open") /\ ~Has(c, plan[c].desired)
    /\ n \in listed \intersect up /\ On(st[c].ses, n) = {}
    /\ \E r \in Replica(c, n) :
         /\ Creates(c, n, r)
         /\ Set(c, [st[c] EXCEPT !.ses = @ \union {r}])
         /\ data' = Persisted(c, st[c].ses \union {r})
    /\ UNCHANGED <<plan, up, listed, path, left>>

\* The user ends the replicas with the session, or closes a service's handle only.
Shut(c) ==
    /\ At(c, "open") /\ Set(c, [st[c] EXCEPT !.pc = "undo", !.out = "closed", !.todo = st[c].ses])
    /\ UNCHANGED <<plan, cluster, path, data, left>>

Undo(c, r) ==
    /\ At(c, "undo") /\ r \in st[c].todo
    /\ \E ok \in BOOLEAN :
         /\ EndCall(r, ok)
         /\ Set(c, [st[c] EXCEPT !.todo = @ \ {r}, !.hurt = @ \/ ~ok, !.fail = IF ok THEN @ ELSE Failing(c, r.node, "end")])
    /\ UNCHANGED <<plan, up, listed, path, data>>

\* Closing lets the lock go and then removes the file, if the session emptied it.
LetGo(c, flag, out) ==
    Set(c, [st[c] EXCEPT !.ino = 0, !.flag = flag, !.out = out, !.pc = IF flag THEN "delete" ELSE out])

Undone(c) ==
    /\ At(c, "undo") /\ st[c].todo = {}
    /\ LET clean == Service(c) /\ st[c].ses # {} /\ \A n \in Nodes : st[c].fail[n] # "end"
       IN /\ data' = IF clean THEN Written(c, None) ELSE data
          /\ LetGo(c, st[c].flag \/ clean, st[c].out)
    /\ UNCHANGED <<plan, cluster, path, left>>

CloseHandle(c) ==
    /\ Service(c) /\ At(c, "open") /\ LetGo(c, st[c].flag, "closed")
    /\ UNCHANGED <<plan, cluster, path, data, left>>

Delete(c) ==
    /\ At(c, "delete") /\ Unlinked(c) /\ Set(c, [st[c] EXCEPT !.pc = st[c].out])
    /\ UNCHANGED <<plan, cluster, left>>

-----------------------------------------------------------------------------
(* The nodes, the InfoCenter and the processes of the clients *)

\* A replica whose owner is silent ends with its lease; a pool under construction is not heartbeated.
Heartbeated(r) == \E c \in Clients : r \in st[c].ses /\ (At(c, "open") \/ (Service(c) /\ At(c, "create")))

LeaseOut(r) ==
    /\ r \in live /\ ~Heartbeated(r) /\ Stopped({r})
    /\ UNCHANGED <<plan, up, listed, path, data, st, left>>

HostDies(r) ==
    /\ r \in live /\ left.deaths > 0 /\ left' = [left EXCEPT !.deaths = @ - 1]
    /\ Stopped({r})
    /\ UNCHANGED <<plan, up, listed, path, data, st>>

NodeDown(n) ==
    /\ n \in up /\ left.downs > 0 /\ left' = [left EXCEPT !.downs = @ - 1]
    /\ up' = up \ {n} /\ live' = live \ On(live, n)
    /\ UNCHANGED <<plan, listed, view, path, data, st>>

Unlist(n) ==
    /\ n \in listed \ up /\ listed' = listed \ {n}
    /\ UNCHANGED <<plan, live, up, view, path, data, st, left>>

\* A new route reaches the InfoCenter with a heartbeat of its node.
Report(n) ==
    /\ n \in up
    /\ view' = view \union {r \in On(live, n) : r.kind = "service"}
    /\ view' # view
    /\ UNCHANGED <<plan, live, up, listed, path, data, st, left>>

\* The system releases the locks of a process that dies; its file stays.
Kill(p) ==
    /\ left.kills > 0 /\ left' = [left EXCEPT !.kills = @ - 1]
    /\ \E c \in Clients : plan[c].proc = p /\ st[c].pc \notin Over \union {"idle"}
    /\ st' = [c \in Clients |-> IF plan[c].proc = p /\ st[c].pc \notin Over \union {"idle"}
                                THEN Kept([st[c] EXCEPT !.pc = "dead"]) ELSE st[c]]
    /\ UNCHANGED <<plan, cluster, path, data>>

-----------------------------------------------------------------------------
Known == UNION {st[c].todo \union st[c].got \union st[c].ses : c \in Clients}

Call(c) ==
    \/ Discover(c) \/ StaleRoutes(c) \/ Judge(c) \/ NoNodes(c) \/ Acquire(c) \/ LockTimeout(c)
    \/ Reused(c) \/ Unlink(c) \/ Ended(c) \/ Rediscover(c) \/ Verdict(c) \/ Undone(c) \/ Delete(c)
    \/ \E r \in Known : Inspect(c, r) \/ Reuse(c, r) \/ End(c, r) \/ Attach(c, r) \/ Undo(c, r)
    \/ \E n \in Nodes : Create(c, n) \/ Fallback(c, n)

Session(c) ==
    \/ Shut(c) \/ CloseHandle(c)
    \/ \E r \in Known : Remove(c, r)
    \/ \E n \in Nodes : Compensate(c, n)

Cluster ==
    \/ \E r \in live : LeaseOut(r) \/ HostDies(r)
    \/ \E n \in Nodes : NodeDown(n) \/ Unlist(n) \/ Report(n)
    \/ \E p \in {plan[c].proc : c \in Clients} : Kill(p)

Next == Cluster \/ \E c \in Clients : Call(c) \/ Session(c)

Spec == Init /\ [][Next]_vars

-----------------------------------------------------------------------------
(* Properties *)

\* One session of an owner's service holds its cache file: two calls never deploy
\* and keep the same service at the same time (_ServiceSessionFileLock.acquire).
OneHolder ==
    \A c, d \in Clients : c # d /\ Mine(c) = Mine(d) => st[c].ino = 0 \/ st[d].ino = 0

\* A call that failed leaves none of its replicas running, except where a call to
\* a node failed with its effect unknown (the rollback of _deploy_from_infocenter).
RollbackClean ==
    \A c \in Clients : At(c, "failed") /\ ~st[c].hurt => \A r \in live : r.by # c

\* However a call or a session ends, its lock is free for the next one.
LockFreed ==
    \A c \in Clients : st[c].pc \in Over \union Waiting \union {"idle", "find", "inspect"} => st[c].ino = 0

\* A deployment that replaces other code goes ahead only when none of the replicas
\* it found runs any more (_replace_existing_changed_code_service, _end_existing_group).
Replaced ==
    \A c \in Clients :
      /\ st[c].pc \in {"create", "open"} /\ st[c].cache # None
      /\ \E r \in st[c].infos : r.code # plan[c].code
      => st[c].infos \intersect live = {}

\* Whichever way a call goes, no replica and no lock is left that nobody owns, and
\* no old code beside new code.
EndsClean == RollbackClean /\ LockFreed /\ Replaced

\* A session whose handle was closed while its replicas run can be taken up again:
\* the cache names them (Service.close, _persist_session_cache).  Not so when
\* it once lost its last replica: the mark to delete the file is never taken back.
Recoverable(c) == (\A d \in Clients \ {c} : At(d, "idle")) => st[c].ses \intersect live \subseteq Contents(Mine(c)).on
HandleRecovers == \A c \in Clients : At(c, "closed") /\ Service(c) /\ ~st[c].flag => Recoverable(c)
HandleAlwaysRecovers == \A c \in Clients : At(c, "closed") /\ Service(c) => Recoverable(c)

\* An opened task pool has no more pools than were asked for; not so when a round
\* of retries asks as many nodes as were wanted though some pools are there.
NotTooMany == \A c \in Clients : At(c, "open") => Cardinality(st[c].ses) <= plan[c].desired
=============================================================================
