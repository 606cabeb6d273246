--------------------------- MODULE NodeRegistry ----------------------------
(***************************************************************************)
(* What the InfoCenter knows of the nodes: NodeInfoCenterRegistrar of      *)
(* controlplane/registrar.py, which runs in every node, and the registry   *)
(* it reports to, InfoCenterState of controlplane/infocenter_state.py      *)
(* behind the handlers of controlplane/infocenter_http.py.                 *)
(*                                                                         *)
(* A node is a node_instance_id: a node that restarts on its address is    *)
(* another one.  Three threads of a node call the InfoCenter: the loop,    *)
(* the thread of an asynchronous heartbeat and the one that closes the     *)
(* registrar.  A call that times out or whose process dies may still       *)
(* arrive, after calls made later.  The InfoCenter may restart: it forgets *)
(* the nodes and reloads the profiles.  Startup services, data references, *)
(* tags and load figures are left out.                                     *)
(***************************************************************************)
EXTENDS Integers, FiniteSets

CONSTANTS
  Nodes,       \* node_instance_ids
  Addrs,       \* control addresses
  AddrOf,      \* the address each node is bound to
  Services,    \* service names
  MaxChanges,  \* bound: starts and stops of services
  MaxUpsets,   \* bound: crashes, restarts, lost or late calls, missed leases, and
               \* actions of an operator
  Stored,      \* what the file of profiles may hold for an address at the start
  None

Profile == [enabled : BOOLEAN, drain : BOOLEAN]

\* NodeState, as far as it is modelled; a service is "lost" only in a record.
Status == {"none", "running", "stopped"}
NodeState == [addr : BOOLEAN, healthy : BOOLEAN, stale : BOOLEAN, sched : BOOLEAN, drain : BOOLEAN,
              reason : {"", "disabled", "timeout", "lost"}, svcs : [Services -> Status \cup {"lost"}]]

ASSUME NodeRegistryAssumption ==
  /\ AddrOf \in [Nodes -> Addrs]
  /\ MaxChanges \in Nat /\ MaxUpsets \in Nat
  /\ Stored \subseteq Profile
  /\ None \notin NodeState /\ None \notin BOOLEAN

Threads == {"loop", "async", "close"}

VARIABLES
  up,       \* the process of each node: off, up or down
  svcs,     \* the status of each service on each node
  reg,      \* _registered, _force_inventory_sync, and whether inventory_sync_interval_sec is over
  pc,       \* what each thread of a registrar is about to do
  wire,     \* requests the InfoCenter has not answered
  rec,      \* _nodes
  index,    \* _services_by_name
  profile,  \* _profiles
  left,     \* what is left of the bounds
  missed    \* history: the nodes that missed a lease or were marked lost

vars == <<up, svcs, reg, pc, wire, rec, index, profile, left, missed>>

NoServices == [s \in Services |-> "none"]

\* A NodeState as a heartbeat of an unknown instance makes it: no control_addr.
Bare == [addr |-> FALSE, healthy |-> TRUE, stale |-> FALSE, sched |-> TRUE, drain |-> FALSE,
         reason |-> "", svcs |-> NoServices]

Init ==
  /\ up = [n \in Nodes |-> "off"]
  /\ svcs = [n \in Nodes |-> NoServices]
  /\ reg = [n \in Nodes |-> [registered |-> FALSE, force |-> TRUE, due |-> TRUE]]
  /\ pc = [n \in Nodes |-> [t \in Threads |-> "idle"]]
  /\ wire = {}
  /\ rec = [n \in Nodes |-> None]
  /\ index = [s \in Services |-> {}]
  /\ profile \in [Addrs -> Stored]
  /\ left = [changes |-> MaxChanges, upsets |-> MaxUpsets]
  /\ missed = {}

Spend(what) == left[what] > 0 /\ left' = [left EXCEPT ![what] = @ - 1]

-----------------------------------------------------------------------------
(* The tables of the InfoCenter. *)

Known(n) == rec[n] # None
Stale(n) == Known(n) /\ rec[n].stale

Named(r) == {s \in Services : r # None /\ r.svcs[s] # "none"}

\* _reindex_node_services_locked, _remove_node_services_index_locked
Reindexed(idx, n, new) ==
  [s \in Services |-> (idx[s] \ (IF s \in Named(rec[n]) THEN {n} ELSE {}))
                        \cup (IF s \in Named(new) THEN {n} ELSE {})]

\* _apply_profile_locked: a record without a control_addr has no profile.
Profiled(n, r, prof) ==
  LET p == prof[AddrOf[n]]
      d == [r EXCEPT !.drain = p.drain]
  IN  IF ~r.addr THEN r
      ELSE IF ~p.enabled
        THEN [d EXCEPT !.sched = FALSE, !.reason = IF @ = "" THEN "disabled" ELSE @]
      ELSE IF r.reason = "disabled" THEN [d EXCEPT !.sched = TRUE, !.reason = ""]
      ELSE d

\* _fence_if_stale_locked
Fenced(r) ==
  IF r = None \/ ~r.stale THEN r
  ELSE [r EXCEPT !.healthy = FALSE, !.sched = FALSE, !.reason = IF @ = "" THEN "timeout" ELSE @]

FenceAll == rec' = [n \in Nodes |-> Fenced(rec[n])]

-----------------------------------------------------------------------------
(* The answers of the InfoCenter; a thread gets the answer to its call in the *)
(* step that gives it.                                                        *)

\* What an answer does to the registrar.  A request_sync that came after the
\* snapshot is forgotten with the force it had set.
Settled(g, a) ==
  IF ~a.ok THEN g
  ELSE IF a.kind = "register" THEN [registered |-> TRUE, force |-> FALSE, due |-> FALSE]
  ELSE IF a.need THEN [g EXCEPT !.force = TRUE, !.due = TRUE]
  ELSE IF a.inv THEN [g EXCEPT !.force = FALSE, !.due = FALSE]
  ELSE g

\* The call returns or raises; an exception in the loop takes the registration
\* back (_handle_sync_exception), one in the asynchronous thread waits to be
\* drained, and after the final heartbeat the node is not registered any more.
Receive(n, t, a) ==
  /\ LET g == Settled(reg[n], a)
     IN  reg' = [reg EXCEPT ![n] =
           [g EXCEPT !.registered = g.registered /\ t # "close" /\ (t = "loop" => a.ok)]]
  /\ pc' = [pc EXCEPT ![n][t] = CASE t = "loop"  -> "idle"
                                  [] t = "async" -> IF a.ok THEN "succeeded" ELSE "failed"
                                  [] t = "close" -> "stop"]

-----------------------------------------------------------------------------
(* The handlers of the InfoCenter. *)

\* The answer goes to the thread that still waits for it, if there is one.
Reply(r, a) ==
  IF r.from = "nobody" THEN UNCHANGED <<reg, pc>> ELSE Receive(r.node, r.from, a)

\* Mutant: the former instance stays.
ReplacedNone(n) == {}

\* _prune_replaced_nodes_locked
Replaced(n) == {m \in Nodes \ {n} : Known(m) /\ rec[m].addr /\ AddrOf[m] = AddrOf[n]}

\* register_node_record: schedulable and reason of a known node stay as they are.
Registered(n, sv) ==
  LET old == IF Known(n) THEN rec[n] ELSE Bare
  IN  Profiled(n, [old EXCEPT !.addr = TRUE, !.healthy = TRUE, !.stale = FALSE, !.svcs = sv],
               profile)

\* POST /nodes/register
Register(r) ==
  /\ r.kind = "register" /\ r \in wire
  /\ wire' = wire \ {r}
  /\ rec' = [n \in Nodes |-> IF n = r.node THEN Registered(n, r.svcs)
                             ELSE IF n \in Replaced(r.node) THEN None ELSE rec[n]]
  /\ index' = [s \in Services |->
                 Reindexed(index, r.node, rec'[r.node])[s]
                   \ {n \in Replaced(r.node) : s \in Named(rec[n])}]
  /\ Reply(r, [ok |-> TRUE, kind |-> r.kind, inv |-> TRUE, need |-> FALSE])
  /\ UNCHANGED <<up, svcs, profile, left, missed>>

\* POST /nodes/heartbeat looks first whether it knows the node, which fences
\* every node whose lease has run out, the caller included ...
HeartbeatLook(r) ==
  /\ r.kind = "heartbeat" /\ r \in wire /\ r.known = None
  /\ wire' = (wire \ {r}) \cup {[r EXCEPT !.known = Known(r.node)]}
  /\ FenceAll
  /\ UNCHANGED <<up, svcs, reg, pc, index, profile, left, missed>>

\* ... and applies it in a second section (heartbeat_record), which makes a
\* record for a node it does not know.
HeartbeatApply(r) ==
  /\ r.kind = "heartbeat" /\ r \in wire /\ r.known # None
  /\ wire' = wire \ {r}
  /\ LET old == IF Known(r.node) THEN rec[r.node] ELSE Bare
         new == [old EXCEPT !.healthy = TRUE, !.stale = FALSE,
                            !.svcs = IF r.inv THEN r.svcs ELSE @]
     IN  /\ rec' = [rec EXCEPT ![r.node] = Profiled(r.node, new, profile)]
         /\ index' = Reindexed(index, r.node, new)
  /\ Reply(r, [ok |-> TRUE, kind |-> r.kind, inv |-> r.inv, need |-> ~r.known /\ ~r.inv])
  /\ UNCHANGED <<up, svcs, profile, left, missed>>

\* Any query of nodes or routes fences what is stale (list_nodes,
\* list_selected_nodes, list_service_routes).
Query ==
  /\ \E n \in Nodes : Stale(n) /\ Fenced(rec[n]) # rec[n]
  /\ FenceAll
  /\ UNCHANGED <<up, svcs, reg, pc, wire, index, profile, left, missed>>

\* POST /ops/nodes/<n>/mark-lost
MarkNodeLost(n) ==
  /\ Known(n) /\ Spend("upsets")
  /\ rec' = [rec EXCEPT ![n] = [@ EXCEPT !.healthy = FALSE, !.sched = FALSE, !.stale = TRUE,
                  !.reason = "lost",
                  !.svcs = [s \in Services |-> IF s \in Named(rec[n]) THEN "lost" ELSE "none"]]]
  /\ missed' = missed \cup {n}
  /\ UNCHANGED <<up, svcs, reg, pc, wire, index, profile>>

\* Mutant: enabling a profile does not lift what disabling it did.
UpdateProfileOneWay(a, p) ==
  /\ p # profile[a] /\ \E n \in Nodes : Known(n) /\ rec[n].addr /\ AddrOf[n] = a
  /\ Spend("upsets")
  /\ profile' = [profile EXCEPT ![a] = p]
  /\ rec' = [n \in Nodes |->
       IF Known(n) /\ AddrOf[n] = a
         THEN [Profiled(n, rec[n], profile') EXCEPT !.sched = @ /\ rec[n].sched] ELSE rec[n]]
  /\ UNCHANGED <<up, svcs, reg, pc, wire, index, missed>>

\* POST /ops/nodes/<n>/cordon, uncordon, drain, undrain: update_node_profile
UpdateProfile(a, p) ==
  /\ p # profile[a] /\ \E n \in Nodes : Known(n) /\ rec[n].addr /\ AddrOf[n] = a
  /\ Spend("upsets")
  /\ profile' = [profile EXCEPT ![a] = p]
  /\ rec' = [n \in Nodes |-> IF Known(n) /\ AddrOf[n] = a
                               THEN Profiled(n, rec[n], profile') ELSE rec[n]]
  /\ UNCHANGED <<up, svcs, reg, pc, wire, index, missed>>

-----------------------------------------------------------------------------
(* The registrar of a node.  A pass of its loop chooses, drains the future of *)
(* the asynchronous heartbeat, takes its snapshot and sends it: what its own  *)
(* other threads do in between only makes the snapshot newer.                 *)

Up(n)       == up[n] = "up"
At(n, t, l) == pc[n][t] = l

Request(n, t, kind, inv) ==
  [node |-> n, from |-> t, kind |-> kind, inv |-> inv, known |-> None,
   svcs |-> IF inv THEN svcs'[n] ELSE NoServices]

Send(n, t, kind, inv) == wire' = wire \cup {Request(n, t, kind, inv)}

\* _drain_heartbeat_future: a future that failed takes the registration back, and
\* so does one that is pending when the lease has run out meanwhile.
Pending(n) == At(n, "async", "wait")

Drained(n) ==
  \E expired \in (IF Pending(n) THEN BOOLEAN ELSE {FALSE}) :
    reg' = [reg EXCEPT ![n].registered = reg[n].registered /\ ~At(n, "async", "failed") /\ ~expired]

Threaded(n, loop, async) ==
  pc' = [pc EXCEPT ![n] = [@ EXCEPT !["loop"] = loop,
                                    !["async"] = IF Pending(n) THEN @ ELSE async]]

\* _sync_now of a node that is not registered: _register_once
SyncRegister(n) ==
  /\ Up(n) /\ At(n, "loop", "idle") /\ ~reg[n].registered
  /\ Drained(n)
  /\ Threaded(n, "wait", "idle")
  /\ UNCHANGED <<up, svcs, rec, index, profile, left, missed>>
  /\ Send(n, "loop", "register", TRUE)

\* _sync_now after a request_sync: _heartbeat_once in the loop, also while an
\* older asynchronous heartbeat is pending.
SyncForced(n) ==
  /\ Up(n) /\ At(n, "loop", "idle") /\ reg[n].registered /\ reg[n].force
  /\ Drained(n)
  /\ Threaded(n, "wait", "idle")
  /\ UNCHANGED <<up, svcs, rec, index, profile, left, missed>>
  /\ Send(n, "loop", "heartbeat", TRUE)

\* Mutant: without the periodic inventory.
SyncAsyncLight(n) ==
  /\ Up(n) /\ At(n, "loop", "idle") /\ reg[n].registered /\ ~reg[n].force
  /\ Drained(n)
  /\ Threaded(n, "idle", "wait")
  /\ UNCHANGED <<up, svcs, rec, index, profile, left, missed>>
  /\ IF Pending(n) THEN UNCHANGED wire ELSE Send(n, "async", "heartbeat", FALSE)

\* _submit_heartbeat_async: at most one heartbeat is pending; it carries the
\* inventory when the last one is inventory_sync_interval_sec old.
SyncAsync(n) ==
  /\ Up(n) /\ At(n, "loop", "idle") /\ reg[n].registered /\ ~reg[n].force
  /\ Drained(n)
  /\ Threaded(n, "idle", "wait")
  /\ UNCHANGED <<up, svcs, rec, index, profile, left, missed>>
  /\ IF Pending(n) THEN UNCHANGED wire ELSE Send(n, "async", "heartbeat", reg[n].due)

\* Time: the last inventory gets inventory_sync_interval_sec old.
InventoryDue(n) ==
  /\ Up(n) /\ ~reg[n].due
  /\ reg' = [reg EXCEPT ![n].due = TRUE]
  /\ UNCHANGED <<up, svcs, pc, wire, rec, index, profile, left, missed>>

-----------------------------------------------------------------------------
(* The process of a node. *)

NextStatus == [none |-> "running", running |-> "stopped", stopped |-> "none"]

\* The node starts a service, stops it or forgets a stopped one, and asks the
\* registrar for a sync (request_sync).
ChangeService(n, s) ==
  /\ Up(n) /\ At(n, "close", "idle") /\ Spend("changes")
  /\ svcs' = [svcs EXCEPT ![n][s] = NextStatus[@]]
  /\ reg' = [reg EXCEPT ![n].force = TRUE]
  /\ UNCHANGED <<up, pc, wire, rec, index, profile, missed>>

\* start: the address is free, its former node is gone.
StartNode(n) ==
  /\ up[n] = "off"
  /\ \A m \in Nodes : AddrOf[m] = AddrOf[n] => ~Up(m)
  /\ up' = [up EXCEPT ![n] = "up"]
  /\ UNCHANGED <<svcs, reg, pc, wire, rec, index, profile, left, missed>>

\* close: a registered node stops its services and sends a last heartbeat, with
\* its inventory and healthy.
CloseNode(n) ==
  /\ Up(n) /\ At(n, "close", "idle")
  /\ svcs' = [svcs EXCEPT ![n] = [s \in Services |->
                IF reg[n].registered /\ svcs[n][s] = "running" THEN "stopped" ELSE svcs[n][s]]]
  /\ pc' = [pc EXCEPT ![n]["close"] = IF reg[n].registered THEN "wait" ELSE "stop"]
  /\ IF reg[n].registered THEN Send(n, "close", "heartbeat", TRUE) ELSE UNCHANGED wire
  /\ UNCHANGED <<up, reg, rec, index, profile, left, missed>>

\* The threads of a process end; what they sent may still arrive, which counts
\* as an upset.
End(n, cost) ==
  /\ \E late \in SUBSET {r \in wire : r.node = n /\ r.from # "nobody"} :
       /\ cost + Cardinality(late) <= left.upsets
       /\ left' = [left EXCEPT !.upsets = @ - cost - Cardinality(late)]
       /\ wire' = {r \in wire : r.node # n \/ r.from = "nobody"}
                    \cup {[r EXCEPT !.from = "nobody"] : r \in late}
  /\ up' = [up EXCEPT ![n] = "down"]
  /\ svcs' = [svcs EXCEPT ![n] = NoServices]
  /\ reg' = [reg EXCEPT ![n] = [registered |-> FALSE, force |-> TRUE, due |-> TRUE]]
  /\ pc' = [pc EXCEPT ![n] = [t \in Threads |-> "idle"]]
  /\ UNCHANGED <<rec, index, profile, missed>>

StopNode(n)  == Up(n) /\ At(n, "close", "stop") /\ End(n, 0)
CrashNode(n) == Up(n) /\ End(n, 1)

-----------------------------------------------------------------------------
(* Faults. *)

Raised(r) == Reply(r, [ok |-> FALSE, kind |-> r.kind, inv |-> r.inv, need |-> FALSE])

\* A request is lost: its caller gets an error.
Lose(r) ==
  /\ r \in wire /\ Spend("upsets")
  /\ wire' = wire \ {r}
  /\ Raised(r)
  /\ UNCHANGED <<up, svcs, rec, index, profile, missed>>

\* A call exceeds rpc_timeout_sec; the InfoCenter may still handle it.
TimeOut(r) ==
  /\ r \in wire /\ r.from # "nobody" /\ Spend("upsets")
  /\ wire' = (wire \ {r}) \cup {[r EXCEPT !.from = "nobody"]}
  /\ Raised(r)
  /\ UNCHANGED <<up, svcs, rec, index, profile, missed>>

\* Time: a node is not heard of for lease_ttl_sec.
LeaseLapse(n) ==
  /\ Known(n) /\ ~rec[n].stale
  /\ IF Up(n) THEN Spend("upsets") ELSE UNCHANGED left
  /\ rec' = [rec EXCEPT ![n].stale = TRUE]
  /\ missed' = missed \cup {n}
  /\ UNCHANGED <<up, svcs, reg, pc, wire, index, profile>>

\* The InfoCenter restarts between two calls: _load_profiles reads the profiles
\* that _save_profiles_locked wrote; the nodes are forgotten, and what its
\* handlers were at work on.
RestartCenter ==
  /\ \A r \in wire : r.known = None
  /\ Spend("upsets")
  /\ rec' = [n \in Nodes |-> None]
  /\ index' = [s \in Services |-> {}]
  /\ missed' = {}
  /\ UNCHANGED <<up, svcs, reg, pc, wire, profile>>

-----------------------------------------------------------------------------
Sync(n)      == SyncRegister(n) \/ SyncForced(n) \/ SyncAsync(n)
Registrar(n) == Sync(n) \/ InventoryDue(n)

Handled(r) == Register(r) \/ HeartbeatLook(r) \/ HeartbeatApply(r)
Handler    == \E r \in wire : Handled(r)

Process(n) == \/ StartNode(n) \/ CloseNode(n) \/ StopNode(n) \/ CrashNode(n)
              \/ \E s \in Services : ChangeService(n, s)

Operator == \/ \E n \in Nodes : MarkNodeLost(n)
            \/ \E a \in Addrs, e, d \in BOOLEAN : UpdateProfile(a, [enabled |-> e, drain |-> d])

Fault == \/ \E r \in wire : Lose(r) \/ TimeOut(r)
         \/ \E n \in Nodes : LeaseLapse(n)
         \/ RestartCenter

Next == \/ \E n \in Nodes : Registrar(n) \/ Process(n)
        \/ Handler \/ Query \/ Operator \/ Fault

Spec == Init /\ [][Next]_vars

\* The loop of a live process gets on, a request whose caller waits is handled in
\* the end, and the clock runs.  A late request may never arrive.
FairSpec ==
  /\ Spec
  /\ \A n \in Nodes :
       /\ WF_vars(Sync(n)) /\ WF_vars(InventoryDue(n)) /\ WF_vars(StopNode(n))
       /\ \A t \in Threads :
            WF_vars(\E r \in wire : r.node = n /\ r.from = t /\ Handled(r))

-----------------------------------------------------------------------------
(* Properties. *)

TypeOK ==
  /\ \A n \in Nodes :
       /\ up[n] \in {"off", "up", "down"}
       /\ svcs[n] \in [Services -> Status]
       /\ reg[n] \in [registered : BOOLEAN, force : BOOLEAN, due : BOOLEAN]
       /\ ~Up(n) => \A t \in Threads : At(n, t, "idle")
       /\ Known(n) => rec[n] \in NodeState
  /\ \A r \in wire : r.from # "nobody" => At(r.node, r.from, "wait")
  /\ index \in [Services -> SUBSET Nodes]
  /\ profile \in [Addrs -> Profile]

\* The routes of a service are found through _services_by_name: it has exactly
\* the nodes that report the service, whatever got replaced, lost or reordered.
IndexExact == \A s \in Services : index[s] = {n \in Nodes : s \in Named(rec[n])}

\* At most one instance is known on a control address: clients are never sent
\* to an address as two nodes.
OneInstancePerAddr ==
  \A m, n \in Nodes : m # n /\ Known(m) /\ Known(n) /\ rec[m].addr /\ rec[n].addr
                        => AddrOf[m] # AddrOf[n]

\* What an operator asked of an address holds for whatever instance is there,
\* across restarts of the node and of the InfoCenter.
ProfileApplied ==
  \A n \in Nodes : Known(n) /\ rec[n].addr =>
    /\ rec[n].drain = profile[AddrOf[n]].drain
    /\ rec[n].sched => profile[AddrOf[n]].enabled

\* Cordoning is undone by uncordoning: a node is kept out only while its profile
\* is disabled or after it missed a lease or was marked lost.
CordonUndone ==
  \A n \in Nodes : Known(n) /\ rec[n].addr /\ ~rec[n].sched =>
    ~profile[AddrOf[n]].enabled \/ n \in missed

\* Once nothing changes any more the InfoCenter shows what each live node runs,
\* though calls were lost, late or reordered, syncs forgotten and the InfoCenter
\* restarted (inventory_required, inventory_sync_interval_sec).
InventoryArrives == <>[](\A n \in Nodes : Up(n) => Known(n) /\ rec[n].svcs = svcs[n])
-----------------------------------------------------------------------------
(* What a comment or a document says and TLC refutes. *)

\* A node whose heartbeats are for an instance the InfoCenter does not know gets
\* registered again: its control_addr is known in the end
\* (_handle_sync_exception).
ReRegistered ==
  <>[](\A n \in Nodes : Up(n) /\ At(n, "close", "idle") => Known(n) /\ rec[n].addr)

\* An instance that missed its lease or was marked lost never again offers its
\* services under the same node_instance_id (docs/LONG_TERM_CONTEXT.md).
FencedStaysLost ==
  [][\A n \in Nodes : n \in missed /\ Known(n) /\ ~rec[n].healthy /\ rec'[n] # None => ~rec'[n].healthy]_vars
=============================================================================
