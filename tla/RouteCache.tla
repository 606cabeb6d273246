----------------------------- MODULE RouteCache -----------------------------
(***************************************************************************)
(* The route caches of the gateway (controlplane/gateway_cache.py) and of  *)
(* the discovery client (controlplane/discovery_route_cache.py), the       *)
(* breaker each keeps per route (execution/failover.py), and the loops     *)
(* that call a service over them (gateway_http.py, discovery_client.py):   *)
(* one service, its routes coming and going at the InfoCenter, calls that  *)
(* try one route after the other and a thread that refreshes the cache.    *)
(* A cool-down is a flag that time clears.                                 *)
(***************************************************************************)
EXTENDS Integers, FiniteSets, TLC

CONSTANTS
    Kinds,       \* caches to check: "gateway", "discovery"
    Routes,      \* service identifiers of the routes
    Calls,       \* client threads, each making one call after the other
    Loop,        \* the refreshing thread
    MaxUpsets    \* bound: routes that change, snapshots that grow older than the
                 \* refresh interval, cool-downs that pass, and clients that leave
                 \* a stream

ASSUME RouteAssumption ==
    /\ Kinds \subseteq {"gateway", "discovery"} /\ Loop \notin Calls
    /\ IsFiniteSet(Calls) /\ "none" \notin Routes \cup Calls \cup {Loop}
    /\ MaxUpsets \in Nat

VARIABLES
    kind,     \* which cache
    offered,  \* routes the InfoCenter offers, numbered by change
    snap,     \* snapshot of the routes, and whether it is fresh
    owner,    \* who refreshes (the key of _refreshing); discovery only
    brk,      \* _local_state; a missing entry is a closed breaker
    count,    \* _local_inflight
    calls,    \* calls, and the refreshing thread
    probing,  \* calls let through to a half-open route since it was last marked
    left,     \* streams that ended without a mark or a release
    upsets    \* how many there were

vars == <<kind, offered, snap, owner, brk, count, calls, probing, left, upsets>>

Procs == Calls \union {Loop}
Closed == [st |-> "closed", cool |-> FALSE, probe |-> FALSE]
NoCall == [pc |-> "idle", rows |-> {}, ver |-> 0, tried |-> {}, seen |-> {}, route |-> "none",
           force |-> FALSE, forcedOnce |-> FALSE, user |-> FALSE, moved |-> FALSE,
           back |-> "none"]

Init ==
    /\ kind \in Kinds
    /\ offered = [ver |-> 1, set |-> Routes]
    /\ snap = [ver |-> 0, set |-> {}, fresh |-> FALSE]
    /\ owner = "none"
    /\ brk = [r \in Routes |-> Closed] /\ count = [r \in Routes |-> 0]
    /\ calls = [c \in Procs |-> NoCall]
    /\ probing = [r \in Routes |-> {}] /\ left = [r \in Routes |-> 0]
    /\ upsets = 0

Gateway == kind = "gateway"
Upset == upsets < MaxUpsets /\ upsets' = upsets + 1
At(c, pc) == calls[c].pc = pc
Goto(c, pc) == calls' = [calls EXCEPT ![c].pc = pc]

-----------------------------------------------------------------------------
(* The breaker of a route (failover.py) *)

\* candidate_allowed: an open breaker whose cool-down has passed turns half-open.
Aged(b) == IF b.st = "open" /\ ~b.cool THEN [b EXCEPT !.st = "half_open", !.probe = FALSE] ELSE b
Admits(b) == Aged(b).st = "closed" \/ (Aged(b).st = "half_open" /\ ~Aged(b).probe)

MutTakeProbe(b) == Aged(b)
TakeProbe(b) == IF Aged(b).st = "half_open" THEN [Aged(b) EXCEPT !.probe = TRUE] ELSE Aged(b)

\* The threshold of failures is one for both caches.
Opened == [st |-> "open", cool |-> TRUE, probe |-> FALSE]

\* Whoever marks a route decides for everyone: a late answer too.
Mark(r, b) == brk' = [brk EXCEPT ![r] = b] /\ probing' = [probing EXCEPT ![r] = {}]

Reserve(r) == count' = [count EXCEPT ![r] = @ + 1]
Release(r) == count' = [count EXCEPT ![r] = IF @ <= 1 THEN 0 ELSE @ - 1]

\* Entries of routes the rows do not name go; all of them when there are no rows.
Drop(rows) ==
    /\ brk' = [r \in Routes |-> IF r \in rows THEN brk[r] ELSE Closed]
    /\ count' = [r \in Routes |-> IF r \in rows THEN count[r] ELSE 0]
    /\ probing' = [r \in Routes |-> IF r \in rows THEN probing[r] ELSE {}]

-----------------------------------------------------------------------------
(* Refreshing *)

\* The gateway asks the InfoCenter for each selection of a method and keeps
\* nothing of the answer; a request that fails ends the call.
GatewayRows(c) ==
    /\ Gateway /\ c \in Calls /\ At(c, "rows")
    /\ \/ calls' = [calls EXCEPT ![c] = [@ EXCEPT !.rows = offered.set \ calls[c].tried,
                                                     !.seen = {}, !.pc = "check"]]
       \/ calls' = [calls EXCEPT ![c] = NoCall]
    /\ UNCHANGED <<kind, offered, snap, owner, brk, count, probing, left, upsets>>

\* The thread of the gateway asks without a lock and applies the answer in
\* another step; a request that fails drops what is known of every route.
GatewayAsk ==
    /\ Gateway /\ At(Loop, "idle")
    /\ calls' = [calls EXCEPT ![Loop] = [NoCall EXCEPT !.pc = "apply", !.rows = offered.set,
                                                       !.ver = offered.ver]]
    /\ UNCHANGED <<kind, offered, snap, owner, brk, count, probing, left, upsets>>

GatewayApply ==
    /\ Gateway /\ At(Loop, "apply")
    /\ calls' = [calls EXCEPT ![Loop] = NoCall]
    /\ \/ /\ snap' = [ver |-> calls[Loop].ver, set |-> calls[Loop].rows, fresh |-> TRUE]
          /\ Drop(calls[Loop].rows)
       \/ UNCHANGED snap /\ Drop({})
    /\ UNCHANGED <<kind, offered, owner, left, upsets>>

\* The discovery client: a fresh snapshot serves unless a refresh is forced;
\* else one caller asks and the others wait for it.
Got(c, rows) == [calls[c] EXCEPT !.rows = rows, !.force = FALSE, !.moved = FALSE, !.ver = 0,
                                 !.pc = calls[c].back, !.back = "none"]
RefreshFails(c) == IF calls[c].back = "untried"
                   THEN [calls[c] EXCEPT !.pc = "giveup", !.back = "none", !.moved = FALSE, !.ver = 0]
                   ELSE NoCall

MutMayOwn == TRUE
MayOwn == owner = "none"
Serves(c) == snap.fresh /\ ~calls[c].force
Refresh(c) ==
    /\ ~Gateway /\ At(c, "refresh")
    /\ \/ /\ Serves(c)
          /\ calls' = [calls EXCEPT ![c] = Got(c, snap.set)]
          /\ UNCHANGED owner
       \/ /\ ~Serves(c) /\ MayOwn
          /\ owner' = c
          /\ calls' = [calls EXCEPT ![c] = [@ EXCEPT !.pc = "apply", !.rows = offered.set,
                                                     !.ver = offered.ver]]
       \/ /\ ~Serves(c) /\ ~MayOwn
          /\ calls' = [calls EXCEPT ![c] = [@ EXCEPT !.pc = "wait", !.moved = FALSE]]
          /\ UNCHANGED owner
    /\ UNCHANGED <<kind, offered, snap, brk, count, probing, left, upsets>>

\* The answer is applied; those who wait will find the snapshot moved.
Apply(c) ==
    /\ ~Gateway /\ At(c, "apply")
    /\ snap' = [ver |-> calls[c].ver, set |-> calls[c].rows, fresh |-> TRUE]
    /\ Drop(calls[c].rows)
    /\ calls' = [d \in Procs |-> IF d = c THEN [calls[c] EXCEPT !.pc = "finish", !.moved = TRUE]
                                 ELSE IF At(d, "wait") THEN [calls[d] EXCEPT !.moved = TRUE]
                                 ELSE calls[d]]
    /\ UNCHANGED <<kind, offered, owner, left, upsets>>

AskFails(c) ==
    /\ ~Gateway /\ At(c, "apply")
    /\ Goto(c, "finish")
    /\ UNCHANGED <<kind, offered, snap, owner, brk, count, probing, left, upsets>>

\* The key is removed and the waiters are woken, in a section of its own: a
\* caller that joined after the answer was applied finds that nothing has moved.
Finish(c) ==
    /\ At(c, "finish")
    /\ owner' = "none"
    /\ calls' = [d \in Procs |->
         IF d = c THEN IF calls[c].moved THEN Got(c, calls[c].rows) ELSE RefreshFails(c)
         ELSE IF At(d, "wait") THEN [calls[d] EXCEPT !.pc = "woken"] ELSE calls[d]]
    /\ UNCHANGED <<kind, offered, snap, brk, count, probing, left, upsets>>

Woken(c) ==
    /\ At(c, "woken")
    /\ calls' = [calls EXCEPT ![c] = IF calls[c].moved THEN Got(c, snap.set) ELSE RefreshFails(c)]
    /\ UNCHANGED <<kind, offered, snap, owner, brk, count, probing, left, upsets>>

WaitTimesOut(c) ==
    /\ At(c, "wait")
    /\ calls' = [calls EXCEPT ![c] = RefreshFails(c)]
    /\ UNCHANGED <<kind, offered, snap, owner, brk, count, probing, left, upsets>>

\* The refreshing thread of the discovery client never forces.
LoopTurn ==
    /\ ~Gateway /\ At(Loop, "idle") /\ ~snap.fresh
    /\ calls' = [calls EXCEPT ![Loop] = [NoCall EXCEPT !.pc = "refresh", !.back = "idle"]]
    /\ UNCHANGED <<kind, offered, snap, owner, brk, count, probing, left, upsets>>

-----------------------------------------------------------------------------
(* Selecting a route *)

Begin(c) ==
    /\ c \in Calls /\ At(c, "idle")
    /\ calls' = [calls EXCEPT ![c] =
         [NoCall EXCEPT !.pc = IF Gateway THEN "rows" ELSE "refresh", !.back = "choose"]]
    /\ UNCHANGED <<kind, offered, snap, owner, brk, count, probing, left, upsets>>

\* The gateway reads the breaker of each route in a section of its own.
Check(c, r) ==
    /\ Gateway /\ At(c, "check") /\ r \in calls[c].rows
    /\ brk' = [brk EXCEPT ![r] = Aged(@)]
    /\ calls' = [calls EXCEPT ![c] =
         [@ EXCEPT !.rows = calls[c].rows \ {r},
                   !.seen = calls[c].seen \cup {x \in {r} : Admits(brk[x])}]]
    /\ UNCHANGED <<kind, offered, snap, owner, count, probing, left, upsets>>

NoCandidate(c) ==
    /\ Gateway /\ At(c, "check") /\ calls[c].rows = {} /\ calls[c].seen = {}
    /\ calls' = [calls EXCEPT ![c] = NoCall]
    /\ UNCHANGED <<kind, offered, snap, owner, brk, count, probing, left, upsets>>

Sent(c, r) == calls' = [calls EXCEPT ![c] =
  [@ EXCEPT !.pc = "sent", !.route = r, !.rows = {}, !.seen = {},
            !.tried = calls[c].tried \cup {r}]]
Probes(c, r, b) == probing' = IF Aged(b).st = "half_open" THEN [probing EXCEPT ![r] = @ \union {c}]
                              ELSE probing

\* The best candidate takes its probe in one more section; when that is refused
\* by now, a candidate is taken without asking its breaker.
GatewayPick(c, r) ==
    /\ Gateway /\ At(c, "check") /\ calls[c].rows = {} /\ r \in calls[c].seen
    /\ \/ /\ Admits(brk[r])
          /\ brk' = [brk EXCEPT ![r] = TakeProbe(@)]
          /\ Probes(c, r, brk[r])
       \/ /\ \E best \in calls[c].seen :
               ~Admits(brk[best]) /\ brk' = [brk EXCEPT ![best] = Aged(@)]
          /\ Probes(c, r, brk[r])
    /\ Reserve(r) /\ Sent(c, r)
    /\ UNCHANGED <<kind, offered, snap, owner, left, upsets>>

\* The discovery client filters, selects, probes and reserves in one section.
\* The strategies round_robin and least_inflight take no probe.
MutOpenTo(c) == calls[c].rows \ calls[c].tried
OpenTo(c) == {r \in calls[c].rows \ calls[c].tried : Admits(brk[r])}
AgedAll(rows) == [r \in Routes |-> IF r \in rows THEN Aged(brk[r]) ELSE brk[r]]
Choose(c, r, scored) ==
    /\ ~Gateway /\ At(c, "choose") /\ r \in OpenTo(c)
    /\ brk' = IF scored THEN [AgedAll(calls[c].rows \ calls[c].tried) EXCEPT ![r] = TakeProbe(brk[r])]
              ELSE AgedAll(calls[c].rows \ calls[c].tried)
    /\ IF scored THEN Probes(c, r, brk[r]) ELSE UNCHANGED probing
    /\ Reserve(r) /\ Sent(c, r)
    /\ UNCHANGED <<kind, offered, snap, owner, left, upsets>>

NoChoice(c) ==
    /\ ~Gateway /\ At(c, "choose") /\ OpenTo(c) = {}
    /\ brk' = AgedAll(calls[c].rows \ calls[c].tried)
    /\ calls' = [calls EXCEPT ![c] = NoCall]
    /\ UNCHANGED <<kind, offered, snap, owner, count, probing, left, upsets>>

-----------------------------------------------------------------------------
(* Answers *)

Succeeds(c) ==
    LET r == calls[c].route
    IN  /\ calls[c].pc \in {"sent", "streaming"}
        /\ Mark(r, Closed) /\ Release(r)
        /\ calls' = [calls EXCEPT ![c] = NoCall]
        /\ UNCHANGED <<kind, offered, snap, owner, left, upsets>>

\* An error of the user's code gives the route back and leaves its breaker as it
\* is, a probe included.
UserError(c) ==
    /\ Gateway /\ calls[c].pc \in {"sent", "streaming"}
    /\ Release(calls[c].route)
    /\ calls' = [calls EXCEPT ![c] = NoCall]
    /\ UNCHANGED <<kind, offered, snap, owner, brk, probing, left, upsets>>

Again(c, pc) == calls' = [calls EXCEPT ![c] =
  [@ EXCEPT !.pc = pc, !.route = "none", !.back = "choose", !.rows = {}]]

\* The gateway marks the route and selects another one.
GatewayFails(c) ==
    LET r == calls[c].route
    IN  /\ Gateway /\ At(c, "sent")
        /\ Mark(r, Opened) /\ Release(r) /\ Again(c, "rows")
        /\ UNCHANGED <<kind, offered, snap, owner, left, upsets>>

\* The discovery client first looks for a route it has not tried, in the cached
\* rows, then, once in a call, in refreshed ones; also when the user's code failed.
ClientFails(c, user) ==
    /\ ~Gateway /\ At(c, "sent")
    /\ calls' = [calls EXCEPT ![c] = [@ EXCEPT !.pc = "refresh", !.back = "untried", !.user = user]]
    /\ UNCHANGED <<kind, offered, snap, owner, brk, count, probing, left, upsets>>

More(c) == calls[c].rows \ calls[c].tried # {}
LookAgain(c) ==
    /\ At(c, "untried") /\ ~More(c) /\ ~calls[c].forcedOnce
    /\ calls' = [calls EXCEPT ![c] = [@ EXCEPT !.pc = "refresh", !.back = "untried", !.rows = {},
                                             !.force = TRUE, !.forcedOnce = TRUE]]
    /\ UNCHANGED <<kind, offered, snap, owner, brk, count, probing, left, upsets>>

FailOver(c) ==
    /\ At(c, "untried") /\ More(c) /\ ~calls[c].user
    /\ Mark(calls[c].route, Opened) /\ Release(calls[c].route)
    /\ Again(c, "refresh")
    /\ UNCHANGED <<kind, offered, snap, owner, left, upsets>>

\* No other route, or the user's error: the route is given back unmarked.
GiveUp(c) ==
    /\ \/ At(c, "giveup")
       \/ At(c, "untried") /\ (IF More(c) THEN calls[c].user ELSE calls[c].forcedOnce)
    /\ Release(calls[c].route)
    /\ calls' = [calls EXCEPT ![c] = NoCall]
    /\ UNCHANGED <<kind, offered, snap, owner, brk, probing, left, upsets>>

\* Streams of the gateway: the route is marked by the last event; when the client
\* goes away before it, the generator is closed and nothing is given back.
Streams(c) ==
    /\ Gateway /\ At(c, "sent")
    /\ Goto(c, "streaming")
    /\ UNCHANGED <<kind, offered, snap, owner, brk, count, probing, left, upsets>>

StreamFails(c) ==
    LET r == calls[c].route
    IN  /\ At(c, "streaming")
        /\ Mark(r, Opened) /\ Release(r)
        /\ calls' = [calls EXCEPT ![c] = NoCall]
        /\ UNCHANGED <<kind, offered, snap, owner, left, upsets>>

StreamLeft(c) ==
    /\ At(c, "streaming")
    /\ left' = [left EXCEPT ![calls[c].route] = @ + 1]
    /\ calls' = [calls EXCEPT ![c] = NoCall]
    /\ Upset
    /\ UNCHANGED <<kind, offered, snap, owner, brk, count, probing>>

-----------------------------------------------------------------------------
(* The InfoCenter and time *)

Change ==
    /\ Upset
    /\ \E S \in SUBSET Routes : S # offered.set /\ offered' = [ver |-> offered.ver + 1, set |-> S]
    /\ UNCHANGED <<kind, snap, owner, brk, count, calls, probing, left>>

Expire ==
    /\ ~Gateway /\ snap.fresh
    /\ snap' = [snap EXCEPT !.fresh = FALSE]
    /\ Upset
    /\ UNCHANGED <<kind, offered, owner, brk, count, calls, probing, left>>

CoolsDown(r) ==
    /\ brk[r].cool
    /\ brk' = [brk EXCEPT ![r].cool = FALSE]
    /\ Upset
    /\ UNCHANGED <<kind, offered, snap, owner, count, calls, probing, left>>

Next ==
    \/ GatewayAsk \/ GatewayApply \/ LoopTurn \/ Change \/ Expire
    \/ \E r \in Routes : CoolsDown(r)
    \/ \E c \in Procs : Refresh(c) \/ Apply(c) \/ AskFails(c) \/ Finish(c)
                            \/ Woken(c) \/ WaitTimesOut(c)
    \/ \E c \in Calls :
         \/ Begin(c) \/ GatewayRows(c) \/ NoCandidate(c) \/ NoChoice(c)
         \/ Succeeds(c) \/ UserError(c) \/ GatewayFails(c) 
         \/ LookAgain(c) \/ FailOver(c) \/ GiveUp(c) \/ \E user \in BOOLEAN : ClientFails(c, user)
         \/ Streams(c) \/ StreamFails(c) \/ StreamLeft(c)
         \/ \E r \in Routes : Check(c, r) \/ GatewayPick(c, r)
                                \/ \E scored \in BOOLEAN : Choose(c, r, scored)

Spec == Init /\ [][Next]_vars
-----------------------------------------------------------------------------
(* Properties *)

Holding(r) == {c \in Calls : calls[c].route = r}

\* A route counts no more calls in flight than hold it, or left it with their
\* stream: who ends, however it ends, gives its route back once.
CountBounded == \A r \in Routes : count[r] <= Cardinality(Holding(r)) + left[r]

\* The discovery client lets one call at a time through to a half-open route,
\* whatever late answers and refreshes do to its breaker meanwhile.
OneProbe == kind = "discovery" => \A r \in Routes : Cardinality(probing[r]) <= 1

\* The counters the breakers and the choice of a route go by are what the calls
\* under way make them (_reserve_route, before_probe).
RoutesAccounted == CountBounded /\ OneProbe

\* The discovery client sends no call to a route before its cool-down is over.
CoolingRests ==
    [][kind = "discovery" => \A c \in Calls :
         calls[c].route = "none" /\ calls'[c].route # "none" => ~brk[calls'[c].route].cool]_vars

\* One request at a time refreshes the discovery client's snapshot, so that rows
\* asked for earlier never replace later ones.
SnapshotForward == [][kind = "discovery" => snap'.ver >= snap.ver]_vars

=============================================================================
