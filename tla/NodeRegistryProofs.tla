------------------------- MODULE NodeRegistryProofs -------------------------
(***************************************************************************)
(* Proofs about NodeRegistry for every value of its constants: the index   *)
(* of the services, one instance on an address, and what an operator asked *)
(* of an address.  None of them depends on what a registrar is about to    *)
(* do: requests of any kind may arrive at any time.                        *)
(***************************************************************************)
EXTENDS NodeRegistry, TLAPS

Requests == [node : Nodes, from : Threads \cup {"nobody"}, kind : {"register", "heartbeat"},
             inv : BOOLEAN, known : BOOLEAN \cup {None}, svcs : [Services -> Status]]

\* The tables of the InfoCenter, the requests it gets and what they tell.
Types == /\ svcs \in [Nodes -> [Services -> Status]]
         /\ wire \subseteq Requests
         /\ rec \in [Nodes -> NodeState \cup {None}]
         /\ index \in [Services -> SUBSET Nodes]
         /\ profile \in [Addrs -> Profile]

-----------------------------------------------------------------------------
(* What a record says, and what happens to it. *)

\* A record that is stale, timed out or lost is of a node that missed a lease,
\* one out of schedule has a reason, and only a record with an address is disabled.
Explained(n, r, miss) ==
  r # None =>
    /\ r.stale \/ r.reason \in {"timeout", "lost"} => n \in miss
    /\ r.reason = "disabled" => r.addr
    /\ ~r.sched => r.reason # ""

\* A record with an address goes by the profile of the address.
Applied(n, r, prof) ==
  r # None /\ r.addr =>
    /\ r.drain = prof[AddrOf[n]].drain
    /\ r.sched => prof[AddrOf[n]].enabled
    /\ r.reason = "disabled" => ~prof[AddrOf[n]].enabled

Sound(n, r, prof, miss) == Explained(n, r, miss) /\ Applied(n, r, prof)

\* Applying a profile touches neither the address, the staleness nor the services,
\* and whatever was explained before is sound after it.
LEMMA ProfiledFacts ==
  ASSUME NEW n \in Nodes, NEW r \in NodeState, NEW prof \in [Addrs -> Profile], NEW miss
  PROVE  /\ Profiled(n, r, prof) \in NodeState
         /\ Profiled(n, r, prof).addr = r.addr
         /\ Profiled(n, r, prof).svcs = r.svcs
         /\ Explained(n, r, miss) => Sound(n, Profiled(n, r, prof), prof, miss)
<1> DEFINE p == prof[AddrOf[n]]
<1>1. p \in Profile
  BY NodeRegistryAssumption
<1>2. r # None
  BY NodeRegistryAssumption
<1>3. CASE ~r.addr
  BY <1>2, <1>3 DEF Profiled, Sound, Explained, Applied
<1>4. CASE r.addr /\ ~p.enabled
  <2> DEFINE q == [[r EXCEPT !.drain = p.drain]
                      EXCEPT !.sched = FALSE, !.reason = IF r.reason = "" THEN "disabled" ELSE r.reason]
  <2>1. Profiled(n, r, prof) = q
    BY <1>4 DEF Profiled, NodeState
  <2>2. /\ q \in NodeState /\ q.addr = r.addr /\ q.svcs = r.svcs /\ ~q.sched /\ q.drain = p.drain
        /\ q.stale = r.stale /\ q.reason = IF r.reason = "" THEN "disabled" ELSE r.reason
    BY <1>1 DEF NodeState, Profile
  <2> HIDE DEF q
  <2> QED
    BY <1>2, <1>4, <2>1, <2>2 DEF Sound, Explained, Applied
<1>5. CASE r.addr /\ p.enabled /\ r.reason = "disabled"
  <2> DEFINE q == [[r EXCEPT !.drain = p.drain] EXCEPT !.sched = TRUE, !.reason = ""]
  <2>1. Profiled(n, r, prof) = q
    BY <1>5 DEF Profiled
  <2>2. /\ q \in NodeState /\ q.addr = r.addr /\ q.svcs = r.svcs /\ q.sched /\ q.drain = p.drain
        /\ q.stale = r.stale /\ q.reason = ""
    BY <1>1 DEF NodeState, Profile
  <2> QED
    BY <1>2, <1>5, <2>1, <2>2 DEF Sound, Explained, Applied
<1>6. CASE r.addr /\ p.enabled /\ r.reason # "disabled"
  <2> DEFINE q == [r EXCEPT !.drain = p.drain]
  <2>1. Profiled(n, r, prof) = q
    BY <1>6 DEF Profiled
  <2>2. /\ q \in NodeState /\ q.addr = r.addr /\ q.svcs = r.svcs /\ q.sched = r.sched
        /\ q.drain = p.drain /\ q.stale = r.stale /\ q.reason = r.reason
    BY <1>1 DEF NodeState, Profile
  <2> QED
    BY <1>2, <1>6, <2>1, <2>2 DEF Sound, Explained, Applied
<1> QED
  BY <1>1, <1>3, <1>4, <1>5, <1>6

\* Fencing takes a stale node out of the schedule, and no more.
LEMMA FencedFacts ==
  ASSUME NEW n \in Nodes, NEW r \in NodeState \cup {None}, NEW prof, NEW miss
  PROVE  /\ Fenced(r) \in NodeState \cup {None}
         /\ Fenced(r) = None <=> r = None
         /\ r # None => Fenced(r).addr = r.addr /\ Fenced(r).svcs = r.svcs
         /\ Sound(n, r, prof, miss) => Sound(n, Fenced(r), prof, miss)
<1>1. CASE r = None \/ ~r.stale
  BY <1>1 DEF Fenced
<1>2. CASE r # None /\ r.stale
  <2> DEFINE q == [r EXCEPT !.healthy = FALSE, !.sched = FALSE,
                            !.reason = IF r.reason = "" THEN "timeout" ELSE r.reason]
  <2>1. Fenced(r) = q
    BY <1>2 DEF Fenced
  <2>2. /\ q \in NodeState /\ q.addr = r.addr /\ q.svcs = r.svcs /\ ~q.sched /\ q.drain = r.drain
        /\ q.stale = r.stale /\ q.reason = IF r.reason = "" THEN "timeout" ELSE r.reason
    BY <1>2 DEF NodeState
  <2>3. q # None
    BY <2>2, NodeRegistryAssumption
  <2> HIDE DEF q
  <2> QED
    BY <1>2, <2>1, <2>2, <2>3 DEF Sound, Explained, Applied
<1> QED
  BY <1>1, <1>2

\* A record as it is taken up by a request: known or new, heard of, with services.
Heard(n, addr, sv) ==
  LET old == IF Known(n) THEN rec[n] ELSE Bare
  IN  [old EXCEPT !.addr = addr, !.healthy = TRUE, !.stale = FALSE, !.svcs = sv]

\* A record that has just been heard of is typed, sound and says what was reported.
LEMMA HeardFacts ==
  ASSUME Types, NEW n \in Nodes, NEW addr \in BOOLEAN,
         NEW sv \in [Services -> Status \cup {"lost"}],
         Explained(n, rec[n], missed), Known(n) /\ rec[n].addr => addr
  PROVE  /\ Heard(n, addr, sv) \in NodeState /\ Heard(n, addr, sv).addr = addr
         /\ Heard(n, addr, sv).svcs = sv
         /\ Explained(n, Heard(n, addr, sv), missed)
<1> DEFINE old == IF Known(n) THEN rec[n] ELSE Bare
           q == [old EXCEPT !.addr = addr, !.healthy = TRUE, !.stale = FALSE, !.svcs = sv]
<1>1. Bare \in NodeState
  BY DEF Bare, NodeState, NoServices, Status
<1>2. old \in NodeState /\ Explained(n, old, missed) /\ (old.addr => addr)
  <2>1. CASE Known(n)
    BY <2>1 DEF Types, Known
  <2>2. CASE ~Known(n)
    BY <1>1, <2>2 DEF Explained, Bare
  <2> QED
    BY <2>1, <2>2
<1>3. old # None
  BY <1>2, NodeRegistryAssumption
<1> HIDE DEF old
<1>4. /\ q \in NodeState /\ q.addr = addr /\ q.svcs = sv /\ q.stale = FALSE
      /\ q.reason = old.reason /\ q.sched = old.sched
  BY <1>2 DEF NodeState
<1>5. Explained(n, q, missed)
  BY <1>2, <1>3, <1>4 DEF Explained
<1> QED
  BY <1>4, <1>5 DEF Heard, old

-----------------------------------------------------------------------------
(* The inductive invariant. *)

RecordsSound == \A n \in Nodes : Sound(n, rec[n], profile, missed)
Inv == Types /\ RecordsSound /\ IndexExact /\ OneInstancePerAddr

\* A step that keeps which nodes are known with an address, and their services.
LEMMA SameNodes ==
  ASSUME Inv, index' = index,
         \A n \in Nodes : (rec'[n] = None <=> rec[n] = None)
                          /\ (rec[n] # None => rec'[n].addr = rec[n].addr /\ Named(rec'[n]) = Named(rec[n]))
  PROVE  IndexExact' /\ OneInstancePerAddr'
<1>1. \A n \in Nodes : Named(rec'[n]) = Named(rec[n])
  BY DEF Named
<1> QED
  BY <1>1 DEF Inv, IndexExact, OneInstancePerAddr, Known

\* The index after a record was replaced and the services it names with it.
LEMMA IndexStep ==
  ASSUME Inv, NEW n \in Nodes, NEW new, Named(rec'[n]) = Named(new),
         \A m \in Nodes \ {n} : rec'[m] = rec[m], index' = Reindexed(index, n, new)
  PROVE  IndexExact'
<1> SUFFICES ASSUME NEW s \in Services PROVE index'[s] = {m \in Nodes : s \in Named(rec'[m])}
  BY DEF IndexExact, Named
<1>1. index[s] = {m \in Nodes : s \in Named(rec[m])}
  BY DEF Inv, IndexExact
<1>2. index'[s] = (index[s] \ (IF s \in Named(rec[n]) THEN {n} ELSE {}))
                     \cup (IF s \in Named(new) THEN {n} ELSE {})
  BY DEF Reindexed
<1>3. \A m \in Nodes \ {n} : Named(rec'[m]) = Named(rec[m])
  OBVIOUS
<1> QED
  BY <1>1, <1>2, <1>3

\* A registration replaces the instances on its address (register_record).
LEMMA RegisterStep ==
  ASSUME Inv, NEW r \in wire, Register(r)
  PROVE  Inv'
<1> USE DEF Inv
<1> DEFINE n == r.node
           new == Registered(n, r.svcs)
<1>1. n \in Nodes /\ r.svcs \in [Services -> Status] /\ r.svcs \in [Services -> Status \cup {"lost"}]
  BY DEF Types, Requests
<1>2. new = Profiled(n, Heard(n, TRUE, r.svcs), profile)
  BY DEF Registered, Heard
<1>3. /\ new \in NodeState /\ new.addr /\ new.svcs = r.svcs /\ Sound(n, new, profile, missed)
      /\ new # None
  <2> DEFINE q == Heard(n, TRUE, r.svcs)
  <2>1. Explained(n, rec[n], missed) /\ profile \in [Addrs -> Profile]
    BY <1>1 DEF RecordsSound, Sound, Types
  <2>2. q \in NodeState /\ q.addr /\ q.svcs = r.svcs /\ Explained(n, q, missed)
    BY <1>1, <2>1, HeardFacts
  <2> HIDE DEF q, n
  <2> DEFINE put == Profiled(n, q, profile)
  <2>3. /\ put \in NodeState /\ put.addr = q.addr /\ put.svcs = q.svcs
        /\ Explained(n, q, missed) => Sound(n, put, profile, missed)
    BY <1>1, <2>1, <2>2, ProfiledFacts
  <2>4. new = put
    BY <1>2 DEF q
  <2> HIDE DEF put, new
  <2> QED
    BY <2>2, <2>3, <2>4, NodeRegistryAssumption
<1> HIDE DEF new
<1>4. /\ rec' = [m \in Nodes |-> IF m = n THEN new ELSE IF m \in Replaced(n) THEN None ELSE rec[m]]
      /\ index' = [s \in Services |-> Reindexed(index, n, rec'[n])[s]
                                        \ {m \in Replaced(n) : s \in Named(rec[m])}]
      /\ wire' \subseteq wire /\ UNCHANGED <<svcs, profile, missed>>
  BY DEF Register, new
<1> HIDE DEF n
<1>5. Types'
  <2>1. rec' \in [Nodes -> NodeState \cup {None}]
    BY <1>3, <1>4 DEF Types
  <2>2. index' \in [Services -> SUBSET Nodes]
    BY <1>1, <1>4 DEF Types, Reindexed
  <2> QED
    BY <1>4, <2>1, <2>2 DEF Types
<1>6. RecordsSound'
  BY <1>3, <1>4 DEF RecordsSound, Sound, Explained, Applied
<1>7. IndexExact'
  <2> SUFFICES ASSUME NEW s \in Services PROVE index'[s] = {m \in Nodes : s \in Named(rec'[m])}
    BY DEF IndexExact, Named
  <2>1. index[s] = {m \in Nodes : s \in Named(rec[m])}
    BY DEF IndexExact
  <2>2. rec'[n] = new /\ \A m \in Nodes \ {n} : rec'[m] = IF m \in Replaced(n) THEN None ELSE rec[m]
    BY <1>1, <1>4
  <2>3. index'[s] = ((index[s] \ (IF s \in Named(rec[n]) THEN {n} ELSE {}))
                       \cup (IF s \in Named(new) THEN {n} ELSE {}))
                     \ {m \in Replaced(n) : s \in Named(rec[m])}
    BY <1>4, <2>2 DEF Reindexed
  <2>4. n \notin Replaced(n) /\ Replaced(n) \subseteq Nodes
    BY DEF Replaced
  <2>5. \A m \in Nodes \ {n} : s \in Named(rec'[m]) <=> m \notin Replaced(n) /\ s \in Named(rec[m])
    BY <2>2 DEF Named
  <2> QED
    BY <1>1, <2>1, <2>2, <2>3, <2>4, <2>5
<1>8. OneInstancePerAddr'
  BY <1>1, <1>4 DEF OneInstancePerAddr, Known, Replaced
<1> QED
  BY <1>5, <1>6, <1>7, <1>8

\* A heartbeat makes or refreshes a record, or fences it (heartbeat_record).
LEMMA HeartbeatStep ==
  ASSUME Inv, NEW r \in wire, HeartbeatApply(r)
  PROVE  Inv'
<1> USE DEF Inv
<1> DEFINE n == r.node
           old == IF Known(n) THEN rec[n] ELSE Bare
           sv == IF r.inv THEN r.svcs ELSE old.svcs
           new == Heard(n, old.addr, sv)
<1>1. n \in Nodes /\ r.svcs \in [Services -> Status \cup {"lost"}]
  BY DEF Types, Requests
<1>2. Bare \in NodeState
  BY DEF Bare, NodeState, NoServices, Status
<1>3. old \in NodeState /\ old.addr \in BOOLEAN /\ sv \in [Services -> Status \cup {"lost"}]
  <2>1. old \in NodeState
    BY <1>1, <1>2 DEF Types, Known
  <2> HIDE DEF old
  <2> QED
    BY <1>1, <2>1 DEF NodeState
<1>4. /\ new \in NodeState /\ new.addr = old.addr /\ Explained(n, new, missed)
      /\ new = [old EXCEPT !.healthy = TRUE, !.stale = FALSE, !.svcs = sv]
  <2>1. /\ new \in NodeState /\ new.addr = old.addr /\ Explained(n, new, missed)
    BY <1>1, <1>3, HeardFacts DEF RecordsSound, Sound
  <2>2. new = [old EXCEPT !.healthy = TRUE, !.stale = FALSE, !.svcs = sv]
    <3>1. new = [old EXCEPT !.addr = old.addr, !.healthy = TRUE, !.stale = FALSE, !.svcs = sv]
      BY DEF Heard
    <3> HIDE DEF old, sv, new
    <3> QED
      BY <1>3, <3>1 DEF NodeState
  <2> QED
    BY <2>1, <2>2
<1> DEFINE put == Profiled(n, new, profile)
<1>5. /\ put \in NodeState /\ put # None /\ put.addr = old.addr /\ put.svcs = new.svcs
      /\ Sound(n, put, profile, missed)
  BY <1>1, <1>4, ProfiledFacts, NodeRegistryAssumption DEF Types
<1>6. /\ rec' = [rec EXCEPT ![n] = put] /\ index' = Reindexed(index, n, new)
      /\ wire' \subseteq wire /\ UNCHANGED <<svcs, profile, missed>>
  <2>1. rec' = [rec EXCEPT ![n] = Profiled(n, [old EXCEPT !.healthy = TRUE, !.stale = FALSE, !.svcs = sv], profile)]
        /\ index' = Reindexed(index, n, [old EXCEPT !.healthy = TRUE, !.stale = FALSE, !.svcs = sv])
    BY DEF HeartbeatApply
  <2>2. wire' \subseteq wire /\ UNCHANGED <<svcs, profile, missed>>
    BY DEF HeartbeatApply
  <2> QED
    BY <1>4, <2>1, <2>2
<1>7. new # None /\ (put.addr => Known(n) /\ rec[n].addr)
  <2>1. ~Known(n) => ~old.addr
    BY DEF Bare
  <2>2. Known(n) => old = rec[n]
    OBVIOUS
  <2> HIDE DEF old, new, put
  <2> QED
    BY <1>4, <1>5, <2>1, <2>2, NodeRegistryAssumption
<1> HIDE DEF put, new, old, sv, n
<1>8. rec'[n] = put /\ \A m \in Nodes \ {n} : rec'[m] = rec[m]
  BY <1>1, <1>6 DEF Types
<1>9. Types'
  <2>1. index' \in [Services -> SUBSET Nodes]
    BY <1>1, <1>6 DEF Types, Reindexed
  <2> QED
    BY <1>1, <1>5, <1>6, <2>1 DEF Types
<1>10. RecordsSound'
  BY <1>1, <1>5, <1>6, <1>8 DEF RecordsSound
<1>11. IndexExact'
  <2>1. Named(rec'[n]) = Named(new)
    BY <1>5, <1>7, <1>8 DEF Named
  <2> QED
    BY <1>1, <1>6, <1>8, <2>1, IndexStep
<1>12. OneInstancePerAddr'
  BY <1>1, <1>7, <1>8 DEF OneInstancePerAddr, Known
<1> QED
  BY <1>9, <1>10, <1>11, <1>12

\* What the InfoCenter does without a request of a registrar.
LEMMA CenterStep ==
  ASSUME Inv, (\E r \in wire : HeartbeatLook(r)) \/ Query \/ RestartCenter
              \/ \E n \in Nodes : MarkNodeLost(n) \/ LeaseLapse(n)
  PROVE  Inv'
<1> USE DEF Inv
<1>1. CASE (\E r \in wire : HeartbeatLook(r)) \/ Query
  <2>1. /\ rec' = [n \in Nodes |-> Fenced(rec[n])] /\ UNCHANGED <<svcs, index, profile, missed>>
    BY <1>1 DEF HeartbeatLook, Query, FenceAll
  <2>2. wire' \subseteq Requests
    <3>1. ASSUME NEW r \in wire, HeartbeatLook(r)
          PROVE  wire' \subseteq Requests
      <4>1. [r EXCEPT !.known = Known(r.node)] \in Requests
        BY DEF Types, Requests, Known
      <4> QED
        BY <3>1, <4>1 DEF HeartbeatLook, Types
    <3>2. CASE Query
      BY <3>2 DEF Query, Types
    <3> QED
      BY <1>1, <3>1, <3>2
  <2>3. ASSUME NEW n \in Nodes
        PROVE  /\ rec'[n] = Fenced(rec[n]) /\ rec'[n] \in NodeState \cup {None}
               /\ rec'[n] = None <=> rec[n] = None
               /\ rec[n] # None => rec'[n].addr = rec[n].addr /\ Named(rec'[n]) = Named(rec[n])
               /\ Sound(n, rec'[n], profile, missed)
    <3>1. rec'[n] = Fenced(rec[n])
      BY <2>1
    <3>2. Sound(n, rec[n], profile, missed) /\ rec[n] \in NodeState \cup {None}
      BY DEF RecordsSound, Types
    <3> QED
      BY <3>1, <3>2, FencedFacts DEF Named
  <2>4. IndexExact' /\ OneInstancePerAddr'
    BY <2>1, <2>3, SameNodes
  <2>5. Types' /\ RecordsSound'
    BY <2>1, <2>2, <2>3 DEF Types, RecordsSound
  <2> QED
    BY <2>4, <2>5
<1>2. CASE RestartCenter
  <2>1. /\ rec' = [n \in Nodes |-> None] /\ index' = [s \in Services |-> {}]
        /\ UNCHANGED <<svcs, wire, profile>>
    BY <1>2 DEF RestartCenter
  <2> QED
    BY <2>1 DEF Types, RecordsSound, Sound, Explained, Applied, IndexExact, Named, OneInstancePerAddr, Known
<1>3. ASSUME NEW n \in Nodes, MarkNodeLost(n) \/ LeaseLapse(n)
      PROVE  Inv'
  <2>1. PICK new : /\ rec' = [rec EXCEPT ![n] = new]
                   /\ \/ new = [rec[n] EXCEPT !.healthy = FALSE, !.sched = FALSE, !.stale = TRUE,
                                  !.reason = "lost",
                                  !.svcs = [s \in Services |-> IF s \in Named(rec[n]) THEN "lost" ELSE "none"]]
                      \/ new = [rec[n] EXCEPT !.stale = TRUE]
    BY <1>3 DEF MarkNodeLost, LeaseLapse
  <2>2. rec[n] # None /\ rec[n] \in NodeState
    BY <1>3 DEF MarkNodeLost, LeaseLapse, Known, Types
  <2>3. missed' = missed \cup {n} /\ UNCHANGED <<svcs, wire, index, profile>>
    BY <1>3 DEF MarkNodeLost, LeaseLapse
  <2>4. /\ new \in NodeState /\ new.addr = rec[n].addr /\ new.drain = rec[n].drain
        /\ \/ new.reason = "lost" /\ ~new.sched
           \/ new.reason = rec[n].reason /\ new.sched = rec[n].sched
    <3>1. CASE new = [rec[n] EXCEPT !.stale = TRUE]
      BY <2>2, <3>1 DEF NodeState
    <3>2. CASE new = [rec[n] EXCEPT !.healthy = FALSE, !.sched = FALSE, !.stale = TRUE,
                                    !.reason = "lost",
                                    !.svcs = [s \in Services |-> IF s \in Named(rec[n]) THEN "lost" ELSE "none"]]
      BY <2>2, <3>2 DEF NodeState, Status
    <3> QED
      BY <2>1, <3>1, <3>2
  <2>5. new # None
    BY <2>4, NodeRegistryAssumption
  <2>6. Named(new) = Named(rec[n])
    <3>1. CASE new = [rec[n] EXCEPT !.stale = TRUE]
      BY <2>2, <2>5, <3>1 DEF NodeState, Named
    <3>2. CASE new = [rec[n] EXCEPT !.healthy = FALSE, !.sched = FALSE, !.stale = TRUE,
                                    !.reason = "lost",
                                    !.svcs = [s \in Services |-> IF s \in Named(rec[n]) THEN "lost" ELSE "none"]]
      <4>1. new.svcs = [s \in Services |-> IF s \in Named(rec[n]) THEN "lost" ELSE "none"]
        BY <2>2, <3>2 DEF NodeState
      <4> QED
        BY <2>5, <4>1 DEF Named
    <3> QED
      BY <2>1, <3>1, <3>2
  <2>7. rec'[n] = new /\ \A m \in Nodes \ {n} : rec'[m] = rec[m]
    BY <2>1 DEF Types
  <2>8. Sound(n, new, profile, missed')
    BY <2>2, <2>3, <2>4 DEF RecordsSound, Sound, Explained, Applied
  <2>9. RecordsSound'
    <3> SUFFICES ASSUME NEW m \in Nodes PROVE Sound(m, rec'[m], profile', missed')
      BY DEF RecordsSound, Sound, Explained, Applied
    <3>1. Sound(m, rec[m], profile, missed)
      BY DEF RecordsSound
    <3>2. CASE m = n
      BY <2>3, <2>7, <2>8, <3>2
    <3>3. CASE m # n
      BY <2>3, <2>7, <3>1, <3>3 DEF Sound, Explained, Applied
    <3> QED
      BY <3>2, <3>3
  <2>10. Types'
    BY <2>1, <2>3, <2>4 DEF Types
  <2>11. IndexExact' /\ OneInstancePerAddr'
    BY <2>2, <2>3, <2>4, <2>5, <2>6, <2>7, SameNodes
  <2> QED
    BY <2>9, <2>10, <2>11
<1> QED
  BY <1>1, <1>2, <1>3

\* An operator changes a profile, which goes to every instance on the address.
LEMMA ProfileStep ==
  ASSUME Inv, NEW a \in Addrs, NEW p \in Profile, UpdateProfile(a, p)
  PROVE  Inv'
<1> USE DEF Inv
<1>1. /\ profile' = [profile EXCEPT ![a] = p] /\ profile' \in [Addrs -> Profile]
      /\ UNCHANGED <<svcs, wire, index, missed>>
  BY DEF UpdateProfile, Types
<1>2. ASSUME NEW n \in Nodes
      PROVE  /\ rec'[n] \in NodeState \cup {None}
             /\ rec'[n] = None <=> rec[n] = None
             /\ rec[n] # None => rec'[n].addr = rec[n].addr /\ Named(rec'[n]) = Named(rec[n])
             /\ Sound(n, rec'[n], profile', missed)
  <2>1. Sound(n, rec[n], profile, missed) /\ rec[n] \in NodeState \cup {None} /\ AddrOf[n] \in Addrs
    BY NodeRegistryAssumption DEF RecordsSound, Types
  <2>2. CASE Known(n) /\ AddrOf[n] = a
    <3>1. rec'[n] = Profiled(n, rec[n], profile') /\ rec[n] \in NodeState
      BY <2>1, <2>2 DEF UpdateProfile, Known
    <3> DEFINE put == Profiled(n, rec[n], profile')
    <3>2. /\ put \in NodeState /\ put.addr = rec[n].addr /\ put.svcs = rec[n].svcs
          /\ Explained(n, rec[n], missed) => Sound(n, put, profile', missed)
      BY <1>1, <3>1, ProfiledFacts, ZenonT(60)
    <3>3. put # None /\ rec[n] # None /\ rec'[n] = put
      BY <2>2, <3>1, <3>2, NodeRegistryAssumption DEF Known
    <3>4. Named(put) = Named(rec[n])
      BY <3>2, <3>3 DEF Named
    <3>5. Sound(n, put, profile', missed)
      BY <2>1, <3>2 DEF Sound
    <3> HIDE DEF put
    <3> QED
      BY <3>2, <3>3, <3>4, <3>5
  <2>3. CASE ~(Known(n) /\ AddrOf[n] = a)
    <3>1. rec'[n] = rec[n]
      BY <2>3 DEF UpdateProfile
    <3> QED
      BY <1>1, <2>1, <2>3, <3>1 DEF Sound, Explained, Applied, Known, Types
  <2> QED
    BY <2>2, <2>3
<1>3. rec' \in [Nodes -> NodeState \cup {None}]
  BY <1>2 DEF UpdateProfile
<1>4. RecordsSound' /\ Types'
  BY <1>1, <1>2, <1>3 DEF RecordsSound, Types
<1>5. IndexExact' /\ OneInstancePerAddr'
  BY <1>1, <1>2, SameNodes
<1> QED
  BY <1>4, <1>5

-----------------------------------------------------------------------------
(* The registrars, which leave the tables alone and send requests. *)

RegTypes == reg \in [Nodes -> [registered : BOOLEAN, force : BOOLEAN, due : BOOLEAN]]

\* An answer leaves the fields of a registrar typed.
LEMMA AnswerTypes ==
  ASSUME RegTypes, NEW r \in Requests, NEW a \in [ok : BOOLEAN, kind : {"register", "heartbeat"}, inv : BOOLEAN, need : BOOLEAN],
         Reply(r, a)
  PROVE  RegTypes'
<1>1. CASE r.from = "nobody"
  BY <1>1 DEF Reply, RegTypes
<1>2. CASE r.from # "nobody"
  <2> DEFINE g == Settled(reg[r.node], a)
             up_ == [g EXCEPT !.registered = g.registered /\ r.from # "close" /\ (r.from = "loop" => a.ok)]
  <2>1. g \in [registered : BOOLEAN, force : BOOLEAN, due : BOOLEAN]
    <3>1. reg[r.node] \in [registered : BOOLEAN, force : BOOLEAN, due : BOOLEAN]
      BY DEF RegTypes, Requests
    <3> QED
      BY <3>1 DEF Settled
  <2> HIDE DEF g
  <2>2. up_ \in [registered : BOOLEAN, force : BOOLEAN, due : BOOLEAN]
    BY <2>1
  <2>3. reg' = [reg EXCEPT ![r.node] = up_]
    BY <1>2 DEF Reply, Receive, g
  <2> HIDE DEF up_
  <2> QED
    BY <2>2, <2>3 DEF RegTypes
<1> QED
  BY <1>1, <1>2

\* No step spoils the fields of a registrar.
LEMMA RegStep ==
  ASSUME Inv, RegTypes, Next
  PROVE  RegTypes'
<1> USE DEF Inv
<1>0. wire \subseteq Requests
  BY DEF Types
<1>1. CASE Handler
  <2>1. ASSUME NEW r \in wire, Register(r)
        PROVE  RegTypes'
    <3> DEFINE a == [ok |-> TRUE, kind |-> r.kind, inv |-> TRUE, need |-> FALSE]
    <3>1. Reply(r, a) /\ a \in [ok : BOOLEAN, kind : {"register", "heartbeat"}, inv : BOOLEAN, need : BOOLEAN]
      BY <1>0, <2>1 DEF Register, Requests
    <3> QED
      BY <1>0, <3>1, AnswerTypes
  <2>2. ASSUME NEW r \in wire, HeartbeatApply(r)
        PROVE  RegTypes'
    <3> DEFINE a == [ok |-> TRUE, kind |-> r.kind, inv |-> r.inv, need |-> ~r.known /\ ~r.inv]
    <3>1. Reply(r, a) /\ a \in [ok : BOOLEAN, kind : {"register", "heartbeat"}, inv : BOOLEAN, need : BOOLEAN]
      BY <1>0, <2>2 DEF HeartbeatApply, Requests
    <3> QED
      BY <1>0, <3>1, AnswerTypes
  <2>3. ASSUME NEW r \in wire, HeartbeatLook(r)
        PROVE  RegTypes'
    BY <2>3 DEF HeartbeatLook, RegTypes
  <2> QED
    BY <1>1, <2>1, <2>2, <2>3 DEF Handler, Handled
<1>2. ASSUME NEW r \in wire, Lose(r) \/ TimeOut(r)
      PROVE  RegTypes'
  <2> DEFINE a == [ok |-> FALSE, kind |-> r.kind, inv |-> r.inv, need |-> FALSE]
  <2>1. Reply(r, a) /\ a \in [ok : BOOLEAN, kind : {"register", "heartbeat"}, inv : BOOLEAN, need : BOOLEAN]
    BY <1>0, <1>2 DEF Lose, TimeOut, Raised, Requests
  <2> QED
    BY <1>0, <2>1, AnswerTypes
<1>3. ASSUME NEW n \in Nodes, Registrar(n) \/ Process(n)
      PROVE  RegTypes'
  <2>1. CASE Registrar(n)
    <3>1. CASE SyncRegister(n) \/ SyncForced(n) \/ SyncAsync(n)
      <4>1. Drained(n)
        BY <3>1 DEF SyncRegister, SyncForced, SyncAsync
      <4>2. PICK b : reg' = [reg EXCEPT ![n].registered = reg[n].registered /\ b]
        BY <4>1 DEF Drained
      <4> QED
        BY <4>2 DEF RegTypes
    <3>2. CASE InventoryDue(n)
      BY <3>2 DEF InventoryDue, RegTypes
    <3> QED
      BY <2>1, <3>1, <3>2 DEF Registrar, Sync
  <2>2. CASE Process(n)
    <3>1. CASE \E s \in Services : ChangeService(n, s)
      BY <3>1 DEF ChangeService, RegTypes
    <3>2. CASE StartNode(n) \/ CloseNode(n)
      BY <3>2 DEF StartNode, CloseNode, RegTypes
    <3>3. CASE StopNode(n) \/ CrashNode(n)
      <4>1. reg' = [reg EXCEPT ![n] = [registered |-> FALSE, force |-> TRUE, due |-> TRUE]]
        BY <3>3 DEF StopNode, CrashNode, End
      <4> QED
        BY <4>1 DEF RegTypes
    <3> QED
      BY <2>2, <3>1, <3>2, <3>3 DEF Process
  <2> QED
    BY <1>3, <2>1, <2>2
<1>4. CASE Query \/ Operator \/ RestartCenter \/ \E n \in Nodes : LeaseLapse(n)
  BY <1>4 DEF Query, Operator, MarkNodeLost, UpdateProfile, RestartCenter, LeaseLapse, RegTypes
<1> QED
  BY <1>1, <1>2, <1>3, <1>4 DEF Next, Fault

\* What a registrar sends is a request.
LEMMA SendTypes ==
  ASSUME Types, NEW n \in Nodes, NEW t \in Threads, NEW kind \in {"register", "heartbeat"},
         NEW inv \in BOOLEAN, svcs' \in [Nodes -> [Services -> Status]], Send(n, t, kind, inv)
  PROVE  wire' \subseteq Requests
<1>1. Request(n, t, kind, inv) \in Requests
  BY DEF Request, Requests, NoServices, Status
<1> QED
  BY <1>1 DEF Send, Types

\* What no other step touches.
Untouched == UNCHANGED <<rec, index, profile, missed>>

\* A step that leaves the tables of the InfoCenter alone keeps the invariant.
LEMMA UntouchedStep ==
  ASSUME Inv, Untouched, svcs' \in [Nodes -> [Services -> Status]], wire' \subseteq Requests
  PROVE  Inv'
BY DEF Inv, Untouched, Types, RecordsSound, Sound, Explained, Applied, IndexExact, Named,
   OneInstancePerAddr, Known

\* The steps of nodes and of the network leave the tables of the InfoCenter alone.
LEMMA NodeStep ==
  ASSUME Inv, RegTypes,
         (\E n \in Nodes : Registrar(n) \/ Process(n)) \/ \E r \in wire : Lose(r) \/ TimeOut(r)
  PROVE  Inv'
<1> USE DEF Inv
<1>0. svcs \in [Nodes -> [Services -> Status]] /\ wire \subseteq Requests
  BY DEF Types
<1>1. ASSUME NEW n \in Nodes, Registrar(n)
      PROVE  Inv'
  <2>1. UNCHANGED <<rec, index, profile, missed, svcs>>
    BY <1>1 DEF Registrar, Sync, SyncRegister, SyncForced, SyncAsync, InventoryDue
  <2>2. wire' = wire \/ \E t \in Threads, kind \in {"register", "heartbeat"} :
                          Send(n, t, kind, TRUE) \/ Send(n, t, kind, reg[n].due)
    BY <1>1 DEF Registrar, Sync, SyncRegister, SyncForced, SyncAsync, InventoryDue, Threads
  <2>3. reg[n].due \in BOOLEAN
    BY DEF RegTypes
  <2>4. wire' \subseteq Requests
    BY <1>0, <2>1, <2>2, <2>3, SendTypes
  <2> QED
    BY <1>0, <2>1, <2>4, UntouchedStep DEF Untouched
<1>2. ASSUME NEW r \in wire, Lose(r) \/ TimeOut(r)
      PROVE  Inv'
  <2>1. UNCHANGED <<rec, index, profile, missed, svcs>>
    BY <1>2 DEF Lose, TimeOut
  <2>2. [r EXCEPT !.from = "nobody"] \in Requests
    BY <1>0 DEF Requests
  <2>3. wire' \subseteq Requests
    BY <1>0, <1>2, <2>2 DEF Lose, TimeOut
  <2> QED
    BY <1>0, <2>1, <2>3, UntouchedStep DEF Untouched
<1>3. ASSUME NEW n \in Nodes, Process(n)
      PROVE  Inv'
  <2>1. CASE StartNode(n)
    BY <1>0, <2>1, UntouchedStep DEF StartNode, Untouched
  <2>2. ASSUME NEW s \in Services, ChangeService(n, s)
        PROVE  Inv'
    <3>1. NextStatus[svcs[n][s]] \in Status
      BY <1>0 DEF Status, NextStatus
    <3>2. svcs' \in [Nodes -> [Services -> Status]]
      BY <1>0, <2>2, <3>1 DEF ChangeService
    <3> QED
      BY <1>0, <2>2, <3>2, UntouchedStep DEF ChangeService, Untouched
  <2>3. CASE CloseNode(n)
    <3>1. svcs' \in [Nodes -> [Services -> Status]]
      BY <1>0, <2>3 DEF CloseNode, Status
    <3>2. wire' \subseteq Requests
      BY <1>0, <2>3, <3>1, SendTypes DEF CloseNode, Threads
    <3> QED
      BY <2>3, <3>1, <3>2, UntouchedStep DEF CloseNode, Untouched
  <2>4. ASSUME NEW cost, End(n, cost)
        PROVE  Inv'
    <3>1. svcs' \in [Nodes -> [Services -> Status]]
      BY <1>0, <2>4 DEF End, NoServices, Status
    <3>2. \A r \in wire : [r EXCEPT !.from = "nobody"] \in Requests
      BY <1>0 DEF Requests
    <3>3. wire' \subseteq Requests
      BY <1>0, <2>4, <3>2 DEF End
    <3> QED
      BY <2>4, <3>1, <3>3, UntouchedStep DEF End, Untouched
  <2> QED
    BY <1>3, <2>1, <2>2, <2>3, <2>4 DEF Process, StopNode, CrashNode
<1> QED
  BY <1>1, <1>2, <1>3

-----------------------------------------------------------------------------
(* The invariant and what follows from it. *)

\* Every step keeps the invariant.
LEMMA InvStep ==
  ASSUME Inv, RegTypes, Next
  PROVE  Inv' /\ RegTypes'
<1> SUFFICES Inv'
  BY RegStep
<1>1. CASE Handler
  <2>1. PICK r \in wire : Handled(r)
    BY <1>1 DEF Handler
  <2>2. CASE Register(r)
    BY <2>2, RegisterStep
  <2>3. CASE HeartbeatApply(r)
    BY <2>3, HeartbeatStep
  <2>4. CASE HeartbeatLook(r)
    BY <2>1, <2>4, CenterStep
  <2> QED
    BY <2>1, <2>2, <2>3, <2>4 DEF Handled
<1>2. CASE Operator
  <2>1. CASE \E n \in Nodes : MarkNodeLost(n)
    BY <2>1, CenterStep
  <2>2. CASE \E a \in Addrs, e, d \in BOOLEAN : UpdateProfile(a, [enabled |-> e, drain |-> d])
    <3>1. \A e, d \in BOOLEAN : [enabled |-> e, drain |-> d] \in Profile
      BY DEF Profile
    <3>2. PICK a \in Addrs, p \in Profile : UpdateProfile(a, p)
      BY <2>2, <3>1
    <3> QED
      BY <3>2, ProfileStep
  <2> QED
    BY <1>2, <2>1, <2>2 DEF Operator
<1>3. CASE Query \/ RestartCenter \/ \E n \in Nodes : LeaseLapse(n)
  BY <1>3, CenterStep
<1>4. CASE (\E n \in Nodes : Registrar(n) \/ Process(n)) \/ \E r \in wire : Lose(r) \/ TimeOut(r)
  BY <1>4, NodeStep
<1> QED
  BY <1>1, <1>2, <1>3, <1>4 DEF Next, Fault

\* The invariant holds at the start, with any profiles in the file.
LEMMA InvInit == Init => Inv /\ RegTypes
<1> SUFFICES ASSUME Init PROVE Inv /\ RegTypes
  OBVIOUS
<1>1. profile \in [Addrs -> Profile]
  BY NodeRegistryAssumption DEF Init
<1>2. Types /\ RegTypes
  BY <1>1 DEF Init, Types, RegTypes, NoServices, Status
<1> QED
  BY <1>2 DEF Init, Inv, RecordsSound, Sound, Explained, Applied, IndexExact, Named,
     OneInstancePerAddr, Known

\* The invariant always holds.
LEMMA InvHolds == Spec => [](Inv /\ RegTypes)
<1>1. Inv /\ RegTypes /\ UNCHANGED vars => Inv' /\ RegTypes'
  BY UntouchedStep DEF vars, Untouched, Inv, Types, RegTypes
<1>2. Inv /\ RegTypes /\ [Next]_vars => Inv' /\ RegTypes'
  BY <1>1, InvStep
<1> QED
  BY <1>2, InvInit, PTL DEF Spec

\* No two instances of a node are known on one control address, whatever requests
\* come late or twice (_prune_replaced_nodes_locked).
THEOREM OneInstance == Spec => []OneInstancePerAddr
BY InvHolds, PTL DEF Inv

\* The index of a service names exactly the nodes that report it, across
\* registrations, replacements, lost nodes and restarts (_reindex_node_services_locked).
THEOREM IndexIsExact == Spec => []IndexExact
BY InvHolds, PTL DEF Inv

\* Whatever instance is on an address goes by what the operator asked of it
\* (_apply_profile_locked).
THEOREM ProfilesApply == Spec => []ProfileApplied
<1>1. Inv => ProfileApplied
  BY DEF Inv, RecordsSound, Sound, Applied, ProfileApplied, Known
<1> QED
  BY <1>1, InvHolds, PTL

\* A node is out of schedule only while its profile is disabled or after it missed
\* a lease or was marked lost: uncordoning undoes cordoning (update_node_profile).
THEOREM CordonsAreUndone == Spec => []CordonUndone
<1>1. Inv => CordonUndone
  <2> SUFFICES ASSUME Inv, NEW n \in Nodes, Known(n), rec[n].addr, ~rec[n].sched,
                      profile[AddrOf[n]].enabled
               PROVE  n \in missed
    BY DEF CordonUndone
  <2>1. Sound(n, rec[n], profile, missed) /\ rec[n] \in NodeState
    BY DEF Inv, RecordsSound, Types, Known
  <2> QED
    BY <2>1 DEF Sound, Explained, Applied, Known, NodeState
<1> QED
  BY <1>1, InvHolds, PTL

=============================================================================
