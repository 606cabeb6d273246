--------------------------- MODULE NodePoolProofs ---------------------------
(***************************************************************************)
(* Proofs about NodePool for every value of its constants, with or without *)
(* crashes of hosts: the queue capacity, the active index, whose each      *)
(* reservation is, and that an ended task is answered once.                *)
(***************************************************************************)
EXTENDS NodePool, FiniteSetTheorems, TLAPS

-----------------------------------------------------------------------------
(* The inductive invariant. *)

\* The number of backends is bounded for TLC only, and no property needs it.
Events  == [gen : Nat, pool : PoolIds, task : TaskIds, rec : Nat, st : Outcomes]
Flights == [gen : Nat, pool : PoolIds, task : TaskIds, rec : Nat]

Submits == [op : {"submit"}, pool : PoolIds, todo : SUBSET TaskIds, item : TaskIds \cup {None},
            rec : Nat, pc : {"prep", "send", "undo"}]
Pulls   == [op : {"pull"}, got : SUBSET TaskIds]
Drains  == [op : {"drain"}, pc : {"take", "next", "push"}, gen : Nat, batch : SUBSET Events,
            snap : Snapshots \cup {None}]

\* What a thread is doing: a submit call has an item from its record on, a drain
\* a snapshot until it has queued the result.
ThreadSound(x) ==
  /\ x \in {Idle} \cup Submits \cup Pulls \cup Drains
  /\ x.op = "submit" => (x.pc = "prep" <=> x.item = None)
  /\ x.op = "drain" => (x.pc = "push" <=> x.snap # None)

TypeThreads == thr \in [Threads -> {Idle} \cup Submits \cup Pulls \cup Drains]
               /\ \A h \in Threads : ThreadSound(thr[h])
TypeHosts == /\ backend \in Nat /\ gens \in Nat
             /\ reb # None => reb \in [old : Nat, targets : SUBSET PoolIds, failed : SUBSET PoolIds,
                                       pc : {"build", "install"}]
             /\ run \subseteq Flights /\ ev \subseteq Events
TypeTables == /\ tasks \in [TaskIds -> {None} \cup TaskState]
              /\ results \in [PoolIds -> SUBSET Result]
              /\ records \in 0..MaxRecords /\ answers \in [Records -> Nat]
Types == TypeTables /\ TypeThreads /\ TypeHosts

\* The items a submit call has reserved and not dealt with.
Pending(h) == IF thr[h].op = "submit" THEN thr[h].todo \ {thr[h].item} ELSE {}

\* Each reservation belongs to one submit call.
Owned == /\ reserved = UNION {Pending(h) : h \in Threads}
         /\ \A g, h \in Threads : g # h => Pending(g) \cap Pending(h) = {}

InTable(t) == tasks[t] # None
Ended(t)   == tasks[t].status \in Terminal
Snapped(h) == thr[h].op = "drain" /\ thr[h].snap # None

\* A record is of one task and has no answer before its task has ended; no two
\* drains are about to answer the same one, and nobody else will.
RecordsSound ==
  /\ \A t \in TaskIds : InTable(t) => tasks[t].rec <= records
  /\ \A t, u \in TaskIds : InTable(t) /\ InTable(u) /\ tasks[t].rec = tasks[u].rec => t = u
  /\ \A t \in TaskIds : InTable(t) /\ ~Ended(t) => answers[tasks[t].rec] = 0
  /\ \A r \in Records : r > records => answers[r] = 0
SnapsSound ==
  /\ \A h \in Threads : Snapped(h) => thr[h].snap.rec <= records /\ answers[thr[h].snap.rec] = 0
  /\ \A h \in Threads, t \in TaskIds :
       Snapped(h) /\ InTable(t) /\ tasks[t].rec = thr[h].snap.rec =>
         t = thr[h].snap.task /\ tasks[t].pool = thr[h].snap.pool /\ Ended(t)
  /\ \A g, h \in Threads : Snapped(g) /\ Snapped(h) /\ thr[g].snap.rec = thr[h].snap.rec => g = h

Inv == Types /\ Owned /\ OccupancyExact /\ RecordsSound /\ SnapsSound /\ AnswersExact

-----------------------------------------------------------------------------
(* The threads. *)

\* What a thread is when it does a given thing.
LEMMA ThreadCases ==
  ASSUME NEW x, ThreadSound(x)
  PROVE  /\ x.op = "submit" => x \in Submits
         /\ x.op = "pull" => x \in Pulls
         /\ x.op = "drain" => x \in Drains
         /\ x = Idle => x.op = "idle"
BY DEF ThreadSound, Submits, Pulls, Drains, Idle

\* One thread does something, and stays a thread.
LEMMA ThreadPut ==
  ASSUME TypeThreads, NEW h \in Threads, NEW x, ThreadSound(x), thr' = [thr EXCEPT ![h] = x]
  PROVE  TypeThreads' /\ thr'[h] = x /\ \A g \in Threads \ {h} : thr'[g] = thr[g]
BY DEF TypeThreads, ThreadSound

\* An idle thread is sound.
LEMMA IdleSound == ThreadSound(Idle)
BY DEF ThreadSound, Idle

\* A submit call that is done with an item.
LEMMA NextItemFacts ==
  ASSUME TypeThreads, NEW h \in Threads, thr[h].op = "submit", thr[h].pc # "prep", NextItem(h)
  PROVE  TypeThreads' /\ (\A g \in Threads : Pending(g)' = Pending(g)) /\ thr'[h].op # "drain"
         /\ thr'[h].op # "pull" /\ \A g \in Threads \ {h} : thr'[g] = thr[g]
<1> DEFINE left == thr[h].todo \ {thr[h].item}
           x == IF left = {} THEN Idle
                ELSE [thr[h] EXCEPT !.todo = left, !.item = None, !.rec = 0, !.pc = "prep"]
<1>1. thr[h] \in Submits
  BY ThreadCases DEF TypeThreads
<1>2. thr' = [thr EXCEPT ![h] = x]
  BY DEF NextItem
<1>3. CASE left = {}
  <2>1. thr' = [thr EXCEPT ![h] = Idle]
    BY <1>2, <1>3
  <2>2. TypeThreads' /\ thr'[h] = Idle /\ \A g \in Threads \ {h} : thr'[g] = thr[g]
    BY <2>1, IdleSound, ThreadPut
  <2> QED
    BY <1>3, <2>2 DEF Pending, Idle
<1>4. CASE left # {}
  <2> DEFINE y == [thr[h] EXCEPT !.todo = left, !.item = None, !.rec = 0, !.pc = "prep"]
  <2>1. y \in Submits /\ y.op = "submit" /\ y.item = None /\ y.pc = "prep" /\ y.todo = left
    BY <1>1 DEF Submits
  <2>2. ThreadSound(y)
    BY <2>1 DEF ThreadSound
  <2>3. thr' = [thr EXCEPT ![h] = y]
    BY <1>2, <1>4
  <2> HIDE DEF y
  <2>4. TypeThreads' /\ thr'[h] = y /\ \A g \in Threads \ {h} : thr'[g] = thr[g]
    BY <2>2, <2>3, ThreadPut
  <2>5. left \subseteq TaskIds /\ None \notin left
    BY <1>1, NodePoolAssumption DEF Submits
  <2> QED
    BY <2>1, <2>4, <2>5 DEF Pending
<1> QED
  BY <1>3, <1>4

\* A drain that is done with an event, whose task's snapshot it keeps or not.
LEMMA AfterEventFacts ==
  ASSUME TypeThreads, NEW h \in Threads, thr[h].op = "drain", NEW e \in thr[h].batch,
         NEW s \in Snapshots \cup {None}, thr' = [thr EXCEPT ![h] = AfterEvent(h, e, s)]
  PROVE  TypeThreads' /\ (\A g \in Threads : Pending(g)' = Pending(g))
         /\ (\A g \in Threads \ {h} : thr'[g] = thr[g])
         /\ (Snapped(h)' <=> s # None) /\ (s # None => thr'[h].snap = s) /\ thr'[h].op # "pull"
<1>1. thr[h] \in Drains
  BY ThreadCases DEF TypeThreads
<1>2. CASE s = None /\ thr[h].batch = {e}
  <2>1. thr' = [thr EXCEPT ![h] = Idle]
    BY <1>2 DEF AfterEvent
  <2>2. TypeThreads' /\ thr'[h] = Idle /\ \A g \in Threads \ {h} : thr'[g] = thr[g]
    BY <2>1, IdleSound, ThreadPut
  <2> QED
    BY <1>2, <2>2 DEF Pending, Idle, Snapped
<1>3. CASE ~(s = None /\ thr[h].batch = {e})
  <2> DEFINE y == [thr[h] EXCEPT !.batch = thr[h].batch \ {e}, !.snap = s,
                                 !.pc = IF s = None THEN "next" ELSE "push"]
  <2>1. y \in Drains /\ y.op = "drain" /\ y.snap = s /\ y.pc = IF s = None THEN "next" ELSE "push"
    BY <1>1 DEF Drains
  <2>2. ThreadSound(y)
    BY <2>1 DEF ThreadSound
  <2>3. thr' = [thr EXCEPT ![h] = y]
    BY <1>3 DEF AfterEvent
  <2> HIDE DEF y
  <2>4. TypeThreads' /\ thr'[h] = y /\ \A g \in Threads \ {h} : thr'[g] = thr[g]
    BY <2>2, <2>3, ThreadPut
  <2> QED
    BY <2>1, <2>4 DEF Pending, Snapped
<1> QED
  BY <1>2, <1>3

\* What a step does to the threads as far as the tables go by it.
PendSame  == \A g \in Threads : Pending(g)' = Pending(g)
SnapsSame == \A g \in Threads : /\ Snapped(g)' <=> Snapped(g)
                                /\ Snapped(g) => thr'[g].snap = thr[g].snap
PullsKept == \A g \in Threads : thr[g].op = "pull" => thr'[g] = thr[g]

\* A thread without a snapshot goes on to something without one.
LEMMA ThreadQuiet ==
  ASSUME TypeThreads, NEW h \in Threads, NEW x, ThreadSound(x), thr' = [thr EXCEPT ![h] = x],
         ~Snapped(h), x.op = "drain" => x.snap = None, thr[h].op = "pull" => FALSE
  PROVE  TypeThreads' /\ SnapsSame /\ PullsKept /\ thr'[h] = x /\ \A g \in Threads \ {h} : thr'[g] = thr[g]
BY ThreadPut DEF Snapped, SnapsSame, PullsKept

\* The steps of submit_pool_tasks: what becomes of the call, and of its items.
LEMMA ReserveThreads ==
  ASSUME TypeThreads, NEW h \in Threads,
         NEW p \in PoolIds, NEW S \in SUBSET TaskIds, NEW R \in SUBSET TaskIds, SubReserve(h, p, S, R)
  PROVE  TypeThreads' /\ SnapsSame /\ PullsKept /\ Pending(h) = {} /\ Pending(h)' = R
         /\ \A g \in Threads \ {h} : Pending(g)' = Pending(g)
<1> DEFINE x == [op |-> "submit", pool |-> p, todo |-> R, item |-> None, rec |-> 0, pc |-> "prep"]
<1>1. thr[h].op = "idle" /\ thr' = [thr EXCEPT ![h] = x]
  BY DEF SubReserve, Idle
<1>2. ThreadSound(x) /\ x.op = "submit" /\ x.todo = R /\ x.item = None
  BY DEF ThreadSound, Submits
<1>3. None \notin R
  BY NodePoolAssumption
<1> HIDE DEF x
<1>4. TypeThreads' /\ SnapsSame /\ PullsKept /\ thr'[h] = x /\ \A g \in Threads \ {h} : thr'[g] = thr[g]
  BY <1>1, <1>2, ThreadQuiet DEF Snapped
<1> QED
  BY <1>1, <1>2, <1>3, <1>4 DEF Pending, Idle

\* A submit call turns a reservation into a record, or gives it up.
LEMMA ItemThreads ==
  ASSUME TypeThreads, NEW h \in Threads,
         NEW t \in TaskIds, SubInstall(h, t) \/ SubReject(h, t), records \in Nat
  PROVE  TypeThreads' /\ SnapsSame /\ PullsKept
         /\ t \in Pending(h) /\ Pending(h)' = Pending(h) \ {t}
         /\ \A g \in Threads \ {h} : Pending(g)' = Pending(g)
<1>1. thr[h] \in Submits /\ thr[h].op = "submit" /\ thr[h].pc = "prep" /\ t \in thr[h].todo
  BY ThreadCases DEF SubInstall, SubReject, TypeThreads
<1>2. thr[h].item = None /\ thr[h].todo \subseteq TaskIds
  BY <1>1 DEF TypeThreads, ThreadSound, Submits
<1>3. t \in Pending(h) /\ Pending(h) = thr[h].todo /\ ~Snapped(h)
  BY <1>1, <1>2, NodePoolAssumption DEF Pending, Snapped
<1>4. CASE SubInstall(h, t)
  <2>0. PICK n \in Nat : n = records + 1
    OBVIOUS
  <2> DEFINE x == [thr[h] EXCEPT !.item = t, !.rec = n, !.pc = "send"]
  <2>1. x \in Submits /\ x.op = "submit" /\ x.item = t /\ x.todo = thr[h].todo /\ x.pc = "send"
    BY <1>1 DEF Submits
  <2>2. ThreadSound(x)
    BY <2>1, NodePoolAssumption DEF ThreadSound
  <2>3. thr' = [thr EXCEPT ![h] = x]
    BY <1>4, <2>0 DEF SubInstall
  <2> HIDE DEF x
  <2>4. TypeThreads' /\ SnapsSame /\ PullsKept /\ thr'[h] = x /\ \A g \in Threads \ {h} : thr'[g] = thr[g]
    BY <1>1, <1>3, <2>1, <2>2, <2>3, ThreadQuiet
  <2> QED
    BY <1>3, <2>1, <2>4 DEF Pending
<1>5. CASE SubReject(h, t)
  <2>1. CASE thr[h].todo = {t}
    <3>1. thr' = [thr EXCEPT ![h] = Idle]
      BY <1>5, <2>1 DEF SubReject
    <3>2. TypeThreads' /\ SnapsSame /\ PullsKept /\ thr'[h] = Idle /\ \A g \in Threads \ {h} : thr'[g] = thr[g]
      BY <1>1, <1>3, <3>1, IdleSound, ThreadQuiet DEF Idle
    <3> QED
      BY <1>3, <2>1, <3>2 DEF Pending, Idle
  <2>2. CASE thr[h].todo # {t}
    <3> DEFINE x == [thr[h] EXCEPT !.todo = thr[h].todo \ {t}]
    <3>1. x \in Submits /\ x.op = "submit" /\ x.item = None /\ x.todo = thr[h].todo \ {t} /\ x.pc = "prep"
      BY <1>1, <1>2 DEF Submits
    <3>2. ThreadSound(x)
      BY <3>1 DEF ThreadSound
    <3>3. thr' = [thr EXCEPT ![h] = x]
      BY <1>5, <2>2 DEF SubReject
    <3> HIDE DEF x
    <3>4. TypeThreads' /\ SnapsSame /\ PullsKept /\ thr'[h] = x /\ \A g \in Threads \ {h} : thr'[g] = thr[g]
      BY <1>1, <1>3, <3>1, <3>2, <3>3, ThreadQuiet
    <3>5. None \notin thr[h].todo
      BY <1>2, NodePoolAssumption
    <3> QED
      BY <1>3, <3>1, <3>4, <3>5 DEF Pending
  <2> QED
    BY <2>1, <2>2
<1> QED
  BY <1>3, <1>4, <1>5

\* A submit call deals with the answer of the host.
LEMMA SendThreads ==
  ASSUME TypeThreads, NEW h \in Threads,
         SubSend(h) \/ SubUndo(h) \/ \E taken \in BOOLEAN : SubRaise(h, taken)
  PROVE  TypeThreads' /\ SnapsSame /\ PullsKept /\ PendSame
<1>1. thr[h] \in Submits /\ thr[h].op = "submit" /\ thr[h].pc \in {"send", "undo"}
  BY ThreadCases DEF SubSend, SubUndo, SubRaise, TypeThreads
<1>2. CASE SubSend(h) \/ SubUndo(h)
  <2>1. NextItem(h)
    BY <1>2 DEF SubSend, SubUndo
  <2> QED
    BY <1>1, <2>1, NextItemFacts DEF SnapsSame, PullsKept, PendSame, Snapped
<1>3. CASE \E taken \in BOOLEAN : SubRaise(h, taken)
  <2> DEFINE x == [thr[h] EXCEPT !.pc = "undo"]
  <2>1. x \in Submits /\ x.op = "submit" /\ x.item = thr[h].item /\ x.todo = thr[h].todo /\ x.pc = "undo"
    BY <1>1 DEF Submits
  <2>2. ThreadSound(x)
    BY <1>1, <2>1 DEF ThreadSound, TypeThreads
  <2>3. thr' = [thr EXCEPT ![h] = x]
    BY <1>3 DEF SubRaise
  <2> HIDE DEF x
  <2>4. TypeThreads' /\ SnapsSame /\ PullsKept /\ thr'[h] = x /\ \A g \in Threads \ {h} : thr'[g] = thr[g]
    BY <1>1, <2>1, <2>2, <2>3, ThreadQuiet DEF Snapped
  <2> QED
    BY <1>1, <2>1, <2>4 DEF Pending, PendSame
<1> QED
  BY <1>2, <1>3

\* The steps of pull_pool_results, and of a drain that leaves snapshots alone.
LEMMA TakeThreads ==
  ASSUME TypeThreads, TypeHosts, TypeTables, NEW h \in Threads,
         NEW p \in PoolIds, NEW S \in SUBSET results[p], PullTake(h, p, S)
  PROVE  TypeThreads' /\ SnapsSame /\ PullsKept /\ PendSame
         /\ thr'[h].op = "pull" /\ thr'[h].got = {r.task : r \in S}
<1> DEFINE x == [op |-> "pull", got |-> {r.task : r \in S}]
<1>1. \A r \in S : r.task \in TaskIds
  BY DEF TypeTables, Result
<1>2. ThreadSound(x) /\ x.op = "pull" /\ x.got = {r.task : r \in S}
  BY <1>1 DEF ThreadSound, Pulls
<1>3. thr[h].op = "idle" /\ thr' = [thr EXCEPT ![h] = x]
  BY DEF PullTake, Idle
<1> HIDE DEF x
<1>4. TypeThreads' /\ SnapsSame /\ PullsKept /\ thr'[h] = x /\ \A g \in Threads \ {h} : thr'[g] = thr[g]
  BY <1>2, <1>3, ThreadQuiet DEF Snapped
<1> QED
  BY <1>2, <1>3, <1>4 DEF PendSame, Pending, Idle

\* A pull call ends.
LEMMA ForgetThreads ==
  ASSUME TypeThreads, TypeHosts, TypeTables, NEW h \in Threads,
         PullForget(h)
  PROVE  TypeThreads' /\ SnapsSame /\ PendSame /\ \A g \in Threads \ {h} : thr'[g] = thr[g]
<1>1. thr[h].op = "pull" /\ thr' = [thr EXCEPT ![h] = Idle]
  BY DEF PullForget
<1>2. TypeThreads' /\ thr'[h] = Idle /\ \A g \in Threads \ {h} : thr'[g] = thr[g]
  BY <1>1, IdleSound, ThreadPut
<1> QED
  BY <1>1, <1>2 DEF SnapsSame, Snapped, PendSame, Pending, Idle

\* Steps of a drain that touch no snapshot.
LEMMA QuietDrains ==
  ASSUME TypeThreads, TypeHosts, TypeTables, NEW h \in Threads,
         DrainBegin(h) \/ DrainTake(h) \/ \E e \in Batch(h) : DrainSkip(h, e)
  PROVE  TypeThreads' /\ SnapsSame /\ PullsKept /\ PendSame
<1>1. CASE DrainBegin(h)
  <2> DEFINE x == [op |-> "drain", pc |-> "take", gen |-> backend, batch |-> {}, snap |-> None]
  <2>1. ThreadSound(x) /\ x.op = "drain" /\ x.snap = None
    BY DEF ThreadSound, Drains, TypeHosts
  <2>2. thr[h].op = "idle" /\ thr' = [thr EXCEPT ![h] = x]
    BY <1>1 DEF DrainBegin, Idle
  <2> HIDE DEF x
  <2>3. TypeThreads' /\ SnapsSame /\ PullsKept /\ thr'[h] = x /\ \A g \in Threads \ {h} : thr'[g] = thr[g]
    BY <2>1, <2>2, ThreadQuiet DEF Snapped
  <2> QED
    BY <2>1, <2>2, <2>3 DEF PendSame, Pending, Idle
<1>2. CASE DrainTake(h)
  <2> DEFINE B == {e \in ev : e.gen = thr[h].gen}
             x == [thr[h] EXCEPT !.pc = "next", !.batch = B]
  <2>1. thr[h] \in Drains /\ thr[h].op = "drain" /\ thr[h].snap = None
    BY <1>2, ThreadCases DEF DrainTake, TypeThreads, ThreadSound
  <2>2. x \in Drains /\ x.op = "drain" /\ x.snap = None /\ x.pc = "next"
    BY <2>1 DEF Drains, TypeHosts
  <2>3. ThreadSound(x)
    BY <2>2 DEF ThreadSound
  <2>4. PICK y \in {Idle, x} : thr' = [thr EXCEPT ![h] = y]
    BY <1>2 DEF DrainTake
  <2> HIDE DEF x
  <2>5. ThreadSound(y) /\ y.op \in {"idle", "drain"} /\ (y.op = "drain" => y.snap = None)
    BY <2>2, <2>3, <2>4, IdleSound DEF Idle
  <2>6. TypeThreads' /\ SnapsSame /\ PullsKept /\ thr'[h] = y /\ \A g \in Threads \ {h} : thr'[g] = thr[g]
    BY <2>1, <2>4, <2>5, ThreadQuiet DEF Snapped
  <2> QED
    BY <2>1, <2>5, <2>6 DEF PendSame, Pending
<1>3. ASSUME NEW e \in Batch(h), DrainSkip(h, e)
      PROVE  TypeThreads' /\ SnapsSame /\ PullsKept /\ PendSame
  <2>1. thr[h].op = "drain" /\ e \in thr[h].batch /\ ~Snapped(h) /\ thr' = [thr EXCEPT ![h] = AfterEvent(h, e, None)]
    BY <1>3 DEF DrainSkip, TypeThreads, ThreadSound, Snapped
  <2> QED
    BY <2>1, AfterEventFacts DEF SnapsSame, PullsKept, PendSame, Snapped
<1> QED
  BY <1>1, <1>2, <1>3

-----------------------------------------------------------------------------
(* Reservations. *)

\* No step but those of a submit call touches a reservation.
LEMMA OwnedSame ==
  ASSUME Owned, PendSame, reserved' = reserved
  PROVE  Owned'
BY DEF Owned, PendSame

\* An item of a call that gets its record, or is rejected.
LEMMA OwnedLess ==
  ASSUME Owned, NEW h \in Threads, NEW t \in Pending(h), Pending(h)' = Pending(h) \ {t},
         \A g \in Threads \ {h} : Pending(g)' = Pending(g), reserved' = reserved \ {t}
  PROVE  Owned' /\ t \in reserved
<1>1. reserved = UNION {Pending(g) : g \in Threads} /\ t \in reserved
  BY DEF Owned
<1>2. \A g \in Threads \ {h} : t \notin Pending(g)
  BY DEF Owned
<1>3. reserved' = UNION {Pending(g)' : g \in Threads}
  <2>1. ASSUME NEW u, u \in reserved'
        PROVE  \E g \in Threads : u \in Pending(g)'
    <3>1. PICK g \in Threads : u \in Pending(g)
      BY <1>1, <2>1
    <3> QED
      BY <2>1, <3>1
  <2>2. ASSUME NEW g \in Threads, NEW u \in Pending(g)'
        PROVE  u \in reserved'
    BY <1>1, <1>2, <2>2
  <2> QED
    BY <2>1, <2>2
<1>4. \A f, g \in Threads : f # g => Pending(f)' \cap Pending(g)' = {}
  BY DEF Owned
<1> QED
  BY <1>1, <1>3, <1>4 DEF Owned

\* Reserving ids that nobody has reserved keeps each of them owned once.
LEMMA OwnedMore ==
  ASSUME Owned, NEW h \in Threads, NEW R, Pending(h) = {}, Pending(h)' = R,
         \A g \in Threads \ {h} : Pending(g)' = Pending(g), reserved' = reserved \cup R,
         R \cap reserved = {}
  PROVE  Owned'
<1>1. reserved = UNION {Pending(g) : g \in Threads}
  BY DEF Owned
<1>2. reserved' = UNION {Pending(g)' : g \in Threads}
  <2>1. ASSUME NEW u, u \in reserved'
        PROVE  \E g \in Threads : u \in Pending(g)'
    <3>1. CASE u \in R
      BY <3>1
    <3>2. CASE u \in reserved
      <4>1. PICK g \in Threads : u \in Pending(g)
        BY <1>1, <3>2
      <4> QED
        BY <4>1
    <3> QED
      BY <2>1, <3>1, <3>2
  <2>2. ASSUME NEW g \in Threads, NEW u \in Pending(g)'
        PROVE  u \in reserved'
    BY <1>1, <2>2
  <2> QED
    BY <2>1, <2>2
<1>3. \A g \in Threads \ {h} : Pending(g)' \cap R = {}
  BY <1>1
<1>4. \A f, g \in Threads : f # g => Pending(f)' \cap Pending(g)' = {}
  BY <1>3 DEF Owned
<1> QED
  BY <1>2, <1>4 DEF Owned

-----------------------------------------------------------------------------
(* The tables. *)

\* Sets of tasks are finite.
LEMMA Finite ==
  ASSUME NEW S \in SUBSET TaskIds
  PROVE  IsFiniteSet(S) /\ Cardinality(S) \in Nat
         /\ \A T \in SUBSET S : Cardinality(T) <= Cardinality(S)
BY NodePoolAssumption, FS_Subset, FS_CardinalityType

\* The active index and the reserved ids are sets of task ids.
LEMMA TaskSets ==
  ASSUME Types, Owned, OccupancyExact
  PROVE  active \in SUBSET TaskIds /\ reserved \in SUBSET TaskIds
<1>1. \A h \in Threads : Pending(h) \subseteq TaskIds
  <2> TAKE h \in Threads
  <2>1. thr[h].op = "submit" => thr[h] \in Submits
    BY ThreadCases DEF Types, TypeThreads
  <2> QED
    BY <2>1 DEF Pending, Submits
<1> QED
  BY <1>1 DEF OccupancyExact, Owned

\* Running is not ended, and a record is one or the other.
LEMMA RunningEnded ==
  ASSUME TypeTables, NEW t \in TaskIds, InTable(t)
  PROVE  tasks[t] \in TaskState /\ (Ended(t) <=> tasks[t].status # "RUNNING")
BY DEF TypeTables, InTable, Ended, TaskState, Terminal

\* What is known of the snapshots when no thread gets a new one.
LEMMA SnapsStay ==
  ASSUME SnapsSound, records' >= records, records \in Nat, records' \in Nat,
         TypeThreads,
         \A h \in Threads : Snapped(h)' =>
           /\ Snapped(h) /\ thr'[h].snap = thr[h].snap
           /\ answers'[thr[h].snap.rec] = answers[thr[h].snap.rec],
         \A h \in Threads, t \in TaskIds :
           Snapped(h)' /\ InTable(t)' /\ tasks'[t].rec = thr[h].snap.rec =>
             InTable(t) /\ tasks[t].rec = tasks'[t].rec /\ tasks'[t].pool = tasks[t].pool
             /\ (Ended(t) => Ended(t)')
  PROVE  SnapsSound'
<1>1. \A h \in Threads : Snapped(h) => thr[h].snap.rec \in Nat
  BY ThreadCases DEF TypeThreads, Snapped, Drains, Snapshots, Records
<1> QED
  BY <1>1 DEF SnapsSound

\* A step that forgets tasks, or leaves the tables alone.
LEMMA TablesForget ==
  ASSUME Inv, TypeThreads', SnapsSame, reserved' \subseteq reserved, UNCHANGED <<records, answers>>,
         tasks' \in [TaskIds -> {None} \cup TaskState],
         \A t \in TaskIds : tasks'[t] \in {tasks[t], None},
         active' = {t \in active : tasks'[t] # None}
  PROVE  OccupancyExact' /\ RecordsSound' /\ SnapsSound' /\ OneAnswer'
<1> USE DEF Inv
<1>1. active \in SUBSET TaskIds /\ reserved \in SUBSET TaskIds
  BY TaskSets
<1>2. OccupancyExact'
  <2>1. active' = {t \in TaskIds : tasks'[t] # None /\ tasks'[t].status = "RUNNING"}
    BY DEF OccupancyExact
  <2>2. \A t \in reserved' : tasks'[t] = None
    BY <1>1 DEF OccupancyExact
  <2>3. active' \subseteq active
    OBVIOUS
  <2>4. /\ Cardinality(active') <= Cardinality(active) /\ Cardinality(reserved') <= Cardinality(reserved)
        /\ Cardinality(active) \in Nat /\ Cardinality(reserved) \in Nat
        /\ Cardinality(active') \in Nat /\ Cardinality(reserved') \in Nat
    BY <1>1, <2>3, Finite
  <2>5. Cardinality(active') + Cardinality(reserved') <= Capacity
    BY <2>4, NodePoolAssumption DEF OccupancyExact, Occupancy
  <2> QED
    BY <2>1, <2>2, <2>5 DEF OccupancyExact, Occupancy
<1>3. RecordsSound'
  BY DEF RecordsSound, InTable, Ended
<1>4. SnapsSound'
  <2>1. records \in Nat
    BY DEF Types, TypeTables
  <2> QED
    BY <2>1, SnapsStay DEF Types, InTable, Ended, SnapsSame
<1>5. OneAnswer'
  BY DEF AnswersExact, OneAnswer
<1> QED
  BY <1>2, <1>3, <1>4, <1>5

\* An item gets its record: a new one, in place of its reservation.
LEMMA TablesInstall ==
  ASSUME Inv, TypeThreads', SnapsSame, NEW h \in Threads, NEW t \in TaskIds, SubInstall(h, t),
         t \in reserved
  PROVE  OccupancyExact' /\ RecordsSound' /\ SnapsSound' /\ OneAnswer'
<1> USE DEF Inv
<1>1. active \in SUBSET TaskIds /\ reserved \in SUBSET TaskIds
  BY TaskSets
<1> DEFINE new == [pool |-> thr[h].pool, status |-> "RUNNING", rec |-> records + 1]
<1>2. /\ tasks' = [tasks EXCEPT ![t] = new] /\ active' = active \cup {t} /\ reserved' = reserved \ {t}
      /\ records' = records + 1 /\ answers' = answers /\ records < MaxRecords
  BY DEF SubInstall
<1>3. new # None
  <2>1. thr[h] \in Submits
    BY ThreadCases DEF SubInstall, Types, TypeThreads
  <2>2. new \in TaskState
    BY <1>2, <2>1, NodePoolAssumption DEF TaskState, Submits, Records, Types, TypeTables
  <2> QED
    BY <2>2, NodePoolAssumption
<1>4. tasks[t] = None /\ t \notin active
  BY DEF OccupancyExact
<1>5. new.status = "RUNNING" /\ new.rec = records + 1 /\ records \in Nat /\ records + 1 \in Records
  BY <1>2, NodePoolAssumption DEF Types, TypeTables, Records
<1> HIDE DEF new
<1>6. tasks'[t] = new /\ \A u \in TaskIds \ {t} : tasks'[u] = tasks[u]
  BY <1>2 DEF Types, TypeTables
<1>7. OccupancyExact'
  <2>1. active' = {u \in TaskIds : tasks'[u] # None /\ tasks'[u].status = "RUNNING"}
    BY <1>2, <1>3, <1>5, <1>6 DEF OccupancyExact
  <2>2. \A u \in reserved' : tasks'[u] = None
    BY <1>1, <1>2, <1>6 DEF OccupancyExact
  <2>3. Cardinality(active') = Cardinality(active) + 1 /\ Cardinality(reserved') = Cardinality(reserved) - 1
    BY <1>1, <1>2, <1>4, Finite, FS_AddElement, FS_RemoveElement
  <2>4. Cardinality(active) \in Nat /\ Cardinality(reserved) \in Nat
    BY <1>1, Finite
  <2>5. Cardinality(active') + Cardinality(reserved') <= Capacity
    BY <2>3, <2>4 DEF OccupancyExact, Occupancy
  <2> QED
    BY <2>1, <2>2, <2>5 DEF OccupancyExact, Occupancy
<1>8. \A u \in TaskIds : InTable(u) => tasks[u].rec <= records /\ tasks[u].rec \in Nat
  BY RunningEnded DEF RecordsSound, TaskState, Types, Records
<1>9. RecordsSound'
  <2>1. answers[records + 1] = 0
    BY <1>5 DEF RecordsSound
  <2>2. \A u \in TaskIds : InTable(u)' => tasks'[u].rec <= records'
    BY <1>2, <1>5, <1>6, <1>8 DEF InTable
  <2>3. \A u, v \in TaskIds : InTable(u)' /\ InTable(v)' /\ tasks'[u].rec = tasks'[v].rec => u = v
    BY <1>5, <1>6, <1>8 DEF InTable, RecordsSound
  <2>4. \A u \in TaskIds : InTable(u)' /\ ~Ended(u)' => answers'[tasks'[u].rec] = 0
    BY <1>2, <1>5, <1>6, <2>1 DEF InTable, Ended, RecordsSound
  <2>5. \A r \in Records : r > records' => answers'[r] = 0
    BY <1>2, <1>5 DEF RecordsSound, Records
  <2> QED
    BY <2>2, <2>3, <2>4, <2>5 DEF RecordsSound
<1>10. SnapsSound'
  <2>1. \A g \in Threads : Snapped(g) => thr[g].snap.rec # records + 1
    BY <1>5 DEF SnapsSound
  <2>2. records' >= records /\ records' \in Nat
    BY <1>2, <1>5
  <2> QED
    BY <1>2, <1>5, <1>6, <2>1, <2>2, SnapsStay DEF Types, InTable, Ended, SnapsSame
<1>11. OneAnswer'
  BY <1>2 DEF AnswersExact, OneAnswer
<1> QED
  BY <1>7, <1>9, <1>10, <1>11

\* Items are reserved while there is room for them.
LEMMA TablesReserve ==
  ASSUME Inv, TypeThreads', SnapsSame, NEW h \in Threads, NEW p \in PoolIds,
         NEW S \in SUBSET TaskIds, NEW R \in SUBSET TaskIds, SubReserve(h, p, S, R)
  PROVE  OccupancyExact' /\ RecordsSound' /\ SnapsSound' /\ OneAnswer' /\ R \cap reserved = {}
<1> USE DEF Inv
<1>1. active \in SUBSET TaskIds /\ reserved \in SUBSET TaskIds
  BY TaskSets
<1>2. /\ R \subseteq Fresh(S) /\ reserved' = reserved \cup R
      /\ UNCHANGED <<tasks, active, records, answers>>
  BY DEF SubReserve
<1>3. R \cap reserved = {}
  BY <1>2 DEF Fresh
<1>4. Cardinality(R) <= Room
  <2>1. Fresh(S) \in SUBSET TaskIds
    BY DEF Fresh
  <2>2. Cardinality(Fresh(S)) \in Nat
    BY <2>1, Finite
  <2>3. Room \in Nat
    BY <1>1, Finite, NodePoolAssumption DEF Room, Occupancy
  <2> QED
    BY <2>2, <2>3 DEF SubReserve
<1>5. Cardinality(reserved') = Cardinality(reserved) + Cardinality(R)
  <2>1. IsFiniteSet(reserved) /\ IsFiniteSet(R) /\ Cardinality(reserved) \in Nat /\ Cardinality(R) \in Nat
    BY <1>1, Finite
  <2>2. Cardinality(reserved \cup R) = Cardinality(reserved) + Cardinality(R) - Cardinality(reserved \cap R)
    BY <2>1, FS_Union
  <2>3. Cardinality(reserved \cap R) = 0
    BY <1>3, FS_EmptySet
  <2> QED
    BY <1>2, <2>1, <2>2, <2>3
<1>6. OccupancyExact'
  <2>1. \A t \in reserved' : tasks'[t] = None
    BY <1>2 DEF Fresh, OccupancyExact
  <2>2. Cardinality(active) \in Nat /\ Cardinality(reserved) \in Nat /\ Cardinality(R) \in Nat
    BY <1>1, Finite
  <2>3. Cardinality(active) + Cardinality(reserved) <= Capacity
    BY DEF OccupancyExact, Occupancy
  <2>4. Cardinality(active') + Cardinality(reserved') <= Capacity
    BY <1>2, <1>4, <1>5, <2>2, <2>3, NodePoolAssumption DEF Room, Occupancy
  <2>5. active' = {t \in TaskIds : tasks'[t] # None /\ tasks'[t].status = "RUNNING"}
    BY <1>2 DEF OccupancyExact
  <2> QED
    BY <2>1, <2>4, <2>5 DEF OccupancyExact, Occupancy
<1>7. RecordsSound' /\ OneAnswer'
  BY <1>2 DEF RecordsSound, InTable, Ended, AnswersExact, OneAnswer
<1>8. SnapsSound'
  <2>1. records \in Nat
    BY DEF Types, TypeTables
  <2> QED
    BY <1>2, <2>1, SnapsStay DEF Types, InTable, Ended, SnapsSame
<1> QED
  BY <1>3, <1>6, <1>7, <1>8

\* A step that ends tasks, and answers for tasks that have ended by now.
LEMMA TablesEnd ==
  ASSUME Inv, tasks' \in [TaskIds -> {None} \cup TaskState], UNCHANGED <<reserved, records>>,
         \A t \in TaskIds :
           /\ InTable(t)' <=> InTable(t)
           /\ InTable(t) => tasks'[t].rec = tasks[t].rec /\ (Ended(t) => Ended(t)'),
         active' = {t \in active : ~Ended(t)'},
         \A r \in Records :
           \/ answers'[r] = answers[r]
           \/ /\ answers[r] = 0 /\ answers'[r] = 1
              /\ \E t \in TaskIds : InTable(t) /\ tasks[t].rec = r /\ Ended(t)'
  PROVE  OccupancyExact' /\ RecordsSound' /\ OneAnswer'
<1> USE DEF Inv
<1>1. active \in SUBSET TaskIds /\ reserved \in SUBSET TaskIds
  BY TaskSets
<1>2. \A t \in TaskIds : InTable(t) => tasks[t] \in TaskState /\ (Ended(t) <=> tasks[t].status # "RUNNING")
  BY RunningEnded DEF Types
<1>3. \A t \in TaskIds : InTable(t)' => (Ended(t)' <=> tasks'[t].status # "RUNNING")
  BY DEF TaskState, Terminal, InTable, Ended
<1>4. OccupancyExact'
  <2>1. active' = {t \in TaskIds : tasks'[t] # None /\ tasks'[t].status = "RUNNING"}
    BY <1>2, <1>3 DEF OccupancyExact, InTable
  <2>2. \A t \in reserved' : tasks'[t] = None
    BY <1>1 DEF OccupancyExact, InTable
  <2>3. active' \subseteq active
    OBVIOUS
  <2>4. /\ Cardinality(active') <= Cardinality(active)
        /\ Cardinality(active) \in Nat /\ Cardinality(reserved) \in Nat /\ Cardinality(active') \in Nat
    BY <1>1, <2>3, Finite
  <2>5. Cardinality(active') + Cardinality(reserved') <= Capacity
    BY <2>4, NodePoolAssumption DEF OccupancyExact, Occupancy
  <2> QED
    BY <2>1, <2>2, <2>5 DEF OccupancyExact, Occupancy
<1>5. RecordsSound'
  <2>1. \A t \in TaskIds : InTable(t)' => tasks'[t].rec <= records'
    BY DEF RecordsSound
  <2>2. \A t, u \in TaskIds : InTable(t)' /\ InTable(u)' /\ tasks'[t].rec = tasks'[u].rec => t = u
    BY DEF RecordsSound
  <2>3. \A t \in TaskIds : InTable(t)' /\ ~Ended(t)' => answers'[tasks'[t].rec] = 0
    <3> SUFFICES ASSUME NEW t \in TaskIds, InTable(t)', ~Ended(t)'
                 PROVE  answers'[tasks[t].rec] = 0
      OBVIOUS
    <3>1. InTable(t) /\ ~Ended(t) /\ tasks[t].rec \in Records /\ answers[tasks[t].rec] = 0
      BY <1>2 DEF RecordsSound, TaskState
    <3>2. ~\E u \in TaskIds : InTable(u) /\ tasks[u].rec = tasks[t].rec /\ Ended(u)'
      BY <3>1 DEF RecordsSound
    <3> QED
      BY <3>1, <3>2
  <2>4. \A r \in Records : r > records' => answers'[r] = 0
    <3> SUFFICES ASSUME NEW r \in Records, r > records
                 PROVE  answers'[r] = 0
      OBVIOUS
    <3>1. \A t \in TaskIds : InTable(t) => tasks[t].rec <= records /\ tasks[t].rec \in Nat
      BY <1>2 DEF RecordsSound, TaskState, Records
    <3>2. ~\E t \in TaskIds : InTable(t) /\ tasks[t].rec = r
      BY <3>1 DEF Types, TypeTables
    <3> QED
      BY <3>2 DEF RecordsSound
  <2> QED
    BY <2>1, <2>2, <2>3, <2>4 DEF RecordsSound
<1>6. OneAnswer'
  BY DEF AnswersExact, OneAnswer
<1> QED
  BY <1>4, <1>5, <1>6

\* A drain has ended a task, and keeps its snapshot.
LEMMA SnapsAdd ==
  ASSUME Inv, NEW h \in Threads, NEW t \in TaskIds, NEW s,
         InTable(t), ~Ended(t), s.task = t, s.rec = tasks[t].rec, s.pool = tasks[t].pool,
         ~Snapped(h), Snapped(h)', thr'[h].snap = s, \A g \in Threads \ {h} : thr'[g] = thr[g],
         records' = records, Ended(t)',
         \A u \in TaskIds :
           /\ InTable(u)' <=> InTable(u)
           /\ InTable(u) => /\ tasks'[u].rec = tasks[u].rec /\ tasks'[u].pool = tasks[u].pool
                            /\ Ended(u) => Ended(u)',
         \A g \in Threads : Snapped(g)' => answers'[thr'[g].snap.rec] = answers[thr'[g].snap.rec]
  PROVE  SnapsSound'
<1> USE DEF Inv
<1>1. \A g \in Threads \ {h} : (Snapped(g)' <=> Snapped(g)) /\ thr'[g].snap = thr[g].snap
  BY DEF Snapped
<1>2. \A g \in Threads : Snapped(g)' => thr'[g].snap.rec <= records /\ answers'[thr'[g].snap.rec] = 0
  BY <1>1 DEF SnapsSound, RecordsSound
<1>3. \A g \in Threads, u \in TaskIds :
        Snapped(g)' /\ InTable(u)' /\ tasks'[u].rec = thr'[g].snap.rec =>
          u = thr'[g].snap.task /\ tasks'[u].pool = thr'[g].snap.pool /\ Ended(u)'
  <2>1. \A u \in TaskIds : InTable(u) /\ tasks[u].rec = s.rec => u = t
    BY DEF RecordsSound
  <2> QED
    BY <1>1, <2>1 DEF SnapsSound
<1>4. \A f, g \in Threads : Snapped(f)' /\ Snapped(g)' /\ thr'[f].snap.rec = thr'[g].snap.rec => f = g
  <2>1. \A g \in Threads \ {h} : Snapped(g) => thr[g].snap.rec # s.rec
    BY DEF SnapsSound
  <2> QED
    BY <1>1, <2>1 DEF SnapsSound
<1> QED
  BY <1>2, <1>3, <1>4 DEF SnapsSound

\* _fail_task_pool_tasks_locked, when "ended" are tasks of the pool that end with it.
LEMMA FailFacts ==
  ASSUME Inv, NEW p \in PoolIds, NEW ended \in SUBSET Unended(p), FailTasks(p, ended)
  PROVE  /\ tasks' \in [TaskIds -> {None} \cup TaskState]
         /\ \A t \in TaskIds :
              /\ InTable(t)' <=> InTable(t)
              /\ InTable(t) => /\ tasks'[t].rec = tasks[t].rec /\ tasks'[t].pool = tasks[t].pool
                               /\ Ended(t)' <=> Ended(t) \/ t \in Unended(p)
         /\ active' = {t \in active : ~Ended(t)'}
         /\ answers' \in [Records -> Nat]
         /\ \A r \in Records :
              \/ answers'[r] = answers[r]
              \/ /\ answers[r] = 0 /\ answers'[r] = 1
                 /\ \E t \in Unended(p) \ ended : tasks[t].rec = r
         /\ results' \in [PoolIds -> SUBSET Result]
         /\ \A q \in PoolIds : results[q] \subseteq results'[q]
         /\ \A t \in Unended(p) \ ended :
              \E r \in results'[p] : r.task = t /\ r.rec = tasks[t].rec
<1> USE DEF Inv
<1> DEFINE U == Unended(p)
           F == U \ ended
<1>1. U \subseteq TaskIds /\ \A t \in U : InTable(t) /\ ~Ended(t) /\ tasks[t].pool = p
  BY DEF Unended, OfPool, InTable, Ended
<1>2. \A t \in TaskIds : InTable(t) => tasks[t] \in TaskState /\ (Ended(t) <=> tasks[t].status # "RUNNING")
  BY RunningEnded DEF Types
<1>3. /\ active' = active \ U
      /\ tasks' = [t \in TaskIds |-> IF t \in U THEN [tasks[t] EXCEPT !.status = "FAILED_INFRA"]
                                     ELSE tasks[t]]
      /\ results' = [results EXCEPT ![p] = @ \cup
                       {[task |-> t, rec |-> tasks[t].rec, status |-> "FAILED_INFRA"] : t \in F}]
      /\ answers' = [r \in Records |-> answers[r] + Cardinality({t \in F : tasks[t].rec = r})]
  <2>1. (U \ ended) \cup ended = U
    OBVIOUS
  <2> QED
    BY <2>1 DEF FailTasks
<1> HIDE DEF U
<1>4. \A t \in U : /\ tasks'[t] \in TaskState /\ tasks'[t].status = "FAILED_INFRA"
                   /\ tasks'[t].rec = tasks[t].rec /\ tasks'[t].pool = tasks[t].pool
  BY <1>1, <1>2, <1>3 DEF TaskState, Terminal
<1>5. \A t \in TaskIds \ U : tasks'[t] = tasks[t]
  BY <1>3
<1>6. tasks' \in [TaskIds -> {None} \cup TaskState]
  BY <1>3, <1>4, <1>5 DEF Types, TypeTables
<1>7. \A t \in TaskIds :
        /\ InTable(t)' <=> InTable(t)
        /\ InTable(t) => /\ tasks'[t].rec = tasks[t].rec /\ tasks'[t].pool = tasks[t].pool
                         /\ Ended(t)' <=> Ended(t) \/ t \in U
  <2> TAKE t \in TaskIds
  <2>1. CASE t \in U
    BY <1>1, <1>4, <2>1, NodePoolAssumption DEF InTable, Ended, Terminal
  <2>2. CASE t \notin U
    BY <1>5, <2>2 DEF InTable, Ended
  <2> QED
    BY <2>1, <2>2
<1>8. active' = {t \in active : ~Ended(t)'}
  <2>1. \A t \in active : t \in TaskIds /\ InTable(t) /\ ~Ended(t)
    BY <1>2 DEF OccupancyExact, InTable
  <2> QED
    BY <1>3, <1>7, <2>1
<1>9. \A r \in Records :
        \/ Cardinality({t \in F : tasks[t].rec = r}) = 0
        \/ /\ Cardinality({t \in F : tasks[t].rec = r}) = 1 /\ answers[r] = 0
           /\ \E t \in F : tasks[t].rec = r
  <2> TAKE r \in Records
  <2>1. CASE \A t \in F : tasks[t].rec # r
    <3>1. {t \in F : tasks[t].rec = r} = {}
      BY <2>1
    <3> QED
      BY <3>1, FS_EmptySet
  <2>2. CASE \E t \in F : tasks[t].rec = r
    <3>1. PICK t \in F : tasks[t].rec = r
      BY <2>2
    <3>2. {u \in F : tasks[u].rec = r} = {t}
      BY <1>1, <3>1 DEF RecordsSound
    <3>3. answers[r] = 0
      BY <1>1, <3>1 DEF RecordsSound
    <3> QED
      BY <3>1, <3>2, <3>3, FS_Singleton
  <2> QED
    BY <2>1, <2>2
<1>10. \A r \in Records : answers[r] \in Nat
  BY DEF Types, TypeTables
<1>11. answers' \in [Records -> Nat]
  <2>1. \A r \in Records : answers[r] + Cardinality({t \in F : tasks[t].rec = r}) \in Nat
    BY <1>9, <1>10
  <2> QED
    BY <1>3, <2>1
<1>12. \A r \in Records :
        \/ answers'[r] = answers[r]
        \/ answers[r] = 0 /\ answers'[r] = 1 /\ \E t \in F : tasks[t].rec = r
  <2> TAKE r \in Records
  <2>1. answers'[r] = answers[r] + Cardinality({t \in F : tasks[t].rec = r})
    BY <1>3
  <2> QED
    BY <1>9, <1>10, <2>1
<1>13. \A t \in F : [task |-> t, rec |-> tasks[t].rec, status |-> "FAILED_INFRA"] \in Result
  BY <1>1, <1>2 DEF Result, TaskState, Terminal
<1>14. /\ \A q \in PoolIds : results[q] \subseteq Result /\ results[q] \subseteq results'[q]
       /\ results'[p] = results[p] \cup
            {[task |-> t, rec |-> tasks[t].rec, status |-> "FAILED_INFRA"] : t \in F}
  BY <1>3 DEF Types, TypeTables
<1>15. results' \in [PoolIds -> SUBSET Result]
  <2>1. \A q \in PoolIds \ {p} : results'[q] = results[q]
    BY <1>3 DEF Types, TypeTables
  <2>2. results'[p] \subseteq Result
    BY <1>13, <1>14
  <2> QED
    BY <1>3, <1>14, <2>1, <2>2 DEF Types, TypeTables
<1>16. \A t \in F : \E r \in results'[p] : r.task = t /\ r.rec = tasks[t].rec
  <2> TAKE t \in F
  <2> DEFINE x == [task |-> t, rec |-> tasks[t].rec, status |-> "FAILED_INFRA"]
  <2>1. x \in results'[p]
    BY <1>14
  <2>2. x.task = t /\ x.rec = tasks[t].rec
    OBVIOUS
  <2> QED
    BY <2>1, <2>2
<1> QED
  BY <1>6, <1>7, <1>8, <1>11, <1>12, <1>14, <1>15, <1>16 DEF U

-----------------------------------------------------------------------------
(* Answers. *)

\* A step that takes no result out of a queue and ends no task.
LEMMA AnswersStay ==
  ASSUME AnswerKept, SnapsSame, PullsKept, TypeTables,
         \A p \in PoolIds : results[p] \subseteq results'[p],
         \A t \in TaskIds : InTable(t)' /\ Ended(t)' => InTable(t) /\ Ended(t) /\ tasks'[t] = tasks[t]
  PROVE  AnswerKept'
<1> SUFFICES ASSUME NEW t \in TaskIds, InTable(t), Ended(t), tasks'[t] = tasks[t]
             PROVE  \/ \E r \in results'[tasks[t].pool] : r.task = t /\ r.rec = tasks[t].rec
                    \/ \E h \in Threads : \/ Snapped(h)' /\ thr'[h].snap.rec = tasks[t].rec
                                          \/ thr'[h].op = "pull" /\ t \in thr'[h].got
  BY DEF AnswerKept, InTable, Ended, Snapped
<1>1. tasks[t].pool \in PoolIds
  BY RunningEnded DEF TaskState
<1> QED
  BY <1>1 DEF AnswerKept, InTable, Ended, Snapped, SnapsSame, PullsKept

\* A step that leaves the tables and the threads alone.
LEMMA FrameStep ==
  ASSUME Inv, thr' = thr, UNCHANGED <<tasks, active, reserved, results, records, answers>>, TypeHosts'
  PROVE  Inv'
<1> USE DEF Inv
<1>1. TypeThreads' /\ TypeTables' /\ SnapsSame /\ PullsKept /\ PendSame
  BY DEF Types, TypeThreads, TypeTables, SnapsSame, PullsKept, PendSame, Snapped, Pending
<1>2. OccupancyExact' /\ RecordsSound' /\ SnapsSound' /\ OneAnswer'
  BY DEF OccupancyExact, Occupancy, RecordsSound, SnapsSound, AnswersExact, OneAnswer, InTable,
         Ended, Snapped
<1>3. AnswerKept'
  BY <1>1, AnswersStay DEF AnswersExact, Types, InTable, Ended
<1>4. Owned'
  BY <1>1, OwnedSame
<1> QED
  BY <1>1, <1>2, <1>3, <1>4 DEF Types, AnswersExact

\* What the hosts, a rebuild and the opening of a pool do.
LEMMA HostStep ==
  ASSUME Inv, Hosts \/ Rebuild \/ (\E p \in PoolIds : Open(p)) \/ UNCHANGED vars
  PROVE  Inv'
<1> USE DEF Inv, Types
<1>1. CASE \E f \in run, st \in Outcomes : HostDone(f, st)
  <2>1. PICK f \in run, st \in Outcomes : HostDone(f, st)
    BY <1>1
  <2>2. f \in Flights
    BY DEF TypeHosts
  <2>3. [gen |-> f.gen, pool |-> f.pool, task |-> f.task, rec |-> f.rec, st |-> st] \in Events
    BY <2>2 DEF Flights, Events
  <2>4. ev' \subseteq Events /\ run' \subseteq Flights /\ UNCHANGED <<backend, gens, reb>>
    BY <2>1, <2>3 DEF HostDone, TypeHosts
  <2>5. TypeHosts'
    BY <2>4 DEF TypeHosts
  <2> QED
    BY <2>1, <2>5, FrameStep DEF HostDone, tableVars
<1>2. CASE \/ \E p \in PoolIds : HostCrash(p) 
           \/ \E x \in stopq : StopHost(x)
           \/ \E p \in PoolIds : Open(p)
           \/ UNCHANGED vars
  <2>1. TypeHosts'
    BY <1>2 DEF HostCrash, StopHost, Open, TypeHosts, vars, hostVars
  <2> QED
    BY <1>2, <2>1, FrameStep DEF HostCrash, StopHost, Open, vars, tableVars
<1>3. CASE RebuildStart
  <2>1. [old |-> backend, targets |-> {p \in PoolIds : Running(p) /\ pools[p].ready},
         failed |-> {}, pc |-> "build"]
          \in [old : Nat, targets : SUBSET PoolIds, failed : SUBSET PoolIds, pc : {"build", "install"}]
    BY DEF TypeHosts
  <2>2. TypeHosts'
    BY <1>3, <2>1 DEF RebuildStart, TypeHosts
  <2> QED
    BY <1>3, <2>2, FrameStep DEF RebuildStart, tableVars
<1>4. CASE RebuildAbort
  <2>1. TypeHosts'
    BY <1>4 DEF RebuildAbort, TypeHosts
  <2> QED
    BY <1>4, <2>1, FrameStep DEF RebuildAbort, tableVars
<1>5. CASE \E F \in SUBSET PoolIds : RebuildHosts(F)
  <2>1. PICK F \in SUBSET PoolIds : RebuildHosts(F)
    BY <1>5
  <2>2. reb' \in [old : Nat, targets : SUBSET PoolIds, failed : SUBSET PoolIds, pc : {"build", "install"}]
    BY <2>1 DEF RebuildHosts, TypeHosts
  <2>3. TypeHosts'
    BY <2>1, <2>2 DEF RebuildHosts, TypeHosts
  <2> QED
    BY <2>1, <2>3, FrameStep DEF RebuildHosts, tableVars
<1>6. CASE RebuildInstall
  <2>1. TypeHosts'
    BY <1>6 DEF RebuildInstall, TypeHosts
  <2> QED
    BY <1>6, <2>1, FrameStep DEF RebuildInstall
<1> QED
  BY <1>1, <1>2, <1>3, <1>4, <1>5, <1>6 DEF Hosts, Rebuild

-----------------------------------------------------------------------------
(* The steps. *)

\* submit_pool_tasks
LEMMA SubmitStep ==
  ASSUME Inv, NEW h \in Threads, Submitting(h)
  PROVE  Inv'
<1> USE DEF Inv, Types
<1>0. records \in Nat
  BY DEF TypeTables
<1>1. CASE \E p \in PoolIds, S \in SUBSET TaskIds, R \in SUBSET TaskIds : SubReserve(h, p, S, R)
  <2>1. PICK p \in PoolIds, S \in SUBSET TaskIds, R \in SUBSET TaskIds : SubReserve(h, p, S, R)
    BY <1>1
  <2>2. /\ TypeThreads' /\ SnapsSame /\ PullsKept /\ Pending(h) = {} /\ Pending(h)' = R
        /\ \A g \in Threads \ {h} : Pending(g)' = Pending(g)
    BY <2>1, ReserveThreads
  <2>3. OccupancyExact' /\ RecordsSound' /\ SnapsSound' /\ OneAnswer' /\ R \cap reserved = {}
    BY <2>1, <2>2, TablesReserve
  <2>4. /\ reserved' = reserved \cup R /\ UNCHANGED hostVars
        /\ UNCHANGED <<tasks, active, results, records, answers>>
    BY <2>1 DEF SubReserve
  <2>5. Owned'
    BY <2>2, <2>3, <2>4, OwnedMore
  <2>6. AnswerKept'
    BY <2>2, <2>4, AnswersStay DEF AnswersExact, InTable, Ended
  <2> QED
    BY <2>2, <2>3, <2>4, <2>5, <2>6 DEF AnswersExact, TypeTables, TypeHosts, hostVars
<1>2. CASE \E t \in TaskIds : SubInstall(h, t)
  <2>1. PICK t \in TaskIds : SubInstall(h, t)
    BY <1>2
  <2>2. /\ TypeThreads' /\ SnapsSame /\ PullsKept /\ t \in Pending(h)
        /\ Pending(h)' = Pending(h) \ {t} /\ \A g \in Threads \ {h} : Pending(g)' = Pending(g)
    BY <1>0, <2>1, ItemThreads
  <2> DEFINE new == [pool |-> thr[h].pool, status |-> "RUNNING", rec |-> records + 1]
  <2>3. /\ reserved' = reserved \ {t} /\ tasks' = [tasks EXCEPT ![t] = new]
        /\ records' = records + 1 /\ records < MaxRecords
        /\ UNCHANGED <<results, answers>> /\ UNCHANGED hostVars
    BY <2>1 DEF SubInstall
  <2>4. Owned' /\ t \in reserved
    BY <2>2, <2>3, OwnedLess
  <2>5. OccupancyExact' /\ RecordsSound' /\ SnapsSound' /\ OneAnswer'
    BY <2>1, <2>2, <2>4, TablesInstall
  <2>6. new \in TaskState /\ new.status \notin Terminal
    <3>1. thr[h] \in Submits
      BY <2>1, ThreadCases DEF SubInstall, TypeThreads
    <3> QED
      BY <1>0, <2>3, <3>1, NodePoolAssumption DEF TaskState, Submits, Records, Terminal
  <2> HIDE DEF new
  <2>7. AnswerKept'
    BY <2>2, <2>3, <2>6, AnswersStay DEF AnswersExact, InTable, Ended, TypeTables
  <2>8. TypeTables' /\ TypeHosts'
    BY <1>0, <2>3, <2>6, NodePoolAssumption DEF TypeTables, TypeHosts, hostVars
  <2> QED
    BY <2>2, <2>4, <2>5, <2>7, <2>8 DEF AnswersExact
<1>3. CASE \E t \in TaskIds : SubReject(h, t)
  <2>1. PICK t \in TaskIds : SubReject(h, t)
    BY <1>3
  <2>2. /\ TypeThreads' /\ SnapsSame /\ PullsKept /\ t \in Pending(h)
        /\ Pending(h)' = Pending(h) \ {t} /\ \A g \in Threads \ {h} : Pending(g)' = Pending(g)
    BY <1>0, <2>1, ItemThreads
  <2>3. /\ reserved' = reserved \ {t} /\ UNCHANGED <<tasks, active, results, records, answers>>
        /\ UNCHANGED hostVars
    BY <2>1 DEF SubReject
  <2>4. Owned'
    BY <2>2, <2>3, OwnedLess
  <2>5. TypeTables' /\ TypeHosts'
    BY <2>3 DEF TypeTables, TypeHosts, hostVars
  <2>6. active' = {u \in active : tasks'[u] # None}
    BY <2>3 DEF OccupancyExact
  <2>7. OccupancyExact' /\ RecordsSound' /\ SnapsSound' /\ OneAnswer'
    BY <2>2, <2>3, <2>5, <2>6, TablesForget DEF TypeTables
  <2>8. AnswerKept'
    BY <2>2, <2>3, AnswersStay DEF AnswersExact, InTable, Ended
  <2> QED
    BY <2>2, <2>4, <2>5, <2>7, <2>8 DEF AnswersExact
<1>4. CASE SubSend(h) \/ \E taken \in BOOLEAN : SubRaise(h, taken)
  <2>1. TypeThreads' /\ SnapsSame /\ PullsKept /\ PendSame
    BY <1>4, SendThreads
  <2>2. UNCHANGED tableVars /\ UNCHANGED <<backend, gens, ev, reb>>
    BY <1>4 DEF SubSend, SubRaise
  <2>3. thr[h] \in Submits /\ thr[h].item \in TaskIds
    BY <1>4, ThreadCases DEF SubSend, SubRaise, TypeThreads, ThreadSound, Submits
  <2>4. [gen |-> backend, pool |-> thr[h].pool, task |-> thr[h].item, rec |-> thr[h].rec] \in Flights
    BY <2>3 DEF Submits, Flights, TypeHosts
  <2>5. TypeTables' /\ TypeHosts'
    BY <1>4, <2>2, <2>4 DEF SubSend, SubRaise, TypeTables, TypeHosts, tableVars
  <2>6. active' = {u \in active : tasks'[u] # None}
    BY <2>2 DEF OccupancyExact, tableVars
  <2>7. OccupancyExact' /\ RecordsSound' /\ SnapsSound' /\ OneAnswer'
    BY <2>1, <2>2, <2>5, <2>6, TablesForget DEF TypeTables, tableVars
  <2>8. AnswerKept'
    BY <2>1, <2>2, AnswersStay DEF AnswersExact, InTable, Ended, tableVars
  <2>9. Owned'
    BY <2>1, <2>2, OwnedSame DEF tableVars
  <2> QED
    BY <2>1, <2>5, <2>7, <2>8, <2>9 DEF AnswersExact
<1>5. CASE SubUndo(h)
  <2>1. TypeThreads' /\ SnapsSame /\ PullsKept /\ PendSame
    BY <1>5, SendThreads
  <2>2. UNCHANGED <<reserved, results, records, answers>> /\ UNCHANGED hostVars
    BY <1>5 DEF SubUndo
  <2>3. thr[h].item \in TaskIds
    BY <1>5, ThreadCases DEF SubUndo, TypeThreads, ThreadSound, Submits
  <2>4. /\ tasks' \in [TaskIds -> {None} \cup TaskState]
        /\ \A t \in TaskIds : tasks'[t] \in {tasks[t], None}
        /\ active' = {t \in active : tasks'[t] # None}
    BY <1>5, <2>3 DEF SubUndo, TypeTables, OccupancyExact
  <2>5. OccupancyExact' /\ RecordsSound' /\ SnapsSound' /\ OneAnswer'
    BY <2>1, <2>2, <2>4, TablesForget
  <2>6. AnswerKept'
    BY <2>1, <2>2, <2>4, AnswersStay DEF AnswersExact, InTable, Ended
  <2>7. Owned'
    BY <2>1, <2>2, OwnedSame
  <2> QED
    BY <2>1, <2>2, <2>4, <2>5, <2>6, <2>7 DEF AnswersExact, TypeTables, TypeHosts, hostVars
<1> QED
  BY <1>1, <1>2, <1>3, <1>4, <1>5 DEF Submitting

\* pull_pool_results: what a pull has taken it goes on to forget.
LEMMA PullStep ==
  ASSUME Inv, NEW h \in Threads, Pulling(h)
  PROVE  Inv'
<1> USE DEF Inv, Types
<1>1. ASSUME NEW p \in PoolIds, NEW S \in SUBSET results[p], PullTake(h, p, S)
      PROVE  Inv'
  <2>1. /\ TypeThreads' /\ SnapsSame /\ PullsKept /\ PendSame
        /\ thr'[h].op = "pull" /\ thr'[h].got = {r.task : r \in S}
    BY <1>1, TakeThreads
  <2>2. /\ results' = [results EXCEPT ![p] = @ \ S]
        /\ UNCHANGED <<tasks, active, reserved, records, answers>> /\ UNCHANGED hostVars
    BY <1>1 DEF PullTake
  <2>3. TypeTables' /\ TypeHosts'
    BY <2>2 DEF TypeTables, TypeHosts, hostVars
  <2>4. active' = {u \in active : tasks'[u] # None}
    BY <2>2 DEF OccupancyExact
  <2>5. OccupancyExact' /\ RecordsSound' /\ SnapsSound' /\ OneAnswer'
    BY <2>1, <2>2, <2>3, <2>4, TablesForget DEF TypeTables
  <2>6. AnswerKept'
    <3> SUFFICES ASSUME NEW t \in TaskIds, InTable(t), Ended(t)
                 PROVE  \/ \E r \in results'[tasks[t].pool] : r.task = t /\ r.rec = tasks[t].rec
                        \/ \E g \in Threads : \/ Snapped(g)' /\ thr'[g].snap.rec = tasks[t].rec
                                              \/ thr'[g].op = "pull" /\ t \in thr'[g].got
      BY <2>2 DEF AnswerKept, InTable, Ended, Snapped
    <3>1. CASE \E r \in results[tasks[t].pool] : r.task = t /\ r.rec = tasks[t].rec
      <4>1. PICK r \in results[tasks[t].pool] : r.task = t /\ r.rec = tasks[t].rec
        BY <3>1
      <4>2. r \in S \/ r \in results'[tasks[t].pool]
        BY <2>2 DEF TypeTables
      <4> QED
        BY <2>1, <4>1, <4>2
    <3>2. CASE \E g \in Threads : \/ Snapped(g) /\ thr[g].snap.rec = tasks[t].rec
                                  \/ thr[g].op = "pull" /\ t \in thr[g].got
      BY <2>1, <3>2 DEF SnapsSame, PullsKept
    <3> QED
      BY <3>1, <3>2 DEF AnswersExact, AnswerKept, InTable, Ended, Snapped
  <2>7. Owned'
    BY <2>1, <2>2, OwnedSame
  <2> QED
    BY <2>1, <2>3, <2>5, <2>6, <2>7 DEF AnswersExact
<1>2. CASE PullForget(h)
  <2> DEFINE F == {t \in thr[h].got : tasks[t] # None /\ tasks[t].status \in Terminal}
  <2>1. TypeThreads' /\ SnapsSame /\ PendSame /\ \A g \in Threads \ {h} : thr'[g] = thr[g]
    BY <1>2, ForgetThreads
  <2>2. /\ thr[h].op = "pull" /\ tasks' = [t \in TaskIds |-> IF t \in F THEN None ELSE tasks[t]]
        /\ active' = active \ F
        /\ UNCHANGED <<reserved, results, records, answers>> /\ UNCHANGED hostVars
    BY <1>2 DEF PullForget
  <2>3. TypeTables' /\ TypeHosts'
    BY <2>2 DEF TypeTables, TypeHosts, hostVars
  <2>4. \A t \in TaskIds : tasks'[t] \in {tasks[t], None}
    BY <2>2
  <2>5. active' = {t \in active : tasks'[t] # None}
    BY <2>2 DEF OccupancyExact
  <2>6. OccupancyExact' /\ RecordsSound' /\ SnapsSound' /\ OneAnswer'
    BY <2>1, <2>2, <2>3, <2>4, <2>5, TablesForget DEF TypeTables
  <2>7. AnswerKept'
    <3> SUFFICES ASSUME NEW t \in TaskIds, InTable(t), Ended(t), t \notin thr[h].got, tasks'[t] = tasks[t]
                 PROVE  \/ \E r \in results'[tasks[t].pool] : r.task = t /\ r.rec = tasks[t].rec
                        \/ \E g \in Threads : \/ Snapped(g)' /\ thr'[g].snap.rec = tasks[t].rec
                                              \/ thr'[g].op = "pull" /\ t \in thr'[g].got
      BY <2>2 DEF AnswerKept, InTable, Ended, Snapped
    <3> QED
      BY <2>1, <2>2 DEF AnswersExact, AnswerKept, InTable, Ended, Snapped, SnapsSame
  <2>8. Owned'
    BY <2>1, <2>2, OwnedSame
  <2> QED
    BY <2>1, <2>3, <2>6, <2>7, <2>8 DEF AnswersExact
<1> QED
  BY <1>1, <1>2 DEF Pulling

\* An event of a task that has not ended: its record, and what a drain keeps of it.
LEMMA EventFacts ==
  ASSUME Inv, NEW h \in Threads, NEW e \in Batch(h), Matches(e)
  PROVE  /\ thr[h].op = "drain" /\ e \in thr[h].batch /\ e \in Events
         /\ InTable(e.task) /\ ~Ended(e.task) /\ tasks[e.task].pool = e.pool
         /\ e.task \in Unended(e.pool)
         /\ Snapshot(e) \in Snapshots /\ Snapshot(e) # None
         /\ Snapshot(e).task = e.task /\ Snapshot(e).rec = tasks[e.task].rec
         /\ Snapshot(e).pool = tasks[e.task].pool
<1> USE DEF Inv, Types
<1>1. thr[h].op = "drain" /\ e \in thr[h].batch
  BY DEF Batch
<1>2. e \in Events
  BY <1>1, ThreadCases DEF TypeThreads, Drains
<1>3. e.task \in TaskIds /\ e.pool \in PoolIds /\ e.st \in Outcomes
  BY <1>2 DEF Events
<1>4. InTable(e.task) /\ ~Ended(e.task) /\ tasks[e.task].pool = e.pool
  BY DEF Matches, InTable, Ended
<1>5. StatusOf(e.st) \in Terminal
  BY <1>3 DEF StatusOf, Outcomes, Terminal
<1>6. tasks[e.task].rec \in Records
  BY <1>3, <1>4, RunningEnded DEF TaskState
<1>7. Snapshot(e) \in Snapshots
  BY <1>3, <1>5, <1>6 DEF Snapshot, Snapshots
<1>8. Snapshot(e) # None
  BY <1>7, NodePoolAssumption
<1>9. e.task \in Unended(e.pool)
  BY <1>3, <1>4 DEF Unended, OfPool, InTable, Ended
<1> QED
  BY <1>1, <1>2, <1>4, <1>7, <1>8, <1>9 DEF Snapshot

\* The first section of an event ends its task.
LEMMA EndStep ==
  ASSUME Inv, NEW h \in Threads, NEW e \in Batch(h), DrainEnd(h, e)
  PROVE  Inv'
<1> USE DEF Inv, Types
<1> DEFINE s == Snapshot(e)
           t == e.task
<1>1. /\ tasks' = [tasks EXCEPT ![t].status = e.st] /\ active' = active \ {t}
      /\ thr' = [thr EXCEPT ![h] = AfterEvent(h, e, s)] /\ thr[h].pc = "next" /\ Matches(e)
      /\ UNCHANGED <<reserved, results, records, answers>> /\ UNCHANGED hostVars
      /\ e.st # "DEPENDENCY"
  BY DEF DrainEnd
<1>2. /\ thr[h].op = "drain" /\ e \in thr[h].batch /\ e \in Events /\ InTable(t) /\ ~Ended(t)
      /\ s \in Snapshots /\ s # None
      /\ s.task = t /\ s.rec = tasks[t].rec /\ s.pool = tasks[t].pool
  BY <1>1, EventFacts
<1>3. t \in TaskIds /\ e.st \in Terminal
  BY <1>1, <1>2 DEF Events, Outcomes, Terminal
<1>4. ~Snapped(h)
  BY <1>1, <1>2 DEF Snapped, TypeThreads, ThreadSound
<1> HIDE DEF s, t
<1>5. /\ TypeThreads' /\ PendSame /\ \A g \in Threads \ {h} : thr'[g] = thr[g]
      /\ Snapped(h)' /\ thr'[h].snap = s
  <2>1. TypeThreads /\ s \in Snapshots \cup {None}
    BY <1>2
  <2> HIDE DEF Inv, Types
  <2>2. /\ TypeThreads' /\ (\A g \in Threads : Pending(g)' = Pending(g))
        /\ (\A g \in Threads \ {h} : thr'[g] = thr[g])
        /\ (Snapped(h)' <=> s # None) /\ (s # None => thr'[h].snap = s)
    BY <1>1, <1>2, <2>1, AfterEventFacts, ZenonT(60)
  <2> QED
    BY <1>2, <2>2 DEF PendSame
<1>6. /\ tasks'[t] \in TaskState /\ tasks'[t].status = e.st /\ tasks'[t].rec = tasks[t].rec
      /\ tasks'[t].pool = tasks[t].pool
      /\ \A u \in TaskIds \ {t} : tasks'[u] = tasks[u]
  BY <1>1, <1>2, <1>3, RunningEnded DEF TypeTables, TaskState
<1>7. tasks' \in [TaskIds -> {None} \cup TaskState]
  BY <1>1, <1>6 DEF TypeTables
<1>8. Ended(t)' /\ InTable(t)'
  BY <1>3, <1>6, NodePoolAssumption DEF Ended, InTable
<1>9. \A u \in TaskIds :
        /\ InTable(u)' <=> InTable(u)
        /\ InTable(u) => /\ tasks'[u].rec = tasks[u].rec /\ tasks'[u].pool = tasks[u].pool
                         /\ Ended(u) => Ended(u)'
  BY <1>2, <1>6, <1>8 DEF InTable, Ended
<1>10. active' = {u \in active : ~Ended(u)'}
  <2>1. \A u \in active : u \in TaskIds /\ ~Ended(u)
    BY RunningEnded DEF OccupancyExact, InTable
  <2> QED
    BY <1>1, <1>6, <1>8, <2>1 DEF Ended
<1>11. OccupancyExact' /\ RecordsSound' /\ OneAnswer'
  BY <1>1, <1>7, <1>9, <1>10, TablesEnd
<1>12. SnapsSound'
  BY <1>1, <1>2, <1>3, <1>4, <1>5, <1>8, <1>9, SnapsAdd
<1>13. AnswerKept'
  <2> SUFFICES ASSUME NEW u \in TaskIds, InTable(u), Ended(u)'
               PROVE  \/ \E r \in results[tasks[u].pool] : r.task = u /\ r.rec = tasks[u].rec
                      \/ \E g \in Threads : \/ Snapped(g)' /\ thr'[g].snap.rec = tasks[u].rec
                                            \/ thr'[g].op = "pull" /\ u \in thr'[g].got
    BY <1>1, <1>9 DEF AnswerKept, InTable, Ended, Snapped
  <2>1. CASE u = t
    BY <1>2, <1>5, <2>1
  <2>2. CASE u # t
    <3>1. Ended(u)
      BY <1>6, <2>2 DEF Ended
    <3>2. \A g \in Threads : Snapped(g) \/ thr[g].op = "pull" => thr'[g] = thr[g]
      BY <1>2, <1>4, <1>5
    <3> QED
      BY <3>1, <3>2 DEF AnswersExact, AnswerKept, InTable, Ended, Snapped
  <2> QED
    BY <2>1, <2>2
<1>14. Owned'
  BY <1>1, <1>5, OwnedSame
<1> QED
  BY <1>1, <1>5, <1>7, <1>11, <1>12, <1>13, <1>14 DEF AnswersExact, TypeTables, TypeHosts, hostVars

\* A dependency failure ends the task, and the pool with all its tasks.
LEMMA DependencyStep ==
  ASSUME Inv, NEW h \in Threads, NEW e \in Batch(h), DrainDependency(h, e)
  PROVE  Inv'
<1> USE DEF Inv, Types
<1> DEFINE s == Snapshot(e)
           t == e.task
           p == e.pool
<1>1. /\ FailTasks(p, {t}) /\ Matches(e) /\ thr[h].pc = "next"
      /\ thr' = [thr EXCEPT ![h] = AfterEvent(h, e, s)]
      /\ UNCHANGED <<reserved, records, backend, gens, run, ev, reb>>
  BY DEF DrainDependency, StopWith
<1>2. /\ thr[h].op = "drain" /\ e \in thr[h].batch /\ e \in Events /\ InTable(t) /\ ~Ended(t)
      /\ s \in Snapshots /\ s # None /\ t \in Unended(p)
      /\ s.task = t /\ s.rec = tasks[t].rec /\ s.pool = tasks[t].pool
  BY <1>1, EventFacts
<1>3. t \in TaskIds /\ p \in PoolIds
  BY <1>2 DEF Events
<1>4. ~Snapped(h)
  BY <1>1, <1>2 DEF Snapped, TypeThreads, ThreadSound
<1> HIDE DEF s, t, p
<1>5. /\ TypeThreads' /\ PendSame /\ \A g \in Threads \ {h} : thr'[g] = thr[g]
      /\ Snapped(h)' /\ thr'[h].snap = s
  <2>1. TypeThreads /\ s \in Snapshots \cup {None}
    BY <1>2
  <2> HIDE DEF Inv, Types
  <2>2. /\ TypeThreads' /\ (\A g \in Threads : Pending(g)' = Pending(g))
        /\ (\A g \in Threads \ {h} : thr'[g] = thr[g])
        /\ (Snapped(h)' <=> s # None) /\ (s # None => thr'[h].snap = s)
    BY <1>1, <1>2, <2>1, AfterEventFacts, ZenonT(60)
  <2> QED
    BY <1>2, <2>2 DEF PendSame
<1>6. /\ tasks' \in [TaskIds -> {None} \cup TaskState]
      /\ \A u \in TaskIds :
           /\ InTable(u)' <=> InTable(u)
           /\ InTable(u) => /\ tasks'[u].rec = tasks[u].rec /\ tasks'[u].pool = tasks[u].pool
                            /\ Ended(u)' <=> Ended(u) \/ u \in Unended(p)
      /\ active' = {u \in active : ~Ended(u)'}
      /\ answers' \in [Records -> Nat]
      /\ \A r \in Records :
           \/ answers'[r] = answers[r]
           \/ /\ answers[r] = 0 /\ answers'[r] = 1
              /\ \E u \in Unended(p) \ {t} : tasks[u].rec = r
      /\ results' \in [PoolIds -> SUBSET Result]
      /\ \A q \in PoolIds : results[q] \subseteq results'[q]
      /\ \A u \in Unended(p) \ {t} : \E r \in results'[p] : r.task = u /\ r.rec = tasks[u].rec
  BY <1>1, <1>2, <1>3, FailFacts
<1>7. \A u \in Unended(p) : u \in TaskIds /\ InTable(u) /\ ~Ended(u) /\ tasks[u].pool = p
  BY DEF Unended, OfPool, InTable, Ended
<1>8. OccupancyExact' /\ RecordsSound' /\ OneAnswer'
  BY <1>1, <1>6, <1>7, TablesEnd
<1>9. SnapsSound'
  <2>1. \A g \in Threads : Snapped(g)' => answers'[thr'[g].snap.rec] = answers[thr'[g].snap.rec]
    <3> SUFFICES ASSUME NEW g \in Threads, Snapped(g)'
                 PROVE  answers'[thr'[g].snap.rec] = answers[thr'[g].snap.rec]
      OBVIOUS
    <3>1. thr'[g].snap.rec \in Records
      BY <1>5, ThreadCases DEF TypeThreads, Drains, Snapped, Snapshots
    <3>2. \A u \in Unended(p) \ {t} : tasks[u].rec # thr'[g].snap.rec
      <4>1. CASE g = h
        BY <1>2, <1>3, <1>5, <1>7, <4>1 DEF RecordsSound
      <4>2. CASE g # h
        BY <1>5, <1>7, <4>2 DEF SnapsSound, Snapped
      <4> QED
        BY <4>1, <4>2
    <3> QED
      BY <1>6, <3>1, <3>2
  <2>2. Ended(t)'
    BY <1>2, <1>3, <1>6
  <2>3. \A u \in TaskIds :
          /\ InTable(u)' <=> InTable(u)
          /\ InTable(u) => /\ tasks'[u].rec = tasks[u].rec /\ tasks'[u].pool = tasks[u].pool
                           /\ Ended(u) => Ended(u)'
    BY <1>6
  <2> QED
    BY <1>1, <1>2, <1>3, <1>4, <1>5, <2>1, <2>2, <2>3, SnapsAdd
<1>10. AnswerKept'
  <2> SUFFICES ASSUME NEW u \in TaskIds, InTable(u), Ended(u)'
               PROVE  \/ \E r \in results'[tasks[u].pool] : r.task = u /\ r.rec = tasks[u].rec
                      \/ \E g \in Threads : \/ Snapped(g)' /\ thr'[g].snap.rec = tasks[u].rec
                                            \/ thr'[g].op = "pull" /\ u \in thr'[g].got
    BY <1>6 DEF AnswerKept, InTable, Ended, Snapped
  <2>1. CASE u = t
    BY <1>2, <1>5, <2>1
  <2>2. CASE u \in Unended(p) \ {t}
    BY <1>6, <1>7, <2>2
  <2>3. CASE u \notin Unended(p)
    <3>1. Ended(u)
      BY <1>6, <2>3
    <3>2. \A g \in Threads : Snapped(g) \/ thr[g].op = "pull" => thr'[g] = thr[g]
      BY <1>2, <1>4, <1>5
    <3>3. tasks[u].pool \in PoolIds
      BY RunningEnded DEF TaskState
    <3> QED
      BY <1>6, <3>1, <3>2, <3>3 DEF AnswersExact, AnswerKept, InTable, Ended, Snapped
  <2> QED
    BY <2>1, <2>2, <2>3
<1>11. Owned'
  BY <1>1, <1>5, OwnedSame
<1> QED
  BY <1>1, <1>5, <1>6, <1>8, <1>9, <1>10, <1>11 DEF AnswersExact, TypeTables, TypeHosts

\* The second section of an event queues the result of the snapshot.
LEMMA PushStep ==
  ASSUME Inv, NEW h \in Threads, NEW ok \in BOOLEAN, DrainPush(h, ok)
  PROVE  Inv'
<1> USE DEF Inv, Types
<1>0. PICK s, t : s = thr[h].snap /\ t = s.task
  OBVIOUS
<1> DEFINE st == IF ok THEN s.status ELSE "FAILED_INFRA"
           mine == tasks[t] # None /\ tasks[t].rec = s.rec
           y  == IF thr[h].batch = {} THEN Idle ELSE [thr[h] EXCEPT !.snap = None, !.pc = "next"]
<1>1. /\ tasks' = IF mine THEN [tasks EXCEPT ![t].status = st] ELSE tasks
      /\ results' = IF ~mine THEN results
                    ELSE [results EXCEPT ![s.pool] = @ \cup
                            {[task |-> t, rec |-> s.rec, status |-> st]}]
      /\ answers' = IF mine THEN [answers EXCEPT ![s.rec] = @ + 1] ELSE answers
      /\ thr' = [thr EXCEPT ![h] = y] /\ thr[h].op = "drain" /\ thr[h].pc = "push"
      /\ UNCHANGED <<active, reserved, records>> /\ UNCHANGED hostVars
  BY <1>0 DEF DrainPush
<1>2. thr[h] \in Drains /\ Snapped(h) /\ s \in Snapshots /\ s = thr[h].snap /\ t = s.task
  BY <1>0, <1>1, ThreadCases DEF TypeThreads, ThreadSound, Snapped, Drains
<1>3. t \in TaskIds /\ st \in Terminal /\ s.pool \in PoolIds /\ s.rec \in Records
  BY <1>2 DEF Snapshots, Terminal
<1>4. ThreadSound(y) /\ y.op # "pull" /\ y.op # "submit" /\ (y.op = "drain" => y.snap = None)
  <2>1. CASE thr[h].batch = {}
    BY <2>1, IdleSound DEF Idle
  <2>2. CASE thr[h].batch # {}
    <3> DEFINE z == [thr[h] EXCEPT !.snap = None, !.pc = "next"]
    <3>1. z \in Drains /\ z.op = "drain" /\ z.snap = None /\ z.pc = "next"
      BY <1>2 DEF Drains
    <3>2. ThreadSound(z)
      BY <3>1 DEF ThreadSound
    <3> HIDE DEF z
    <3> QED
      BY <2>2, <3>1, <3>2 DEF z
  <2> QED
    BY <2>1, <2>2
<1> HIDE DEF y, st
<1>5. TypeThreads' /\ thr'[h] = y /\ \A g \in Threads \ {h} : thr'[g] = thr[g]
  BY <1>1, <1>4, ThreadPut
<1>6. PendSame /\ ~Snapped(h)'
  BY <1>1, <1>4, <1>5 DEF PendSame, Pending, Snapped
<1>7. \A u \in TaskIds : InTable(u) /\ tasks[u].rec = s.rec =>
        u = t /\ tasks[u].pool = s.pool /\ Ended(u)
  BY <1>2 DEF SnapsSound
<1>8. answers[s.rec] = 0
  BY <1>2 DEF SnapsSound
<1>9. /\ tasks' \in [TaskIds -> {None} \cup TaskState]
      /\ \A u \in TaskIds :
           /\ InTable(u)' <=> InTable(u)
           /\ InTable(u) => /\ tasks'[u].rec = tasks[u].rec /\ tasks'[u].pool = tasks[u].pool
                            /\ Ended(u)' <=> Ended(u)
  <2>1. CASE mine
    <3>1. tasks[t] \in TaskState /\ Ended(t)
      BY <1>3, <1>7, <2>1, RunningEnded DEF InTable
    <3>2. /\ tasks'[t] \in TaskState /\ tasks'[t].status = st /\ tasks'[t].rec = tasks[t].rec
          /\ tasks'[t].pool = tasks[t].pool
      BY <1>1, <1>3, <2>1, <3>1 DEF TaskState, TypeTables
    <3>3. \A u \in TaskIds \ {t} : tasks'[u] = tasks[u]
      BY <1>1, <2>1 DEF TypeTables
    <3>4. InTable(t) /\ InTable(t)' /\ Ended(t)'
      BY <1>3, <2>1, <3>2, NodePoolAssumption DEF InTable, Ended
    <3>5. tasks' \in [TaskIds -> {None} \cup TaskState]
      BY <1>1, <1>3, <2>1, <3>2 DEF TypeTables
    <3> HIDE DEF mine
    <3> QED
      BY <3>1, <3>2, <3>3, <3>4, <3>5 DEF InTable, Ended
  <2>2. CASE ~mine
    BY <1>1, <2>2 DEF TypeTables, InTable, Ended
  <2> QED
    BY <2>1, <2>2
<1>10. active' = {u \in active : ~Ended(u)'}
  <2>1. \A u \in active : u \in TaskIds /\ InTable(u) /\ ~Ended(u)
    BY RunningEnded DEF OccupancyExact, InTable
  <2> QED
    BY <1>1, <1>9, <2>1
<1>11. \A r \in Records :
         \/ answers'[r] = answers[r]
         \/ /\ answers[r] = 0 /\ answers'[r] = 1
            /\ r = s.rec
            /\ \E u \in TaskIds : InTable(u) /\ tasks[u].rec = r /\ Ended(u)'
  <2> TAKE r \in Records
  <2>1. CASE mine /\ r = s.rec
    <3>1. answers'[r] = 1
      BY <1>1, <1>3, <1>8, <2>1 DEF TypeTables
    <3>2. InTable(t) /\ tasks[t].rec = r /\ Ended(t)'
      BY <1>3, <1>7, <1>9, <2>1 DEF InTable
    <3> QED
      BY <1>3, <1>8, <2>1, <3>1, <3>2
  <2>2. CASE ~(mine /\ r = s.rec)
    BY <1>1, <1>3, <2>2 DEF TypeTables
  <2> QED
    BY <2>1, <2>2
<1>12. OccupancyExact' /\ RecordsSound' /\ OneAnswer'
  BY <1>1, <1>9, <1>10, <1>11, TablesEnd
<1>13. SnapsSound'
  <2>1. \A g \in Threads : Snapped(g)' =>
          /\ Snapped(g) /\ thr'[g].snap = thr[g].snap
          /\ answers'[thr[g].snap.rec] = answers[thr[g].snap.rec]
    <3> SUFFICES ASSUME NEW g \in Threads, Snapped(g)'
                 PROVE  /\ Snapped(g) /\ thr'[g].snap = thr[g].snap
                        /\ answers'[thr[g].snap.rec] = answers[thr[g].snap.rec]
      OBVIOUS
    <3>1. g # h /\ Snapped(g) /\ thr'[g] = thr[g]
      BY <1>5, <1>6 DEF Snapped
    <3>2. thr[g].snap.rec # s.rec
      BY <1>2, <3>1 DEF SnapsSound
    <3>3. thr[g].snap.rec \in Records
      BY <3>1, ThreadCases DEF TypeThreads, Drains, Snapped, Snapshots
    <3> QED
      BY <1>11, <3>1, <3>2, <3>3
  <2>2. records' >= records /\ records \in Nat /\ records' \in Nat
    BY <1>1 DEF TypeTables
  <2>3. \A g \in Threads, u \in TaskIds :
          Snapped(g)' /\ InTable(u)' /\ tasks'[u].rec = thr[g].snap.rec =>
            InTable(u) /\ tasks[u].rec = tasks'[u].rec /\ tasks'[u].pool = tasks[u].pool
            /\ (Ended(u) => Ended(u)')
    BY <1>9
  <2> QED
    BY <2>1, <2>2, <2>3, SnapsStay
<1>14. /\ \A p \in PoolIds : results[p] \subseteq results'[p] /\ results'[p] \subseteq Result
       /\ mine => [task |-> t, rec |-> s.rec, status |-> st] \in results'[s.pool]
       /\ results' \in [PoolIds -> SUBSET Result]
  <2>1. [task |-> t, rec |-> s.rec, status |-> st] \in Result
    BY <1>3 DEF Result
  <2> QED
    BY <1>1, <1>3, <2>1 DEF TypeTables
<1>15. AnswerKept'
  <2> SUFFICES ASSUME NEW u \in TaskIds, InTable(u), Ended(u)
               PROVE  \/ \E r \in results'[tasks[u].pool] : r.task = u /\ r.rec = tasks[u].rec
                      \/ \E g \in Threads : \/ Snapped(g)' /\ thr'[g].snap.rec = tasks[u].rec
                                            \/ thr'[g].op = "pull" /\ u \in thr'[g].got
    BY <1>9 DEF AnswerKept, InTable, Ended, Snapped
  <2>1. CASE tasks[u].rec = s.rec
    <3>1. u = t /\ mine /\ tasks[u].pool = s.pool
      BY <1>7, <2>1 DEF InTable
    <3> DEFINE x == [task |-> t, rec |-> s.rec, status |-> st]
    <3>2. x \in results'[tasks[u].pool]
      BY <1>14, <3>1
    <3>3. x.task = u /\ x.rec = tasks[u].rec
      BY <2>1, <3>1
    <3> QED
      BY <3>2, <3>3
  <2>2. CASE tasks[u].rec # s.rec
    <3>1. tasks[u].pool \in PoolIds
      BY RunningEnded DEF TaskState
    <3>2. \A g \in Threads : g # h => thr'[g] = thr[g]
      BY <1>5
    <3>3. thr[h].op # "pull" /\ (Snapped(h) => thr[h].snap.rec # tasks[u].rec)
      BY <1>1, <1>2, <2>2
    <3>4. \A q \in PoolIds : results[q] \subseteq results'[q]
      BY <1>14
    <3> HIDE DEF mine
    <3> QED
      BY <3>1, <3>2, <3>3, <3>4 DEF AnswersExact, AnswerKept, InTable, Ended, Snapped
  <2> QED
    BY <2>1, <2>2
<1>16. answers' \in [Records -> Nat]
  BY <1>1, <1>3 DEF TypeTables
<1>17. Owned'
  BY <1>1, <1>6, OwnedSame
<1> QED
  BY <1>1, <1>5, <1>9, <1>12, <1>13, <1>14, <1>15, <1>16, <1>17
     DEF AnswersExact, TypeTables, TypeHosts, hostVars

\* The other steps of a drain only touch its own events.
LEMMA DrainStep ==
  ASSUME Inv, NEW h \in Threads, Draining(h)
  PROVE  Inv'
<1> USE DEF Inv, Types
<1>1. CASE DrainBegin(h) \/ DrainTake(h) \/ \E e \in Batch(h) : DrainSkip(h, e)
  <2>1. TypeThreads' /\ SnapsSame /\ PullsKept /\ PendSame
    BY <1>1, QuietDrains
  <2>2. /\ UNCHANGED tableVars /\ UNCHANGED <<backend, gens, run, reb>> /\ ev' \subseteq ev
    BY <1>1 DEF DrainBegin, DrainTake, DrainSkip, hostVars
  <2>3. TypeTables' /\ TypeHosts'
    BY <2>2 DEF TypeTables, TypeHosts, tableVars
  <2>4. active' = {u \in active : tasks'[u] # None}
    BY <2>2 DEF OccupancyExact, tableVars
  <2>5. OccupancyExact' /\ RecordsSound' /\ SnapsSound' /\ OneAnswer'
    BY <2>1, <2>2, <2>3, <2>4, TablesForget DEF TypeTables, tableVars
  <2>6. AnswerKept'
    BY <2>1, <2>2, AnswersStay DEF AnswersExact, InTable, Ended, tableVars
  <2>7. Owned'
    BY <2>1, <2>2, OwnedSame DEF tableVars
  <2> QED
    BY <2>1, <2>3, <2>5, <2>6, <2>7 DEF AnswersExact
<1> QED
  BY <1>1, EndStep, DependencyStep, PushStep DEF Draining

\* A pool is stopped: each of its tasks that has not ended fails and is answered.
LEMMA StopStep ==
  ASSUME Inv, NEW p \in PoolIds, StopPool(p)
  PROVE  Inv'
<1> USE DEF Inv, Types
<1>1. FailTasks(p, {}) /\ UNCHANGED <<reserved, records, thr, backend, gens, run, ev, reb>>
  BY DEF StopPool, StopWith
<1>2. TypeThreads' /\ SnapsSame /\ PullsKept /\ PendSame
  BY <1>1 DEF TypeThreads, SnapsSame, PullsKept, PendSame, Snapped, Pending
<1>3. /\ tasks' \in [TaskIds -> {None} \cup TaskState]
      /\ \A u \in TaskIds :
           /\ InTable(u)' <=> InTable(u)
           /\ InTable(u) => /\ tasks'[u].rec = tasks[u].rec /\ tasks'[u].pool = tasks[u].pool
                            /\ Ended(u)' <=> Ended(u) \/ u \in Unended(p)
      /\ active' = {u \in active : ~Ended(u)'}
      /\ answers' \in [Records -> Nat]
      /\ \A r \in Records :
           \/ answers'[r] = answers[r]
           \/ /\ answers[r] = 0 /\ answers'[r] = 1
              /\ \E u \in Unended(p) : tasks[u].rec = r
      /\ results' \in [PoolIds -> SUBSET Result]
      /\ \A q \in PoolIds : results[q] \subseteq results'[q]
      /\ \A u \in Unended(p) : \E r \in results'[p] : r.task = u /\ r.rec = tasks[u].rec
  <2>1. {} \in SUBSET Unended(p) /\ Unended(p) \ {} = Unended(p)
    OBVIOUS
  <2> HIDE DEF Inv, Types
  <2> QED
    BY <1>1, <2>1, FailFacts
<1>4. \A u \in Unended(p) : u \in TaskIds /\ InTable(u) /\ ~Ended(u) /\ tasks[u].pool = p
  BY DEF Unended, OfPool, InTable, Ended
<1>5. OccupancyExact' /\ RecordsSound' /\ OneAnswer'
  BY <1>1, <1>3, <1>4, TablesEnd
<1>6. SnapsSound'
  <2>1. \A g \in Threads : Snapped(g)' =>
          /\ Snapped(g) /\ thr'[g].snap = thr[g].snap
          /\ answers'[thr[g].snap.rec] = answers[thr[g].snap.rec]
    <3> SUFFICES ASSUME NEW g \in Threads, Snapped(g)
                 PROVE  answers'[thr[g].snap.rec] = answers[thr[g].snap.rec]
      BY <1>1 DEF Snapped
    <3>1. thr[g].snap.rec \in Records
      BY ThreadCases DEF TypeThreads, Drains, Snapped, Snapshots
    <3>2. \A u \in Unended(p) : tasks[u].rec # thr[g].snap.rec
      BY <1>4 DEF SnapsSound
    <3> QED
      BY <1>3, <3>1, <3>2
  <2>2. records' >= records /\ records \in Nat /\ records' \in Nat
    BY <1>1 DEF TypeTables
  <2> QED
    BY <1>3, <2>1, <2>2, SnapsStay
<1>7. AnswerKept'
  <2> SUFFICES ASSUME NEW u \in TaskIds, InTable(u), Ended(u)'
               PROVE  \/ \E r \in results'[tasks[u].pool] : r.task = u /\ r.rec = tasks[u].rec
                      \/ \E g \in Threads : \/ Snapped(g) /\ thr[g].snap.rec = tasks[u].rec
                                            \/ thr[g].op = "pull" /\ u \in thr[g].got
    BY <1>1, <1>3 DEF AnswerKept, InTable, Ended, Snapped
  <2>1. CASE u \in Unended(p)
    BY <1>3, <1>4, <2>1
  <2>2. CASE u \notin Unended(p)
    <3>1. Ended(u) /\ tasks[u].pool \in PoolIds
      BY <1>3, <2>2, RunningEnded DEF TaskState
    <3> QED
      BY <1>3, <3>1 DEF AnswersExact, AnswerKept, InTable, Ended, Snapped
  <2> QED
    BY <2>1, <2>2
<1>8. Owned'
  BY <1>1, <1>2, OwnedSame
<1> QED
  BY <1>1, <1>2, <1>3, <1>5, <1>6, <1>7, <1>8 DEF AnswersExact, TypeTables, TypeHosts

\* A stopped pool is forgotten, with its tasks and results.
LEMMA PruneStep ==
  ASSUME Inv, NEW p \in PoolIds, Prune(p)
  PROVE  Inv'
<1> USE DEF Inv, Types
<1>1. /\ results' = [results EXCEPT ![p] = {}] /\ active' = active \ OfPool(p)
      /\ tasks' = [t \in TaskIds |-> IF t \in OfPool(p) THEN None ELSE tasks[t]]
      /\ UNCHANGED <<reserved, records, answers, thr>> /\ UNCHANGED hostVars
  BY DEF Prune
<1>2. TypeThreads' /\ SnapsSame /\ PullsKept /\ PendSame
  BY <1>1 DEF TypeThreads, SnapsSame, PullsKept, PendSame, Snapped, Pending
<1>3. TypeTables' /\ TypeHosts'
  BY <1>1 DEF TypeTables, TypeHosts, hostVars
<1>4. \A t \in TaskIds : tasks'[t] \in {tasks[t], None}
  BY <1>1
<1>5. active' = {t \in active : tasks'[t] # None}
  BY <1>1 DEF OccupancyExact
<1>6. OccupancyExact' /\ RecordsSound' /\ SnapsSound' /\ OneAnswer'
  BY <1>1, <1>2, <1>3, <1>4, <1>5, TablesForget DEF TypeTables
<1>7. AnswerKept'
  <2>1. \A t \in TaskIds : InTable(t)' => InTable(t) /\ tasks'[t] = tasks[t] /\ tasks[t].pool # p
    BY <1>1 DEF InTable, OfPool
  <2>2. \A q \in PoolIds \ {p} : results'[q] = results[q]
    BY <1>1 DEF TypeTables
  <2>3. \A t \in TaskIds : InTable(t) => tasks[t].pool \in PoolIds
    BY RunningEnded DEF TaskState
  <2> QED
    BY <1>1, <2>1, <2>2, <2>3 DEF AnswersExact, AnswerKept, InTable
<1>8. Owned'
  BY <1>1, <1>2, OwnedSame
<1> QED
  BY <1>2, <1>3, <1>6, <1>7, <1>8 DEF AnswersExact

\* The invariant holds at the start.
LEMMA InitInv == Init => Inv
<1> SUFFICES ASSUME Init
             PROVE  Inv
  OBVIOUS
<1> USE DEF Init
<1>1. \A h \in Threads : thr[h] = Idle /\ Pending(h) = {} /\ ~Snapped(h)
  BY DEF Idle, Pending, Snapped
<1>2. TypeThreads
  BY <1>1, IdleSound DEF TypeThreads
<1>3. TypeTables /\ TypeHosts
  BY NodePoolAssumption DEF TypeTables, TypeHosts
<1>4. Owned
  BY <1>1 DEF Owned
<1>5. OccupancyExact
  <2>1. Cardinality({}) = 0
    BY FS_EmptySet
  <2> QED
    BY <2>1, NodePoolAssumption DEF OccupancyExact, Occupancy
<1>6. RecordsSound /\ SnapsSound
  BY <1>1 DEF RecordsSound, SnapsSound, InTable
<1>7. AnswersExact
  BY DEF AnswersExact, OneAnswer, AnswerKept
<1> QED
  BY <1>2, <1>3, <1>4, <1>5, <1>6, <1>7 DEF Inv, Types

\* Every step keeps the invariant.
LEMMA StepInv == Inv /\ [Next]_vars => Inv'
<1> SUFFICES ASSUME Inv, [Next]_vars
             PROVE  Inv'
  OBVIOUS
<1>1. CASE \E h \in Threads : Submitting(h) \/ Pulling(h) \/ Draining(h)
  BY <1>1, SubmitStep, PullStep, DrainStep
<1>2. CASE \E p \in PoolIds : StopPool(p) \/ Prune(p)
  BY <1>2, StopStep, PruneStep
<1>3. CASE Hosts \/ Rebuild \/ (\E p \in PoolIds : Open(p)) \/ UNCHANGED vars
  BY <1>3, HostStep
<1> QED
  BY <1>1, <1>2, <1>3 DEF Next, Pools

\* The inductive invariant of the task pools (the four tables and what their
\* threads hold) is an invariant.
THEOREM Invariant == Spec => []Inv
BY InitInv, StepInv, PTL DEF Spec

\* The active index of a node is exact, no reserved id has a record, and both
\* together never exceed the capacity, whatever submits, stops, drains, prunes
\* and rebuilds run at once (submit_pool_tasks).
THEOREM CapacityKept == Spec => []OccupancyExact
<1>1. Inv => OccupancyExact
  BY DEF Inv
<1> QED
  BY <1>1, Invariant, PTL

\* An ended task is answered once: no stop, late event or second drain answers it
\* again, and while its record stays its result is queued, about to be, or pulled.
THEOREM EndedAnsweredOnce == Spec => []AnswersExact
<1>1. Inv => AnswersExact
  BY DEF Inv
<1> QED
  BY <1>1, Invariant, PTL

\* Each reservation is of exactly one submit call that still has to deal with the
\* item (_pool_task_reserved_ids): none is left behind, none is given back twice.
THEOREM EachReservationOwned == Spec => []ReservationsOwned
<1>1. ASSUME Inv, NEW t \in TaskIds
      PROVE  (t \in reserved) = (Cardinality({h \in Threads : t \in Pending(h)}) = 1)
  <2>1. CASE t \in reserved
    <3>1. PICK h \in Threads : t \in Pending(h)
      BY <1>1, <2>1 DEF Inv, Owned
    <3>2. {g \in Threads : t \in Pending(g)} = {h}
      BY <1>1, <3>1 DEF Inv, Owned
    <3> QED
      BY <2>1, <3>2, FS_Singleton
  <2>2. CASE t \notin reserved
    <3>1. {h \in Threads : t \in Pending(h)} = {}
      BY <1>1, <2>2 DEF Inv, Owned
    <3>2. Cardinality({h \in Threads : t \in Pending(h)}) = 0
      BY <3>1, FS_EmptySet
    <3> QED
      BY <2>2, <3>2
  <2> QED
    BY <2>1, <2>2
<1>2. ASSUME NEW t \in TaskIds
      PROVE  {h \in Threads : /\ thr[h].op = "submit" /\ t \in thr[h].todo /\ t # thr[h].item}
               = {h \in Threads : t \in Pending(h)}
  BY DEF Pending
<1>3. Inv => ReservationsOwned
  BY <1>1, <1>2 DEF ReservationsOwned
<1> QED
  BY <1>3, Invariant, PTL

=============================================================================
