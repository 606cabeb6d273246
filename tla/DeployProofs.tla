----------------------------- MODULE DeployProofs -----------------------------
(***************************************************************************)
(* Proofs about Deploy for every value of its constants: however a call or *)
(* a session ends, it leaves no replica and no lock that nobody owns and   *)
(* no old code beside new code; sessions of one owner hold locks in        *)
(* different processes; what a closed handle leaves can be taken up again. *)
(***************************************************************************)
EXTENDS Deploy, TLAPS

-----------------------------------------------------------------------------
(* How deployments end. *)

Fields == {"pc", "round", "cand", "todo", "infos", "lost", "cache", "ino", "sel", "tried", "got", "ses",
           "fail", "flag", "hurt", "out"}
IsState(s) == s = [f \in Fields |-> s[f]] /\ s.fail = [n \in Nodes |-> s.fail[n]]

\* The steps in which a call holds no lock.
NoLock == Over \cup Waiting \cup {"idle", "find", "inspect", "unlink", "delete"}
LockOk(s) == s.pc \in NoLock => s.ino = 0

\* A call makes nothing before it creates; what it has made since is in its hands,
\* unless a call to a node failed with its effect unknown.
Before == Waiting \cup {"idle", "find", "inspect", "reuse", "unlink", "end"}
By(c, L) == {r \in L : r.by = c}
MadeOk(c, s, L) ==
  /\ s.pc \in Before => By(c, L) = {}
  /\ ~s.hurt => /\ s.pc = "create" => By(c, L) \subseteq s.got \cup s.ses
                /\ s.pc = "undo" /\ s.out = "failed" => By(c, L) \subseteq s.todo
                /\ s.pc = "delete" /\ s.out = "failed" => By(c, L) = {}
                /\ s.pc = "failed" => By(c, L) = {}
  /\ s.got # {} => s.pc = "create"
  /\ s.pc \in {"undo", "delete"} => s.out \in {"failed", "closed"}

\* What a call that replaces other code knows of the replicas it has found.
OurCode(c, s) == \A r \in s.infos : r.code = plan[c].code
FoundOk(c, s, L) ==
  /\ s.pc \in {"inspect", "reuselock", "replacelock", "reuse", "end"} => \A r \in s.infos \cup s.todo : r.node \in Nodes
  /\ s.pc \in {"reuselock", "reuse"} => OurCode(c, s)
  /\ s.pc = "lock" => s.infos = {} \/ s.cache = None \/ OurCode(c, s)
  /\ s.pc = "end" /\ s.fail = Fresh.fail => (s.infos \ s.todo) \cap L = {}
  /\ s.pc \in {"create", "open"} => s.cache = None \/ OurCode(c, s) \/ s.infos \cap L = {}

CallOk(c, s, L) == LockOk(s) /\ MadeOk(c, s, L) /\ FoundOk(c, s, L)

Shape ==
  /\ st = [c \in Clients |-> st[c]] /\ \A c \in Clients : IsState(st[c])
  /\ up \subseteq Nodes /\ listed \subseteq Nodes /\ \A r \in live : r.node \in up

DeployInv == Shape /\ \A c \in Clients : CallOk(c, st[c], live)

\* What a step does to the state of its call.
Goes(c, new) ==
  /\ st' = [d \in Clients |-> st'[d]] /\ \A d \in Clients : IsState(st'[d])
  /\ \A d \in Clients : d # c => st'[d] = st[d]
  /\ st'[c].pc = new.pc /\ st'[c].ses = new.ses /\ st'[c].hurt = new.hurt /\ st'[c].flag = new.flag
  /\ new.pc \in Over => /\ st'[c].got = {}
                        /\ st'[c].ino = IF new.pc = "dead" THEN 0 ELSE new.ino
  /\ new.pc \notin Over => /\ st'[c].ino = new.ino /\ st'[c].infos = new.infos /\ st'[c].cache = new.cache
                           /\ st'[c].todo = new.todo /\ st'[c].got = new.got /\ st'[c].out = new.out
  /\ new.pc \notin Over \cup {"open"} => st'[c].fail = new.fail

\* A state that is kept is one, with the same step.
LEMMA KeptIs ==
  ASSUME NEW s, IsState(s)
  PROVE  /\ IsState(Kept(s)) /\ Kept(s).pc = s.pc /\ Kept(s).ses = s.ses /\ Kept(s).hurt = s.hurt /\ Kept(s).flag = s.flag
         /\ s.pc \in Over => Kept(s).got = {} /\ Kept(s).ino = IF s.pc = "dead" THEN 0 ELSE s.ino
         /\ s.pc \notin Over => /\ Kept(s).ino = s.ino /\ Kept(s).infos = s.infos /\ Kept(s).cache = s.cache
                                /\ Kept(s).todo = s.todo /\ Kept(s).got = s.got /\ Kept(s).out = s.out
         /\ s.pc \notin Over \cup {"open"} => Kept(s).fail = s.fail
<1>1. CASE s.pc \in Over
  <2> DEFINE i == IF s.pc = "dead" THEN 0 ELSE s.ino
             k == [Fresh EXCEPT !.pc = s.pc, !.ses = s.ses, !.hurt = s.hurt, !.flag = s.flag, !.ino = i]
  <2>1. Kept(s) = k
    BY <1>1 DEF Kept
  <2>2. IsState(Fresh) /\ Fresh.got = {}
    BY DEF IsState, Fields, Fresh
  <2>3. i = IF s.pc = "dead" THEN 0 ELSE s.ino
    OBVIOUS
  <2> HIDE DEF i
  <2>4. IsState(k)
    BY <2>2 DEF IsState, Fields
  <2>5. k.pc = s.pc /\ k.ses = s.ses /\ k.hurt = s.hurt /\ k.flag = s.flag /\ k.got = {} /\ k.ino = i
    BY <2>2 DEF IsState, Fields
  <2> HIDE DEF k
  <2> QED
    BY <2>1, <2>3, <2>4, <2>5, <1>1 DEF Over
<1>2. CASE s.pc = "open"
  <2> DEFINE k == [s EXCEPT !.cand = {}, !.tried = {}, !.fail = Fresh.fail]
  <2>1. Kept(s) = k
    BY <1>2 DEF Kept, Over
  <2>2. Fresh.fail = [n \in Nodes |-> Fresh.fail[n]]
    BY DEF Fresh
  <2>3. IsState(k) /\ k.pc = s.pc /\ k.ses = s.ses /\ k.hurt = s.hurt /\ k.flag = s.flag /\ k.got = s.got
        /\ k.ino = s.ino /\ k.infos = s.infos /\ k.cache = s.cache /\ k.todo = s.todo /\ k.out = s.out
    BY <2>2 DEF IsState, Fields
  <2> HIDE DEF k
  <2> QED
    BY <2>1, <2>3, <1>2 DEF Over
<1>3. CASE s.pc \notin Over \cup {"open"}
  <2>1. Kept(s) = s
    BY <1>3 DEF Kept
  <2> QED
    BY <2>1, <1>3
<1> QED
  BY <1>1, <1>2, <1>3

\* So steps that set the state of one call have this effect.
LEMMA SetGoes ==
  ASSUME Shape, NEW c \in Clients, NEW new, IsState(new), Set(c, new)
  PROVE  Goes(c, new)
<1>1. PICK k : k = Kept(new)
  OBVIOUS
<1>2. st' = [st EXCEPT ![c] = k]
  BY <1>1 DEF Set
<1>3. st'[c] = k /\ (\A d \in Clients : d # c => st'[d] = st[d]) /\ st' = [d \in Clients |-> st'[d]]
  BY <1>2 DEF Shape
<1>4. \A d \in Clients : IsState(st'[d])
  <2> SUFFICES ASSUME NEW d \in Clients PROVE IsState(st'[d])
    OBVIOUS
  <2>1. IsState(k)
    BY <1>1, KeptIs
  <2>2. IsState(st[d])
    BY DEF Shape
  <2> QED
    BY <2>1, <2>2, <1>3
<1>5. k.pc = new.pc /\ k.ses = new.ses /\ k.hurt = new.hurt /\ k.flag = new.flag
      /\ (new.pc \in Over => k.got = {} /\ k.ino = IF new.pc = "dead" THEN 0 ELSE new.ino)
      /\ (new.pc \notin Over => /\ k.ino = new.ino /\ k.infos = new.infos /\ k.cache = new.cache
                                /\ k.todo = new.todo /\ k.got = new.got /\ k.out = new.out)
      /\ (new.pc \notin Over \cup {"open"} => k.fail = new.fail)
  BY <1>1, KeptIs
<1> QED
  BY <1>3, <1>4, <1>5 DEF Goes

\* Replicas that a step makes: of its call, on a node that answers, under a name of their own.
Made(c, r) == r.by = c /\ r.node \in up /\ \A d \in Clients : r \notin st[d].infos

\* A call that takes no step itself.
LEMMA OthersKeep ==
  ASSUME DeployInv, NEW d \in Clients, st'[d] = st[d], UNCHANGED plan,
         \A r \in live' : r \in live \/ (r.by # d /\ r \notin st[d].infos)
  PROVE  CallOk(d, st[d], live)'
<1>1. CallOk(d, st[d], live)
  BY DEF DeployInv
<1>2. By(d, live') \subseteq By(d, live) /\ st[d].infos \cap live' \subseteq st[d].infos \cap live
  BY DEF By
<1>3. LockOk(st[d])'
  BY <1>1 DEF CallOk, LockOk
<1>4. MadeOk(d, st[d], live)'
  BY <1>1, <1>2 DEF CallOk, MadeOk
<1>5. FoundOk(d, st[d], live)'
  BY <1>1, <1>2 DEF CallOk, FoundOk, OurCode, Fresh
<1> QED
  BY <1>3, <1>4, <1>5 DEF CallOk

\* A step of a call.
LEMMA CallStep ==
  ASSUME DeployInv, NEW c \in Clients, NEW new, IsState(new), Set(c, new), UNCHANGED <<plan, up>>, listed' \subseteq Nodes,
         NEW L, L = live', \A r \in L : r \in live \/ Made(c, r), CallOk(c, new, L)
  PROVE  DeployInv'
<1>1. Goes(c, new)
  BY SetGoes DEF DeployInv
<1>2. Shape'
  BY <1>1 DEF Shape, Goes, DeployInv, Made
<1>3. CallOk(c, st[c], live)'
  <2> DEFINE k == st'[c]
  <2>0. k.pc = new.pc /\ k.ses = new.ses /\ k.hurt = new.hurt
        /\ (new.pc \in Over => k.got = {} /\ k.ino = IF new.pc = "dead" THEN 0 ELSE new.ino)
        /\ (new.pc \notin Over => /\ k.ino = new.ino /\ k.infos = new.infos /\ k.cache = new.cache
                                  /\ k.todo = new.todo /\ k.got = new.got /\ k.out = new.out)
        /\ (new.pc \notin Over \cup {"open"} => k.fail = new.fail)
    BY <1>1 DEF Goes
  <2> HIDE DEF k
  <2>1. LockOk(k)
    BY <2>0 DEF CallOk, LockOk, NoLock, Over, Waiting
  <2>2. MadeOk(c, k, L)
    BY <2>0 DEF CallOk, MadeOk, Over, Before, Waiting
  <2>3. FoundOk(c, k, L)
    BY <2>0 DEF CallOk, FoundOk, OurCode, Over
  <2>4. LockOk(st[c])' /\ MadeOk(c, st[c], live)' /\ FoundOk(c, st[c], live)'
    BY <2>1, <2>2, <2>3 DEF k, LockOk, MadeOk, FoundOk, OurCode, Fresh, By
  <2> QED
    BY <2>4 DEF CallOk
<1>4. ASSUME NEW d \in Clients, d # c PROVE CallOk(d, st[d], live)'
  <2>1. st'[d] = st[d]
    BY <1>1, <1>4 DEF Goes
  <2>2. \A r \in live' : r \in live \/ (r.by # d /\ r \notin st[d].infos)
    BY <1>4 DEF Made
  <2> QED
    BY <2>1, <2>2, OthersKeep
<1> QED
  BY <1>2, <1>3, <1>4 DEF DeployInv

-----------------------------------------------------------------------------
(* Before a call creates. *)

\* A call that gives up before it has made anything.
LEMMA FailsEarly ==
  ASSUME DeployInv, NEW c \in Clients, NEW new, IsState(new), Set(c, new), UNCHANGED <<plan, up>>,
         listed' \subseteq Nodes, live' \subseteq live, st[c].pc \in Before, new.pc = "failed", new.ino = 0,
         new.got = st[c].got
  PROVE  DeployInv'
<1>1. CallOk(c, st[c], live)
  BY DEF DeployInv
<1>2. PICK L : L = live'
  OBVIOUS
<1>3. By(c, L) = {} /\ new.got = {}
  BY <1>1, <1>2 DEF CallOk, MadeOk, By, Before, Waiting
<1>4. CallOk(c, new, L)
  BY <1>3 DEF CallOk, LockOk, MadeOk, FoundOk, Before, Waiting
<1> QED
  BY <1>2, <1>4, CallStep

\* A call that goes on without having made anything.
LEMMA GoesEarly ==
  ASSUME DeployInv, NEW c \in Clients, NEW new, IsState(new), Set(c, new), UNCHANGED <<plan, up>>,
         listed' \subseteq Nodes, live' \subseteq live, st[c].pc \in Before, new.pc \in Before \cup {"create"},
         LockOk(new), FoundOk(c, new, live), new.got = st[c].got
  PROVE  DeployInv'
<1>1. CallOk(c, st[c], live)
  BY DEF DeployInv
<1>2. PICK L : L = live'
  OBVIOUS
<1>3. By(c, L) = {} /\ new.got = {}
  BY <1>1, <1>2 DEF CallOk, MadeOk, By, Before, Waiting
<1>4. MadeOk(c, new, L)
  BY <1>3 DEF MadeOk, Before, Waiting
<1>5. FoundOk(c, new, L)
  <2>1. \A S : S \cap live = {} => S \cap L = {}
    BY <1>2
  <2> QED
    BY <2>1 DEF FoundOk, OurCode
<1>6. CallOk(c, new, L)
  BY <1>4, <1>5 DEF CallOk
<1> QED
  BY <1>2, <1>6, CallStep

\* Nodes and routes are found.
LEMMA DiscoverKeeps ==
  ASSUME DeployInv, NEW c \in Clients, Discover(c)
  PROVE  DeployInv'
<1>1. PICK routes, S, pc :
        /\ \A r \in routes : r.node \in listed
        /\ pc \in {"create", "lock", "inspect"}
        /\ Set(c, [st[c] EXCEPT !.pc = pc, !.cand = listed, !.sel = S, !.tried = S, !.todo = routes,
                                !.infos = {}, !.lost = {}])
  <2> DEFINE routes == {r \in view : Service(c) /\ r.node \in listed}
             pc == IF ~Service(c) THEN "create" ELSE IF routes = {} THEN "lock" ELSE "inspect"
  <2>1. PICK S : Set(c, [st[c] EXCEPT !.pc = pc, !.cand = listed, !.sel = S, !.tried = S, !.todo = routes,
                                      !.infos = {}, !.lost = {}])
    BY DEF Discover
  <2>2. (\A r \in routes : r.node \in listed) /\ pc \in {"create", "lock", "inspect"}
    OBVIOUS
  <2> HIDE DEF routes, pc
  <2> QED
    BY <2>1, <2>2
<1> DEFINE new == [st[c] EXCEPT !.pc = pc, !.cand = listed, !.sel = S, !.tried = S, !.todo = routes,
                                !.infos = {}, !.lost = {}]
<1>0. /\ st[c].pc \in {"idle", "find"} /\ UNCHANGED <<plan, up, live, listed>>
  BY DEF Discover, cluster, replicas
<1>s. IsState(st[c]) /\ CallOk(c, st[c], live) /\ Shape
  BY DEF DeployInv, Shape
<1>2. IsState(new) /\ new.pc = pc /\ new.todo = routes /\ new.infos = {} /\ new.got = st[c].got /\ new.ino = st[c].ino
  BY <1>s DEF IsState, Fields
<1>3. Set(c, new)
  BY <1>1
<1> HIDE DEF new
<1>4. LockOk(new)
  BY <1>0, <1>2, <1>s DEF CallOk, LockOk, NoLock
<1>5. FoundOk(c, new, live)
  BY <1>1, <1>2, <1>s DEF FoundOk, OurCode, Shape
<1>6. st[c].pc \in Before /\ new.pc \in Before \cup {"create"} /\ listed' \subseteq Nodes /\ live' \subseteq live
  BY <1>0, <1>1, <1>2, <1>s DEF Before, Waiting, Shape
<1> QED
  BY <1>0, <1>2, <1>3, <1>4, <1>5, <1>6, GoesEarly

\* Too few nodes.
LEMMA NoNodesKeeps ==
  ASSUME DeployInv, NEW c \in Clients, NoNodes(c)
  PROVE  DeployInv'
<1> DEFINE new == [st[c] EXCEPT !.pc = "failed"]
<1>0. st[c].pc \in {"idle", "find"} /\ UNCHANGED <<plan, up, live, listed>> /\ Set(c, new)
  BY DEF NoNodes, cluster, replicas
<1>s. IsState(st[c]) /\ CallOk(c, st[c], live) /\ Shape
  BY DEF DeployInv, Shape
<1>2. IsState(new) /\ new.pc = "failed" /\ new.got = st[c].got /\ new.ino = st[c].ino
  BY <1>s DEF IsState, Fields
<1> HIDE DEF new
<1>3. new.ino = 0 /\ st[c].pc \in Before /\ listed' \subseteq Nodes /\ live' \subseteq live
  BY <1>0, <1>2, <1>s DEF CallOk, LockOk, NoLock, Before, Shape
<1> QED
  BY <1>0, <1>2, <1>3, FailsEarly

\* Routes that lead nowhere.
LEMMA StaleKeeps ==
  ASSUME DeployInv, NEW c \in Clients, StaleRoutes(c)
  PROVE  DeployInv'
<1> DEFINE pc == IF st[c].round = 2 THEN "failed" ELSE "find"
           k == st[c].round + 1
           new == [st[c] EXCEPT !.round = k, !.pc = pc]
<1>1. Set(c, new) /\ pc \in {"failed", "find"}
  BY DEF StaleRoutes
<1> HIDE DEF pc, k
<1>0. st[c].pc = "inspect" /\ UNCHANGED <<plan, up, live>> /\ listed' \subseteq listed /\ Set(c, new)
  BY <1>1 DEF StaleRoutes, At
<1>s. IsState(st[c]) /\ CallOk(c, st[c], live) /\ Shape
  BY DEF DeployInv, Shape
<1>2. IsState(new) /\ new.pc = pc /\ new.got = st[c].got /\ new.ino = st[c].ino
  BY <1>s DEF IsState, Fields
<1> HIDE DEF new
<1>3. new.ino = 0 /\ st[c].pc \in Before /\ listed' \subseteq Nodes /\ live' \subseteq live
  BY <1>0, <1>2, <1>s DEF CallOk, LockOk, NoLock, Before, Shape
<1>4. CASE pc = "failed"
  BY <1>0, <1>2, <1>3, <1>4, FailsEarly
<1>5. CASE pc = "find"
  <2>1. LockOk(new) /\ FoundOk(c, new, live) /\ new.pc \in Before \cup {"create"}
    BY <1>2, <1>3, <1>5 DEF LockOk, FoundOk, Before
  <2> QED
    BY <1>0, <1>2, <1>3, <2>1, GoesEarly
<1> QED
  BY <1>1, <1>4, <1>5

\* A status call.
LEMMA InspectKeeps ==
  ASSUME DeployInv, NEW c \in Clients, NEW r, Inspect(c, r)
  PROVE  DeployInv'
<1>0. st[c].pc = "inspect" /\ UNCHANGED <<plan, up, live, listed>> /\ r \in st[c].todo
  BY DEF Inspect, At, cluster, replicas
<1>s. IsState(st[c]) /\ CallOk(c, st[c], live) /\ Shape
  BY DEF DeployInv, Shape
<1>3. st[c].ino = 0 /\ st[c].pc \in Before /\ listed' \subseteq Nodes /\ live' \subseteq live
  BY <1>0, <1>s DEF CallOk, LockOk, NoLock, Before, Shape
<1>n. \A q \in st[c].infos \cup st[c].todo : q.node \in Nodes
  BY <1>0, <1>s DEF CallOk, FoundOk
<1>1. CASE Set(c, [st[c] EXCEPT !.pc = "failed"])
  <2> DEFINE new == [st[c] EXCEPT !.pc = "failed"]
  <2>1. IsState(new) /\ new.pc = "failed" /\ new.got = st[c].got /\ new.ino = st[c].ino
    BY <1>s DEF IsState, Fields
  <2>2. Set(c, new)
    BY <1>1
  <2> HIDE DEF new
  <2> QED
    BY <1>0, <1>3, <2>1, <2>2, FailsEarly
<1>2. CASE \E I, K : I \subseteq st[c].infos \cup {r} /\ Set(c, [st[c] EXCEPT !.todo = @ \ {r}, !.infos = I, !.lost = K])
  <2>1. PICK I, K : I \subseteq st[c].infos \cup {r} /\ Set(c, [st[c] EXCEPT !.todo = @ \ {r}, !.infos = I, !.lost = K])
    BY <1>2
  <2> DEFINE new == [st[c] EXCEPT !.todo = @ \ {r}, !.infos = I, !.lost = K]
  <2>2. IsState(new) /\ new.pc = "inspect" /\ new.got = st[c].got /\ new.ino = st[c].ino
        /\ new.todo = st[c].todo \ {r} /\ new.infos = I
    BY <1>s, <1>0 DEF IsState, Fields
  <2>3. Set(c, new)
    BY <2>1
  <2> HIDE DEF new
  <2>4. LockOk(new) /\ FoundOk(c, new, live) /\ new.pc \in Before \cup {"create"}
    BY <2>1, <2>2, <1>0, <1>3, <1>n DEF LockOk, FoundOk, Before
  <2> QED
    BY <1>0, <1>3, <2>2, <2>3, <2>4, GoesEarly
<1>4. \/ Set(c, [st[c] EXCEPT !.todo = @ \ {r}, !.infos = IF r \in live THEN @ \union {r} ELSE @])
      \/ Set(c, [st[c] EXCEPT !.todo = @ \ {r}, !.lost = @ \union {r.node}])
      \/ Set(c, [st[c] EXCEPT !.pc = "failed"])
  BY DEF Inspect
<1>5. /\ [st[c] EXCEPT !.todo = @ \ {r}, !.infos = IF r \in live THEN @ \union {r} ELSE @]
         = [st[c] EXCEPT !.todo = @ \ {r}, !.infos = IF r \in live THEN @ \union {r} ELSE @, !.lost = st[c].lost]
      /\ [st[c] EXCEPT !.todo = @ \ {r}, !.lost = @ \union {r.node}]
         = [st[c] EXCEPT !.todo = @ \ {r}, !.infos = st[c].infos, !.lost = @ \union {r.node}]
  BY <1>s DEF IsState, Fields
<1>6. CASE Set(c, [st[c] EXCEPT !.todo = @ \ {r}, !.infos = IF r \in live THEN @ \union {r} ELSE @])
  <2> DEFINE I == IF r \in live THEN st[c].infos \union {r} ELSE st[c].infos
  <2>1. I \subseteq st[c].infos \cup {r}
    OBVIOUS
  <2>2. Set(c, [st[c] EXCEPT !.todo = @ \ {r}, !.infos = I, !.lost = st[c].lost])
    BY <1>5, <1>6
  <2> HIDE DEF I
  <2> QED
    BY <2>1, <2>2, <1>2
<1>7. CASE Set(c, [st[c] EXCEPT !.todo = @ \ {r}, !.lost = @ \union {r.node}])
  <2> DEFINE K == st[c].lost \union {r.node}
  <2>2. Set(c, [st[c] EXCEPT !.todo = @ \ {r}, !.infos = st[c].infos, !.lost = K])
    BY <1>5, <1>7
  <2> HIDE DEF K
  <2> QED
    BY <2>2, <1>2
<1> QED
  BY <1>1, <1>4, <1>6, <1>7

\* The verdict on what was found.
LEMMA JudgeKeeps ==
  ASSUME DeployInv, NEW c \in Clients, Judge(c)
  PROVE  DeployInv'
<1> DEFINE infos == st[c].infos
           cache == Contents(Mine(c))
           same == \A r, q \in infos : r.owner = Mine(c) /\ r.code = q.code
           ours == \A r \in infos : r.code = plan[c].code
<1>1. PICK pc : /\ Set(c, [st[c] EXCEPT !.cache = cache, !.pc = pc])
                /\ pc \in {"lock", "failed", "reuselock", "replacelock"}
                /\ pc = "lock" => infos = {} \/ cache = None \/ ours
                /\ pc = "reuselock" => ours
  <2>1. PICK pc :
          /\ Set(c, [st[c] EXCEPT !.cache = cache, !.pc = pc])
          /\ pc = CASE infos = {} -> "lock"
                    [] infos # {} /\ (~same \/ ~plan[c].takeover) -> "failed"
                    [] infos # {} /\ same /\ plan[c].takeover /\ ours ->
                         IF cache.code = plan[c].code THEN "reuselock" ELSE "lock"
                    [] infos # {} /\ same /\ plan[c].takeover /\ ~ours ->
                         IF cache = None THEN "lock" ELSE "replacelock"
    BY DEF Judge
  <2> HIDE DEF infos, cache, same, ours
  <2>2. CASE infos = {}
    <3>1. pc = "lock"
      BY <2>1, <2>2
    <3> QED
      BY <3>1, <2>1, <2>2
  <2>3. CASE infos # {} /\ (~same \/ ~plan[c].takeover)
    <3>1. pc = "failed"
      BY <2>1, <2>3
    <3> QED
      BY <3>1, <2>1
  <2>4. CASE infos # {} /\ same /\ plan[c].takeover /\ ours
    <3>1. pc = IF cache.code = plan[c].code THEN "reuselock" ELSE "lock"
      BY <2>1, <2>4
    <3> QED
      BY <3>1, <2>1, <2>4
  <2>5. CASE infos # {} /\ same /\ plan[c].takeover /\ ~ours
    <3>1. pc = IF cache = None THEN "lock" ELSE "replacelock"
      BY <2>1, <2>5
    <3> QED
      BY <3>1, <2>1
  <2> QED
    BY <2>2, <2>3, <2>4, <2>5
<1>0. st[c].pc = "inspect" /\ UNCHANGED <<plan, up, live, listed>> /\ st[c].todo = {}
  BY DEF Judge, At, cluster, replicas
<1>s. IsState(st[c]) /\ CallOk(c, st[c], live) /\ Shape
  BY DEF DeployInv, Shape
<1>3. st[c].ino = 0 /\ st[c].pc \in Before /\ listed' \subseteq Nodes /\ live' \subseteq live
  BY <1>0, <1>s DEF CallOk, LockOk, NoLock, Before, Shape
<1>n. \A q \in st[c].infos \cup st[c].todo : q.node \in Nodes
  BY <1>0, <1>s DEF CallOk, FoundOk
<1>o. ours => OurCode(c, st[c])
  BY DEF OurCode
<1> HIDE DEF cache, same, ours
<1> DEFINE new == [st[c] EXCEPT !.cache = cache, !.pc = pc]
<1>2. IsState(new) /\ new.pc = pc /\ new.got = st[c].got /\ new.ino = st[c].ino /\ new.infos = st[c].infos
      /\ new.todo = st[c].todo /\ new.cache = cache
  BY <1>s DEF IsState, Fields
<1>4. Set(c, new)
  BY <1>1
<1> HIDE DEF new
<1>5. CASE pc = "failed"
  BY <1>0, <1>2, <1>3, <1>4, <1>5, FailsEarly
<1>6. CASE pc # "failed"
  <2>1. LockOk(new) /\ new.pc \in Before \cup {"create"}
    BY <1>1, <1>2, <1>3, <1>6 DEF LockOk, Before, Waiting
  <2>2. OurCode(c, new) <=> OurCode(c, st[c])
    BY <1>2 DEF OurCode
  <2>3. FoundOk(c, new, live)
    BY <2>2, <1>1, <1>2, <1>n, <1>o, <1>6 DEF FoundOk
  <2> QED
    BY <1>0, <1>2, <1>3, <1>4, <2>1, <2>3, GoesEarly
<1> QED
  BY <1>5, <1>6

-----------------------------------------------------------------------------
(* With the lock, before a call creates. *)

\* The lock is taken.
LEMMA AcquireKeeps ==
  ASSUME DeployInv, NEW c \in Clients, Acquire(c)
  PROVE  DeployInv'
<1>1. PICK i : Set(c, [st[c] EXCEPT !.ino = i, !.todo = IF At(c, "lock") THEN {} ELSE st[c].infos,
                                    !.pc = CASE At(c, "lock") -> "create"
                                             [] At(c, "reuselock") -> "reuse"
                                             [] At(c, "replacelock") -> "end"])
  BY DEF Acquire
<1>0. st[c].pc \in Waiting /\ UNCHANGED <<plan, up, live, listed>>
  BY DEF Acquire, cluster, replicas
<1>s. IsState(st[c]) /\ CallOk(c, st[c], live) /\ Shape
  BY DEF DeployInv, Shape
<1> DEFINE pc == CASE At(c, "lock") -> "create" [] At(c, "reuselock") -> "reuse" [] At(c, "replacelock") -> "end"
           todo == IF At(c, "lock") THEN {} ELSE st[c].infos
           new == [st[c] EXCEPT !.ino = i, !.todo = todo, !.pc = pc]
<1>2. Set(c, new)
  BY <1>1
<1>p. /\ st[c].pc = "lock" => pc = "create" /\ todo = {}
      /\ st[c].pc = "reuselock" => pc = "reuse" /\ todo = st[c].infos
      /\ st[c].pc = "replacelock" => pc = "end" /\ todo = st[c].infos
  BY DEF At
<1> HIDE DEF pc, todo
<1>3. IsState(new) /\ new.pc = pc /\ new.got = st[c].got /\ new.infos = st[c].infos /\ new.cache = st[c].cache
      /\ new.todo = todo
  BY <1>s DEF IsState, Fields
<1> HIDE DEF new
<1>4. LockOk(new) /\ new.pc \in Before \cup {"create"} /\ st[c].pc \in Before
  BY <1>0, <1>3, <1>p DEF LockOk, NoLock, Over, Waiting, Before
<1>5. OurCode(c, new) <=> OurCode(c, st[c])
  BY <1>3 DEF OurCode
<1>6. FoundOk(c, new, live)
  <2>1. FoundOk(c, st[c], live)
    BY <1>s DEF CallOk
  <2>2. CASE st[c].pc = "lock"
    <3>1. new.pc = "create" /\ (st[c].infos = {} \/ st[c].cache = None \/ OurCode(c, st[c]))
      BY <2>1, <2>2, <1>3, <1>p DEF FoundOk
    <3> QED
      BY <3>1, <1>3, <1>5 DEF FoundOk
  <2>3. CASE st[c].pc = "reuselock"
    BY <2>1, <2>3, <1>3, <1>5, <1>p DEF FoundOk
  <2>4. CASE st[c].pc = "replacelock"
    BY <2>1, <2>4, <1>3, <1>5, <1>p DEF FoundOk
  <2> QED
    BY <2>2, <2>3, <2>4, <1>0 DEF Waiting
<1>7. listed' \subseteq Nodes /\ live' \subseteq live
  BY <1>0, <1>s DEF Shape
<1> QED
  BY <1>0, <1>2, <1>3, <1>4, <1>6, <1>7, GoesEarly

\* The lock is not to be had.
LEMMA TimeoutKeeps ==
  ASSUME DeployInv, NEW c \in Clients, LockTimeout(c)
  PROVE  DeployInv'
<1> DEFINE new == [st[c] EXCEPT !.pc = "failed"]
<1>0. st[c].pc \in Waiting /\ UNCHANGED <<plan, up, live, listed>> /\ Set(c, new)
  BY DEF LockTimeout, cluster, replicas
<1>s. IsState(st[c]) /\ CallOk(c, st[c], live) /\ Shape
  BY DEF DeployInv, Shape
<1>2. IsState(new) /\ new.pc = "failed" /\ new.got = st[c].got /\ new.ino = st[c].ino
  BY <1>s DEF IsState, Fields
<1> HIDE DEF new
<1>3. new.ino = 0 /\ st[c].pc \in Before /\ listed' \subseteq Nodes /\ live' \subseteq live
  BY <1>0, <1>2, <1>s DEF CallOk, LockOk, NoLock, Before, Shape
<1> QED
  BY <1>0, <1>2, <1>3, FailsEarly

\* A status call of a replica the cache has a token for.
LEMMA ReuseKeeps ==
  ASSUME DeployInv, NEW c \in Clients, NEW r, Reuse(c, r)
  PROVE  DeployInv'
<1>0. st[c].pc = "reuse" /\ UNCHANGED <<plan, up, live, listed>>
  BY DEF Reuse, At, cluster, replicas
<1>s. IsState(st[c]) /\ CallOk(c, st[c], live) /\ Shape
  BY DEF DeployInv, Shape
<1>1. \/ Set(c, [st[c] EXCEPT !.todo = @ \ {r}, !.ses = @ \union {r}])
      \/ \E w : Set(c, [st[c] EXCEPT !.todo = @ \ {r}, !.fail = Failing(c, r.node, w)])
  BY DEF Reuse
<1>2. PICK new : /\ Set(c, new) /\ IsState(new) /\ new.pc = "reuse" /\ new.got = st[c].got
                 /\ new.todo = st[c].todo \ {r} /\ new.infos = st[c].infos
  <2>1. CASE Set(c, [st[c] EXCEPT !.todo = @ \ {r}, !.ses = @ \union {r}])
    <3> DEFINE new == [st[c] EXCEPT !.todo = @ \ {r}, !.ses = @ \union {r}]
    <3>1. IsState(new) /\ new.pc = "reuse" /\ new.got = st[c].got /\ new.todo = st[c].todo \ {r} /\ new.infos = st[c].infos
      BY <1>0, <1>s DEF IsState, Fields
    <3>2. Set(c, new)
      BY <2>1
    <3> HIDE DEF new
    <3> QED
      BY <3>1, <3>2
  <2>2. ASSUME NEW w, Set(c, [st[c] EXCEPT !.todo = @ \ {r}, !.fail = Failing(c, r.node, w)])
        PROVE \E new : /\ Set(c, new) /\ IsState(new) /\ new.pc = "reuse" /\ new.got = st[c].got
                       /\ new.todo = st[c].todo \ {r} /\ new.infos = st[c].infos
    <3> DEFINE f == Failing(c, r.node, w)
               new == [st[c] EXCEPT !.todo = @ \ {r}, !.fail = f]
    <3>0. f = [n \in Nodes |-> f[n]]
      BY <1>s DEF Failing, IsState
    <3>2. Set(c, new)
      BY <2>2
    <3> HIDE DEF f
    <3>1. IsState(new) /\ new.pc = "reuse" /\ new.got = st[c].got /\ new.todo = st[c].todo \ {r} /\ new.infos = st[c].infos
      BY <3>0, <1>0, <1>s DEF IsState, Fields
    <3> HIDE DEF new
    <3> QED
      BY <3>1, <3>2
  <2> QED
    BY <1>1, <2>1, <2>2
<1>3. LockOk(new) /\ new.pc \in Before \cup {"create"} /\ st[c].pc \in Before
  BY <1>0, <1>2 DEF LockOk, NoLock, Over, Waiting, Before
<1>4. FoundOk(c, new, live)
  BY <1>0, <1>2, <1>s DEF CallOk, FoundOk, OurCode
<1>5. listed' \subseteq Nodes /\ live' \subseteq live
  BY <1>0, <1>s DEF Shape
<1> QED
  BY <1>0, <1>2, <1>3, <1>4, <1>5, GoesEarly

\* What is adopted is taken over; with nothing the lock is let go.
LEMMA ReusedKeeps ==
  ASSUME DeployInv, NEW c \in Clients, Reused(c)
  PROVE  DeployInv'
<1>0. st[c].pc = "reuse" /\ UNCHANGED <<plan, up, live, listed>>
  BY DEF Reused, At, cluster, replicas
<1>s. IsState(st[c]) /\ CallOk(c, st[c], live) /\ Shape
  BY DEF DeployInv, Shape
<1>5. listed' \subseteq Nodes /\ live' \subseteq live /\ st[c].pc \in Before
  BY <1>0, <1>s DEF Shape, Before
<1>1. CASE st[c].ses # {}
  <2> DEFINE new == [st[c] EXCEPT !.pc = "open"]
  <2>1. Set(c, new)
    BY <1>1 DEF Reused
  <2>2. IsState(new) /\ new.pc = "open" /\ new.got = st[c].got /\ new.infos = st[c].infos
    BY <1>s DEF IsState, Fields
  <2> HIDE DEF new
  <2>3. CallOk(c, new, live)
    BY <2>2, <1>0, <1>s DEF CallOk, LockOk, MadeOk, FoundOk, OurCode, NoLock, Over, Waiting, Before
  <2>4. PICK L : L = live'
    OBVIOUS
  <2>5. L = live
    BY <2>4, <1>0
  <2> QED
    BY <2>1, <2>2, <2>3, <2>4, <2>5, <1>0, <1>5, CallStep
<1>2. CASE st[c].ses = {}
  <2>1. PICK pc : pc \in {"unlink", "failed"} /\ Set(c, [st[c] EXCEPT !.ino = 0, !.pc = pc])
    BY <1>2 DEF Reused
  <2> DEFINE new == [st[c] EXCEPT !.ino = 0, !.pc = pc]
  <2>2. IsState(new) /\ new.pc = pc /\ new.got = st[c].got /\ new.ino = 0
    BY <1>s DEF IsState, Fields
  <2>3. Set(c, new)
    BY <2>1
  <2> HIDE DEF new
  <2>4. CASE pc = "failed"
    BY <2>2, <2>3, <2>4, <1>0, <1>5, FailsEarly
  <2>5. CASE pc = "unlink"
    <3>1. LockOk(new) /\ FoundOk(c, new, live) /\ new.pc \in Before \cup {"create"}
      BY <2>2, <2>5 DEF LockOk, FoundOk, Before
    <3> QED
      BY <2>2, <2>3, <3>1, <1>0, <1>5, GoesEarly
  <2> QED
    BY <2>1, <2>4, <2>5
<1> QED
  BY <1>1, <1>2

\* The cache file is removed.
LEMMA UnlinkKeeps ==
  ASSUME DeployInv, NEW c \in Clients, Unlink(c)
  PROVE  DeployInv'
<1> DEFINE new == [st[c] EXCEPT !.pc = "lock", !.infos = {}, !.fail = Fresh.fail]
<1>0. st[c].pc = "unlink" /\ UNCHANGED <<plan, up, live, listed>> /\ Set(c, new)
  BY DEF Unlink, At, cluster, replicas
<1>s. IsState(st[c]) /\ CallOk(c, st[c], live) /\ Shape
  BY DEF DeployInv, Shape
<1>f. Fresh.fail = [n \in Nodes |-> Fresh.fail[n]]
  BY DEF Fresh
<1>2. IsState(new) /\ new.pc = "lock" /\ new.got = st[c].got /\ new.ino = st[c].ino /\ new.infos = {}
  BY <1>f, <1>s DEF IsState, Fields
<1> HIDE DEF new
<1>3. listed' \subseteq Nodes /\ live' \subseteq live /\ st[c].pc \in Before
  BY <1>0, <1>s DEF Shape, Before
<1>4. LockOk(new) /\ FoundOk(c, new, live) /\ new.pc \in Before \cup {"create"}
  BY <1>0, <1>2, <1>s DEF CallOk, LockOk, FoundOk, Before, Waiting, NoLock
<1> QED
  BY <1>0, <1>2, <1>3, <1>4, GoesEarly

\* An old replica is ended, or the attempt fails.
LEMMA EndKeeps ==
  ASSUME DeployInv, NEW c \in Clients, NEW r, End(c, r)
  PROVE  DeployInv'
<1>0. st[c].pc = "end" /\ UNCHANGED <<plan, up, listed>> /\ r \in st[c].todo
  BY DEF End, At
<1>s. IsState(st[c]) /\ CallOk(c, st[c], live) /\ Shape
  BY DEF DeployInv, Shape
<1>n. r.node \in Nodes
  BY <1>0, <1>s DEF CallOk, FoundOk
<1>1. PICK ok \in BOOLEAN :
        /\ IF r \in st[c].cache.on THEN EndCall(r, ok) ELSE ~ok /\ UNCHANGED <<replicas, left>>
        /\ Set(c, [st[c] EXCEPT !.todo = @ \ {r}, !.hurt = @ \/ ~ok,
                                !.fail = IF ok THEN @ ELSE Failing(c, r.node, "unknown")])
  BY DEF End
<1>2. live' \subseteq live /\ (ok => live' = live \ {r})
  BY <1>1 DEF EndCall, Stopped, replicas
<1> DEFINE f == IF ok THEN st[c].fail ELSE Failing(c, r.node, "unknown")
           h == st[c].hurt \/ ~ok
           new == [st[c] EXCEPT !.todo = @ \ {r}, !.hurt = h, !.fail = f]
<1>3. Set(c, new)
  BY <1>1
<1>f. f = [n \in Nodes |-> f[n]] /\ (ok => f = st[c].fail) /\ (~ok => f[r.node] = "unknown")
  BY <1>s, <1>n DEF Failing, IsState
<1> HIDE DEF f, h
<1>4. IsState(new) /\ new.pc = "end" /\ new.got = st[c].got /\ new.infos = st[c].infos /\ new.todo = st[c].todo \ {r}
      /\ new.fail = f
  BY <1>f, <1>0, <1>s DEF IsState, Fields
<1> HIDE DEF new
<1>6. PICK L : L = live'
  OBVIOUS
<1>7. By(c, L) = {} /\ new.got = {}
  BY <1>0, <1>2, <1>4, <1>6, <1>s DEF CallOk, MadeOk, By, Before
<1>8. LockOk(new) /\ MadeOk(c, new, L)
  BY <1>4, <1>7 DEF LockOk, MadeOk, NoLock, Over, Waiting
<1>9. FoundOk(c, new, L)
  <2>1. \A q \in new.infos \cup new.todo : q.node \in Nodes
    BY <1>0, <1>4, <1>s DEF CallOk, FoundOk
  <2>2. ASSUME new.fail = Fresh.fail PROVE (new.infos \ new.todo) \cap L = {}
    <3>1. ok
      BY <2>2, <1>f, <1>n, <1>4 DEF Fresh
    <3>2. (st[c].infos \ st[c].todo) \cap live = {}
      BY <2>2, <3>1, <1>0, <1>4, <1>f, <1>s DEF CallOk, FoundOk
    <3> QED
      BY <3>1, <3>2, <1>2, <1>4, <1>6
  <2> QED
    BY <2>1, <2>2, <1>4 DEF FoundOk
<1>10. CallOk(c, new, L) /\ listed' \subseteq Nodes /\ \A q \in L : q \in live \/ Made(c, q)
  BY <1>0, <1>2, <1>6, <1>8, <1>9, <1>s DEF CallOk, Shape
<1> QED
  BY <1>0, <1>3, <1>4, <1>6, <1>10, CallStep

\* All old replicas have been ended, or the call gives up.
LEMMA EndedKeeps ==
  ASSUME DeployInv, NEW c \in Clients, Ended(c)
  PROVE  DeployInv'
<1>0. st[c].pc = "end" /\ st[c].todo = {} /\ UNCHANGED <<plan, up, live, listed>>
  BY DEF Ended, At, cluster, replicas
<1>s. IsState(st[c]) /\ CallOk(c, st[c], live) /\ Shape
  BY DEF DeployInv, Shape
<1>5. listed' \subseteq Nodes /\ live' \subseteq live /\ st[c].pc \in Before
  BY <1>0, <1>s DEF Shape, Before
<1>1. CASE st[c].fail = Fresh.fail
  <2> DEFINE new == [st[c] EXCEPT !.pc = "create"]
  <2>1. Set(c, new)
    BY <1>1 DEF Ended
  <2>2. IsState(new) /\ new.pc = "create" /\ new.got = st[c].got /\ new.infos = st[c].infos
    BY <1>s DEF IsState, Fields
  <2> HIDE DEF new
  <2>3. LockOk(new) /\ new.pc \in Before \cup {"create"}
    BY <2>2 DEF LockOk, NoLock, Over, Waiting
  <2>4. st[c].infos \cap live = {}
    BY <1>0, <1>1, <1>s DEF CallOk, FoundOk
  <2>6. FoundOk(c, new, live)
    BY <2>2, <2>4 DEF FoundOk
  <2> QED
    BY <2>1, <2>2, <2>3, <2>6, <1>0, <1>5, GoesEarly
<1>2. CASE st[c].fail # Fresh.fail
  <2> DEFINE new == [st[c] EXCEPT !.pc = "failed", !.ino = 0]
  <2>1. Set(c, new)
    BY <1>2 DEF Ended
  <2>2. IsState(new) /\ new.pc = "failed" /\ new.got = st[c].got /\ new.ino = 0
    BY <1>s DEF IsState, Fields
  <2> HIDE DEF new
  <2> QED
    BY <2>1, <2>2, <1>0, <1>5, FailsEarly
<1> QED
  BY <1>1, <1>2

-----------------------------------------------------------------------------
(* Creating. *)

\* A state with another replica set in it; what is changed of the rest does not matter.
LEMMA NewReplicas ==
  ASSUME NEW c \in Clients, NEW n \in up, NEW r, r \in Replica(c, n)
  PROVE  Made(c, r)
<1>1. r \notin Named /\ r.by = c /\ r.node = n
  <2>1. PICK i \in Ids : /\ r = [id |-> i, node |-> n, by |-> c, owner |-> Mine(c), code |-> plan[c].code,
                                 kind |-> plan[c].kind]
                         /\ r \notin Named
    BY Zenon DEF Replica
  <2> QED
    BY <2>1
<1>2. ASSUME NEW d \in Clients PROVE st[d].infos \subseteq Named
  <2>1. UNION {Held(e) : e \in Clients} \subseteq Named
    BY DEF Named
  <2>2. Held(d) \in {Held(e) : e \in Clients} /\ st[d].infos \subseteq Held(d)
    BY DEF Held
  <2> QED
    BY <2>1, <2>2
<1> QED
  BY <1>1, <1>2 DEF Made

\* A create makes one replica or finds the call's own.
LEMMA CreatesMake ==
  ASSUME NEW c \in Clients, NEW n \in up, NEW r \in Replica(c, n) \union Own(c, n), Creates(c, n, r)
  PROVE  \A q \in live' : q \in live \/ (q = r /\ Made(c, q))
<1>1. CASE Own(c, n) # {}
  BY <1>1 DEF Creates, replicas
<1>2. CASE Own(c, n) = {}
  <2>1. live' = live \union {r} /\ r \in Replica(c, n)
    BY <1>2 DEF Creates
  <2> QED
    BY <2>1, NewReplicas
<1> QED
  BY <1>1, <1>2

\* A step of a call that creates.
LEMMA WhileCreating ==
  ASSUME DeployInv, NEW c \in Clients, st[c].pc = "create", NEW new, IsState(new), Set(c, new),
         UNCHANGED <<plan, up>>, listed' \subseteq Nodes, new.pc = "create",
         new.infos = st[c].infos, new.cache = st[c].cache,
         \A r \in live' : r \in live \/ Made(c, r),
         ~new.hurt => ~st[c].hurt,
         ~new.hurt => \A r \in live' : r.by = c /\ (r \in live => r \in st[c].got \cup st[c].ses) => r \in new.got \cup new.ses
  PROVE  DeployInv'
<1>1. PICK L : L = live'
  OBVIOUS
<1>s. CallOk(c, st[c], live)
  BY DEF DeployInv
<1>2. LockOk(new)
  BY DEF LockOk, NoLock, Over, Waiting
<1>3. MadeOk(c, new, L)
  <2>1. ASSUME ~new.hurt PROVE By(c, L) \subseteq new.got \cup new.ses
    <3>1. By(c, live) \subseteq st[c].got \cup st[c].ses
      BY <2>1, <1>s DEF CallOk, MadeOk
    <3> QED
      BY <2>1, <3>1, <1>1 DEF By
  <2> QED
    BY <2>1 DEF MadeOk, Before, Waiting
<1>4. FoundOk(c, new, L)
  <2>1. st[c].cache = None \/ OurCode(c, st[c]) \/ st[c].infos \cap live = {}
    BY <1>s DEF CallOk, FoundOk
  <2>2. \A r \in L : r \in live \/ r \notin st[c].infos
    BY <1>1 DEF Made
  <2> QED
    BY <2>1, <2>2 DEF FoundOk, OurCode
<1>5. CallOk(c, new, L)
  BY <1>2, <1>3, <1>4 DEF CallOk
<1> QED
  BY <1>1, <1>5, CallStep

\* A node is asked.
LEMMA CreateKeeps ==
  ASSUME DeployInv, NEW c \in Clients, NEW n \in Nodes, Create(c, n)
  PROVE  DeployInv'
<1>0. st[c].pc = "create" /\ UNCHANGED <<plan, up>>
  BY DEF Create, At
<1>s. IsState(st[c]) /\ CallOk(c, st[c], live) /\ Shape
  BY DEF DeployInv, Shape
<1>1. CASE \E r \in Replica(c, n) \union Own(c, n) :
             /\ n \in up /\ Creates(c, n, r) /\ UNCHANGED listed
             /\ \/ Set(c, [st[c] EXCEPT !.sel = @ \ {n}, !.fail = Failing(c, n, "none"),
                                  !.got = IF Service(c) THEN @ \union {r} ELSE @,
                                  !.ses = IF Service(c) THEN @ ELSE @ \union {r}])
                \/ Set(c, [st[c] EXCEPT !.sel = @ \ {n}, !.fail = Failing(c, n, "transient"), !.hurt = TRUE])
  <2>1. PICK r \in Replica(c, n) \union Own(c, n) :
             /\ n \in up /\ Creates(c, n, r) /\ UNCHANGED listed
             /\ \/ Set(c, [st[c] EXCEPT !.sel = @ \ {n}, !.fail = Failing(c, n, "none"),
                                  !.got = IF Service(c) THEN @ \union {r} ELSE @,
                                  !.ses = IF Service(c) THEN @ ELSE @ \union {r}])
                \/ Set(c, [st[c] EXCEPT !.sel = @ \ {n}, !.fail = Failing(c, n, "transient"), !.hurt = TRUE])
    BY <1>1
  <2>2. \A q \in live' : q \in live \/ (q = r /\ Made(c, q))
    BY <2>1, CreatesMake
  <2>3. listed' \subseteq Nodes
    BY <2>1, <1>s DEF Shape
  <2>4. CASE Set(c, [st[c] EXCEPT !.sel = @ \ {n}, !.fail = Failing(c, n, "none"),
                                  !.got = IF Service(c) THEN @ \union {r} ELSE @,
                                  !.ses = IF Service(c) THEN @ ELSE @ \union {r}])
    <3> DEFINE f == Failing(c, n, "none")
               g == IF Service(c) THEN st[c].got \union {r} ELSE st[c].got
               s == IF Service(c) THEN st[c].ses ELSE st[c].ses \union {r}
               new == [st[c] EXCEPT !.sel = @ \ {n}, !.fail = f, !.got = g, !.ses = s]
    <3>1. Set(c, new)
      BY <2>4
    <3>2. f = [m \in Nodes |-> f[m]] /\ g \cup s = st[c].got \cup st[c].ses \cup {r}
      BY <1>s DEF Failing, IsState
    <3> HIDE DEF f, g, s
    <3>3. IsState(new) /\ new.pc = "create" /\ new.infos = st[c].infos /\ new.cache = st[c].cache
          /\ new.hurt = st[c].hurt /\ new.got = g /\ new.ses = s
      BY <3>2, <1>0, <1>s DEF IsState, Fields
    <3> HIDE DEF new
    <3>4. \A q \in live' : q.by = c /\ (q \in live => q \in st[c].got \cup st[c].ses) => q \in new.got \cup new.ses
      BY <2>2, <3>2, <3>3
    <3> QED
      BY <1>0, <2>2, <2>3, <3>1, <3>3, <3>4, WhileCreating
  <2>5. CASE Set(c, [st[c] EXCEPT !.sel = @ \ {n}, !.fail = Failing(c, n, "transient"), !.hurt = TRUE])
    <3> DEFINE f == Failing(c, n, "transient")
               new == [st[c] EXCEPT !.sel = @ \ {n}, !.fail = f, !.hurt = TRUE]
    <3>1. Set(c, new)
      BY <2>5
    <3>2. f = [m \in Nodes |-> f[m]]
      BY <1>s DEF Failing, IsState
    <3> HIDE DEF f
    <3>3. IsState(new) /\ new.pc = "create" /\ new.infos = st[c].infos /\ new.cache = st[c].cache /\ new.hurt = TRUE
      BY <3>2, <1>0, <1>s DEF IsState, Fields
    <3> HIDE DEF new
    <3> QED
      BY <1>0, <2>2, <2>3, <3>1, <3>3, WhileCreating
  <2> QED
    BY <2>1, <2>4, <2>5
<1>2. CASE \E w : Set(c, [st[c] EXCEPT !.sel = @ \ {n}, !.fail = Failing(c, n, w)]) /\ UNCHANGED replicas /\ listed' \subseteq listed
  <2>1. PICK w : Set(c, [st[c] EXCEPT !.sel = @ \ {n}, !.fail = Failing(c, n, w)]) /\ UNCHANGED replicas /\ listed' \subseteq listed
    BY <1>2
  <2> DEFINE f == Failing(c, n, w)
             new == [st[c] EXCEPT !.sel = @ \ {n}, !.fail = f]
  <2>2. Set(c, new)
    BY <2>1
  <2>3. f = [m \in Nodes |-> f[m]]
    BY <1>s DEF Failing, IsState
  <2> HIDE DEF f
  <2>4. IsState(new) /\ new.pc = "create" /\ new.infos = st[c].infos /\ new.cache = st[c].cache /\ new.hurt = st[c].hurt
        /\ new.got = st[c].got /\ new.ses = st[c].ses
    BY <2>3, <1>0, <1>s DEF IsState, Fields
  <2> HIDE DEF new
  <2>5. live' = live /\ listed' \subseteq Nodes
    BY <2>1, <1>s DEF replicas, Shape
  <2> QED
    BY <1>0, <2>2, <2>4, <2>5, WhileCreating
<1>3. \/ /\ n \in up /\ UNCHANGED listed
         /\ \E r \in Replica(c, n) \union Own(c, n) :
              /\ Creates(c, n, r)
              /\ \/ Set(c, [st[c] EXCEPT !.sel = @ \ {n}, !.fail = Failing(c, n, "none"),
                                  !.got = IF Service(c) THEN @ \union {r} ELSE @,
                                  !.ses = IF Service(c) THEN @ ELSE @ \union {r}])
                 \/ Set(c, [st[c] EXCEPT !.sel = @ \ {n}, !.fail = Failing(c, n, "transient"), !.hurt = TRUE])
      \/ Set(c, [st[c] EXCEPT !.sel = @ \ {n}, !.fail = Failing(c, n, "unknown")]) /\ UNCHANGED <<replicas, listed>>
      \/ \E w : Set(c, [st[c] EXCEPT !.sel = @ \ {n}, !.fail = Failing(c, n, w)]) /\ UNCHANGED replicas /\ listed' \subseteq listed
  BY DEF Create
<1> QED
  BY <1>1, <1>2, <1>3

\* A created service counts, or is given up.
LEMMA AttachKeeps ==
  ASSUME DeployInv, NEW c \in Clients, NEW r, Attach(c, r)
  PROVE  DeployInv'
<1>0. r \in st[c].got /\ UNCHANGED <<plan, up, listed>>
  BY DEF Attach
<1>s. IsState(st[c]) /\ CallOk(c, st[c], live) /\ Shape
  BY DEF DeployInv, Shape
<1>c. st[c].pc = "create" /\ listed' \subseteq Nodes
  BY <1>0, <1>s DEF CallOk, MadeOk, Shape
<1>1. CASE \E w : Set(c, [st[c] EXCEPT !.got = @ \ {r}, !.ses = @ \union {r}, !.fail = Failing(c, r.node, w)]) /\ UNCHANGED live
  <2>1. PICK w : Set(c, [st[c] EXCEPT !.got = @ \ {r}, !.ses = @ \union {r}, !.fail = Failing(c, r.node, w)]) /\ UNCHANGED live
    BY <1>1
  <2> DEFINE f == Failing(c, r.node, w)
             new == [st[c] EXCEPT !.got = @ \ {r}, !.ses = @ \union {r}, !.fail = f]
  <2>2. Set(c, new)
    BY <2>1
  <2>3. f = [m \in Nodes |-> f[m]]
    BY <1>s DEF Failing, IsState
  <2> HIDE DEF f
  <2>4. IsState(new) /\ new.pc = "create" /\ new.infos = st[c].infos /\ new.cache = st[c].cache /\ new.hurt = st[c].hurt
        /\ new.got = st[c].got \ {r} /\ new.ses = st[c].ses \union {r}
    BY <2>3, <1>c, <1>s DEF IsState, Fields
  <2> HIDE DEF new
  <2> QED
    BY <1>0, <1>c, <2>1, <2>2, <2>4, WhileCreating
<1>2. CASE \E w : Set(c, [st[c] EXCEPT !.got = @ \ {r}, !.fail = Failing(c, r.node, w)]) /\ r \notin live' /\ live' \subseteq live
  <2>1. PICK w : Set(c, [st[c] EXCEPT !.got = @ \ {r}, !.fail = Failing(c, r.node, w)]) /\ r \notin live' /\ live' \subseteq live
    BY <1>2
  <2> DEFINE f == Failing(c, r.node, w)
             new == [st[c] EXCEPT !.got = @ \ {r}, !.fail = f]
  <2>2. Set(c, new)
    BY <2>1
  <2>3. f = [m \in Nodes |-> f[m]]
    BY <1>s DEF Failing, IsState
  <2> HIDE DEF f
  <2>4. IsState(new) /\ new.pc = "create" /\ new.infos = st[c].infos /\ new.cache = st[c].cache /\ new.hurt = st[c].hurt
        /\ new.got = st[c].got \ {r} /\ new.ses = st[c].ses
    BY <2>3, <1>c, <1>s DEF IsState, Fields
  <2> HIDE DEF new
  <2> QED
    BY <1>0, <1>c, <2>1, <2>2, <2>4, WhileCreating
<1>3. r.node \notin up => r \notin live
  BY <1>s DEF Shape
<1>4. \/ Set(c, [st[c] EXCEPT !.got = @ \ {r}, !.ses = @ \union {r}, !.fail = Failing(c, r.node, "none")]) /\ UNCHANGED live
      \/ /\ \E w : Set(c, [st[c] EXCEPT !.got = @ \ {r}, !.fail = Failing(c, r.node, w)])
         /\ UNCHANGED live /\ (r \notin live \/ r.node \notin up)
      \/ Set(c, [st[c] EXCEPT !.got = @ \ {r}, !.fail = Failing(c, r.node, "transient")]) /\ live' = live \ {r}
  BY DEF Attach, replicas, Stopped
<1> QED
  BY <1>1, <1>2, <1>3, <1>4

\* More nodes are asked.
LEMMA AsksMoreKeeps ==
  ASSUME DeployInv, NEW c \in Clients, (\E n \in Nodes : Fallback(c, n)) \/ Rediscover(c)
  PROVE  DeployInv'
<1>1. PICK S : Set(c, [st[c] EXCEPT !.sel = S, !.tried = @ \union S])
  BY DEF Fallback, Rediscover
<1>0. st[c].pc = "create" /\ UNCHANGED <<plan, up, live, listed>>
  BY DEF Fallback, Rediscover, Asked, At, cluster, replicas
<1>s. IsState(st[c]) /\ CallOk(c, st[c], live) /\ Shape
  BY DEF DeployInv, Shape
<1> DEFINE new == [st[c] EXCEPT !.sel = S, !.tried = @ \union S]
<1>2. Set(c, new)
  BY <1>1
<1>3. IsState(new) /\ new.pc = "create" /\ new.infos = st[c].infos /\ new.cache = st[c].cache /\ new.hurt = st[c].hurt
      /\ new.got = st[c].got /\ new.ses = st[c].ses
  BY <1>0, <1>s DEF IsState, Fields
<1> HIDE DEF new
<1>4. listed' \subseteq Nodes
  BY <1>0, <1>s DEF Shape
<1> QED
  BY <1>0, <1>2, <1>3, <1>4, WhileCreating

\* The call returns its session or undoes it.
LEMMA VerdictKeeps ==
  ASSUME DeployInv, NEW c \in Clients, Verdict(c)
  PROVE  DeployInv'
<1>0. st[c].pc = "create" /\ st[c].got = {} /\ UNCHANGED <<plan, up, live, listed>>
  BY DEF Verdict, Asked, At, cluster, replicas
<1>s. IsState(st[c]) /\ CallOk(c, st[c], live) /\ Shape
  BY DEF DeployInv, Shape
<1>1. \/ Set(c, [st[c] EXCEPT !.pc = "undo", !.out = "failed", !.todo = st[c].ses])
      \/ Set(c, [st[c] EXCEPT !.pc = "open"])
  BY DEF Verdict
<1>2. PICK L : L = live' /\ L = live
  BY <1>0
<1>3. listed' \subseteq Nodes
  BY <1>0, <1>s DEF Shape
<1>4. CASE Set(c, [st[c] EXCEPT !.pc = "undo", !.out = "failed", !.todo = st[c].ses])
  <2> DEFINE new == [st[c] EXCEPT !.pc = "undo", !.out = "failed", !.todo = st[c].ses]
  <2>1. Set(c, new)
    BY <1>4
  <2>2. IsState(new) /\ new.pc = "undo" /\ new.out = "failed" /\ new.todo = st[c].ses /\ new.got = {} /\ new.hurt = st[c].hurt
    BY <1>0, <1>s DEF IsState, Fields
  <2> HIDE DEF new
  <2>3. CallOk(c, new, live)
    BY <2>2, <1>0, <1>s DEF CallOk, LockOk, MadeOk, FoundOk, NoLock, Over, Waiting, Before
  <2> QED
    BY <2>1, <2>2, <2>3, <1>0, <1>2, <1>3, CallStep
<1>5. CASE Set(c, [st[c] EXCEPT !.pc = "open"])
  <2> DEFINE new == [st[c] EXCEPT !.pc = "open"]
  <2>1. Set(c, new)
    BY <1>5
  <2>2. IsState(new) /\ new.pc = "open" /\ new.infos = st[c].infos /\ new.cache = st[c].cache /\ new.got = {}
    BY <1>0, <1>s DEF IsState, Fields
  <2> HIDE DEF new
  <2>3. CallOk(c, new, live)
    BY <2>2, <1>0, <1>s DEF CallOk, LockOk, MadeOk, FoundOk, OurCode, NoLock, Over, Waiting, Before
  <2> QED
    BY <2>1, <2>2, <2>3, <1>0, <1>2, <1>3, CallStep
<1> QED
  BY <1>1, <1>4, <1>5

-----------------------------------------------------------------------------
(* Sessions and their end. *)

\* Keepalive finds a replica gone.
LEMMA RemoveKeeps ==
  ASSUME DeployInv, NEW c \in Clients, NEW r, Remove(c, r)
  PROVE  DeployInv'
<1> DEFINE S == st[c].ses \ {r}
           g == st[c].flag \/ S = {}
           new == [st[c] EXCEPT !.ses = S, !.flag = g]
<1>0. st[c].pc \in {"create", "open"} /\ r \notin live /\ UNCHANGED <<plan, up, live, listed>> /\ Set(c, new)
  BY DEF Remove, cluster, replicas
<1>s. IsState(st[c]) /\ CallOk(c, st[c], live) /\ Shape
  BY DEF DeployInv, Shape
<1> HIDE DEF g
<1>1. IsState(new) /\ new.pc = st[c].pc /\ new.infos = st[c].infos /\ new.cache = st[c].cache /\ new.got = st[c].got
      /\ new.hurt = st[c].hurt /\ new.ses = st[c].ses \ {r}
  BY <1>s DEF IsState, Fields
<1> HIDE DEF new
<1>2. PICK L : L = live' /\ L = live
  BY <1>0
<1>3. LockOk(new) /\ FoundOk(c, new, live)
  BY <1>0, <1>1, <1>s DEF CallOk, LockOk, FoundOk, OurCode, NoLock, Over, Waiting
<1>4. MadeOk(c, new, live)
  BY <1>0, <1>1, <1>s DEF CallOk, MadeOk, By, Before, Waiting
<1>5. CallOk(c, new, L) /\ listed' \subseteq Nodes
  BY <1>0, <1>2, <1>3, <1>4, <1>s DEF CallOk, Shape
<1> QED
  BY <1>0, <1>1, <1>2, <1>5, CallStep

\* A replica is replaced.
LEMMA CompensateKeeps ==
  ASSUME DeployInv, NEW c \in Clients, NEW n \in Nodes, Compensate(c, n)
  PROVE  DeployInv'
<1>0. st[c].pc = "open" /\ UNCHANGED <<plan, up, listed>> /\ n \in up
  BY DEF Compensate, At
<1>s. IsState(st[c]) /\ CallOk(c, st[c], live) /\ Shape
  BY DEF DeployInv, Shape
<1>1. PICK r \in Replica(c, n) : Creates(c, n, r) /\ Set(c, [st[c] EXCEPT !.ses = @ \union {r}])
  BY DEF Compensate
<1>2. \A q \in live' : q \in live \/ (q = r /\ Made(c, q))
  BY <1>0, <1>1, CreatesMake
<1> DEFINE new == [st[c] EXCEPT !.ses = @ \union {r}]
<1>3. Set(c, new)
  BY <1>1
<1>4. IsState(new) /\ new.pc = "open" /\ new.infos = st[c].infos /\ new.cache = st[c].cache /\ new.got = st[c].got
  BY <1>0, <1>s DEF IsState, Fields
<1> HIDE DEF new
<1>5. PICK L : L = live'
  OBVIOUS
<1>6. LockOk(new) /\ MadeOk(c, new, L)
  BY <1>0, <1>4, <1>s DEF CallOk, LockOk, MadeOk, NoLock, Over, Waiting, Before
<1>7. FoundOk(c, new, L)
  <2>1. \A q \in L : q \in live \/ q \notin st[c].infos
    BY <1>2, <1>5 DEF Made
  <2> QED
    BY <2>1, <1>0, <1>4, <1>s DEF CallOk, FoundOk, OurCode
<1>8. CallOk(c, new, L) /\ listed' \subseteq Nodes /\ \A q \in L : q \in live \/ Made(c, q)
  BY <1>0, <1>2, <1>5, <1>6, <1>7, <1>s DEF CallOk, Shape
<1> QED
  BY <1>0, <1>3, <1>4, <1>5, <1>8, CallStep

\* The user ends the session with its replicas.
LEMMA ShutKeeps ==
  ASSUME DeployInv, NEW c \in Clients, Shut(c)
  PROVE  DeployInv'
<1> DEFINE new == [st[c] EXCEPT !.pc = "undo", !.out = "closed", !.todo = st[c].ses]
<1>0. st[c].pc = "open" /\ UNCHANGED <<plan, up, live, listed>> /\ Set(c, new)
  BY DEF Shut, At, cluster, replicas
<1>s. IsState(st[c]) /\ CallOk(c, st[c], live) /\ Shape
  BY DEF DeployInv, Shape
<1>1. IsState(new) /\ new.pc = "undo" /\ new.out = "closed" /\ new.got = st[c].got
  BY <1>s DEF IsState, Fields
<1> HIDE DEF new
<1>2. PICK L : L = live' /\ L = live
  BY <1>0
<1>3. CallOk(c, new, L) /\ listed' \subseteq Nodes
  BY <1>0, <1>1, <1>2, <1>s DEF CallOk, LockOk, MadeOk, FoundOk, NoLock, Over, Waiting, Before, Shape
<1> QED
  BY <1>0, <1>1, <1>2, <1>3, CallStep

\* A replica of the session is ended, or the attempt fails.
LEMMA UndoKeeps ==
  ASSUME DeployInv, NEW c \in Clients, NEW r, Undo(c, r)
  PROVE  DeployInv'
<1>0. st[c].pc = "undo" /\ UNCHANGED <<plan, up, listed>>
  BY DEF Undo, At
<1>s. IsState(st[c]) /\ CallOk(c, st[c], live) /\ Shape
  BY DEF DeployInv, Shape
<1>1. PICK ok \in BOOLEAN :
        /\ EndCall(r, ok)
        /\ Set(c, [st[c] EXCEPT !.todo = @ \ {r}, !.hurt = @ \/ ~ok, !.fail = IF ok THEN @ ELSE Failing(c, r.node, "end")])
  BY DEF Undo
<1>2. live' \subseteq live /\ (ok => live' = live \ {r})
  BY <1>1 DEF EndCall, Stopped, replicas
<1> DEFINE f == IF ok THEN st[c].fail ELSE Failing(c, r.node, "end")
           h == st[c].hurt \/ ~ok
           new == [st[c] EXCEPT !.todo = @ \ {r}, !.hurt = h, !.fail = f]
<1>3. Set(c, new)
  BY <1>1
<1>f. f = [n \in Nodes |-> f[n]]
  BY <1>s DEF Failing, IsState
<1>h. ~h => ~st[c].hurt /\ ok
  OBVIOUS
<1> HIDE DEF f, h
<1>4. IsState(new) /\ new.pc = "undo" /\ new.got = st[c].got /\ new.todo = st[c].todo \ {r} /\ new.out = st[c].out
      /\ new.hurt = h
  BY <1>f, <1>0, <1>s DEF IsState, Fields
<1> HIDE DEF new
<1>6. PICK L : L = live'
  OBVIOUS
<1>7. LockOk(new) /\ FoundOk(c, new, L)
  BY <1>4 DEF LockOk, FoundOk, NoLock, Over, Waiting
<1>8. MadeOk(c, new, L)
  <2>1. st[c].got = {} /\ st[c].out \in {"failed", "closed"}
    BY <1>0, <1>s DEF CallOk, MadeOk
  <2>2. ASSUME ~h, st[c].out = "failed" PROVE By(c, L) \subseteq st[c].todo \ {r}
    <3>1. By(c, live) \subseteq st[c].todo
      BY <2>2, <1>0, <1>h, <1>s DEF CallOk, MadeOk
    <3> QED
      BY <2>2, <3>1, <1>2, <1>6, <1>h DEF By
  <2> QED
    BY <2>1, <2>2, <1>4 DEF MadeOk, Before, Waiting
<1>9. CallOk(c, new, L) /\ listed' \subseteq Nodes /\ \A q \in L : q \in live \/ Made(c, q)
  BY <1>0, <1>2, <1>6, <1>7, <1>8, <1>s DEF CallOk, Shape
<1> QED
  BY <1>0, <1>3, <1>4, <1>6, <1>9, CallStep

\* The lock is let go at the end.
LEMMA LetGoKeeps ==
  ASSUME DeployInv, NEW c \in Clients, NEW flag, NEW out, LetGo(c, flag, out), UNCHANGED <<plan, up, live, listed>>,
         st[c].got = {}, out \in {"failed", "closed"}, out = "failed" /\ ~st[c].hurt => By(c, live) = {}
  PROVE  DeployInv'
<1>s. IsState(st[c]) /\ CallOk(c, st[c], live) /\ Shape
  BY DEF DeployInv, Shape
<1> DEFINE pc == IF flag THEN "delete" ELSE out
           new == [st[c] EXCEPT !.ino = 0, !.flag = flag, !.out = out, !.pc = pc]
<1>1. Set(c, new)
  BY DEF LetGo
<1>p. pc \in {"delete", out}
  OBVIOUS
<1> HIDE DEF pc
<1>2. IsState(new) /\ new.pc = pc /\ new.ino = 0 /\ new.out = out /\ new.got = {} /\ new.hurt = st[c].hurt
  BY <1>s DEF IsState, Fields
<1> HIDE DEF new
<1>3. PICK L : L = live' /\ L = live
  OBVIOUS
<1>4. LockOk(new) /\ FoundOk(c, new, L)
  BY <1>p, <1>2 DEF LockOk, FoundOk
<1>5. MadeOk(c, new, L)
  BY <1>p, <1>2, <1>3 DEF MadeOk, Before, Waiting
<1>6. CallOk(c, new, L) /\ listed' \subseteq Nodes
  BY <1>4, <1>5, <1>s DEF CallOk, Shape
<1> QED
  BY <1>1, <1>2, <1>3, <1>6, CallStep

\* The replicas have been dealt with, or the handle is closed.
LEMMA ClosesKeeps ==
  ASSUME DeployInv, NEW c \in Clients, Undone(c) \/ CloseHandle(c)
  PROVE  DeployInv'
<1>s. CallOk(c, st[c], live)
  BY DEF DeployInv
<1>1. CASE Undone(c)
  <2>0. st[c].pc = "undo" /\ st[c].todo = {} /\ UNCHANGED <<plan, up, live, listed>>
    BY <1>1 DEF Undone, At, cluster, replicas
  <2>1. PICK flag : LetGo(c, flag, st[c].out)
    BY <1>1 DEF Undone
  <2>2. PICK out : out = st[c].out
    OBVIOUS
  <2>3. st[c].got = {} /\ out \in {"failed", "closed"} /\ (out = "failed" /\ ~st[c].hurt => By(c, live) = {})
    BY <2>0, <2>2, <1>s DEF CallOk, MadeOk
  <2> QED
    BY <2>0, <2>1, <2>2, <2>3, LetGoKeeps
<1>2. CASE CloseHandle(c)
  <2>0. st[c].pc = "open" /\ UNCHANGED <<plan, up, live, listed>> /\ LetGo(c, st[c].flag, "closed")
    BY <1>2 DEF CloseHandle, At, cluster, replicas
  <2>1. st[c].got = {}
    BY <2>0, <1>s DEF CallOk, MadeOk
  <2> QED
    BY <2>0, <2>1, LetGoKeeps
<1> QED
  BY <1>1, <1>2

\* The file is removed.
LEMMA DeleteKeeps ==
  ASSUME DeployInv, NEW c \in Clients, Delete(c)
  PROVE  DeployInv'
<1> DEFINE new == [st[c] EXCEPT !.pc = st[c].out]
<1>0. st[c].pc = "delete" /\ UNCHANGED <<plan, up, live, listed>> /\ Set(c, new)
  BY DEF Delete, At, cluster, replicas
<1>s. IsState(st[c]) /\ CallOk(c, st[c], live) /\ Shape
  BY DEF DeployInv, Shape
<1>1. IsState(new) /\ new.pc = st[c].out /\ new.got = st[c].got /\ new.ino = st[c].ino /\ new.hurt = st[c].hurt
  BY <1>s DEF IsState, Fields
<1> HIDE DEF new
<1>2. PICK L : L = live' /\ L = live
  BY <1>0
<1>3. st[c].out \in {"failed", "closed"} /\ st[c].ino = 0 /\ st[c].got = {}
      /\ (st[c].out = "failed" /\ ~st[c].hurt => By(c, live) = {})
  BY <1>0, <1>s DEF CallOk, MadeOk, LockOk, NoLock
<1>4. CallOk(c, new, L) /\ listed' \subseteq Nodes
  BY <1>0, <1>1, <1>2, <1>3, <1>s DEF CallOk, LockOk, MadeOk, FoundOk, Before, Waiting, Shape
<1> QED
  BY <1>0, <1>1, <1>2, <1>4, CallStep

\* Replicas, nodes and the InfoCenter.
LEMMA FewerKeeps ==
  ASSUME DeployInv, UNCHANGED <<plan, st>>, live' \subseteq live, up' \subseteq up, listed' \subseteq listed,
         \A r \in live' : r.node \in up'
  PROVE  DeployInv'
<1>1. Shape'
  BY DEF Shape, DeployInv
<1>2. ASSUME NEW d \in Clients PROVE CallOk(d, st[d], live)'
  BY OthersKeep
<1> QED
  BY <1>1, <1>2 DEF DeployInv

\* A process dies: nothing is promised of its calls but that they hold no lock.
LEMMA KillKeeps ==
  ASSUME DeployInv, NEW p, Kill(p)
  PROVE  DeployInv'
<1>0. UNCHANGED <<plan, up, live, listed>>
  BY DEF Kill, cluster, replicas
<1>1. st' = [c \in Clients |-> IF plan[c].proc = p /\ st[c].pc \notin Over \union {"idle"}
                               THEN Kept([st[c] EXCEPT !.pc = "dead"]) ELSE st[c]]
  BY DEF Kill
<1>2. ASSUME NEW c \in Clients PROVE IsState(st'[c]) /\ CallOk(c, st[c], live)'
  <2>s. IsState(st[c]) /\ CallOk(c, st[c], live) /\ Shape
    BY DEF DeployInv, Shape
  <2>1. CASE st'[c] = st[c]
    BY <2>1, <2>s, <1>0, OthersKeep
  <2>2. CASE st'[c] = Kept([st[c] EXCEPT !.pc = "dead"])
    <3> DEFINE new == [st[c] EXCEPT !.pc = "dead"]
    <3>1. IsState(new) /\ new.pc = "dead"
      BY <2>s DEF IsState, Fields
    <3>2. st'[c] = Kept(new)
      BY <2>2
    <3> HIDE DEF new
    <3>3. IsState(st'[c]) /\ st'[c].pc = "dead" /\ st'[c].ino = 0 /\ st'[c].got = {}
      BY <3>1, <3>2, KeptIs DEF Over
    <3> QED
      BY <3>3 DEF CallOk, LockOk, MadeOk, FoundOk, Before, Waiting
  <2> QED
    BY <1>1, <2>1, <2>2
<1>3. Shape'
  BY <1>0, <1>1, <1>2 DEF Shape, DeployInv
<1> QED
  BY <1>2, <1>3 DEF DeployInv

\* The beginning.
LEMMA DeployInitHolds == Init => DeployInv
<1> SUFFICES ASSUME Init PROVE DeployInv
  OBVIOUS
<1>1. PICK s \in Scenarios :
        /\ live = {[id |-> 1, node |-> n, by |-> 0, owner |-> "o1", code |-> "c1", kind |-> "service"] : n \in s.prior}
        /\ up = Nodes /\ listed = Nodes /\ st = [c \in Clients |-> Fresh]
  BY DEF Init
<1>2. \A r \in live : r.by = 0 /\ r.node \in Nodes
  BY <1>1, DeployAssumption
<1>3. IsState(Fresh) /\ Fresh.pc = "idle" /\ Fresh.ino = 0 /\ Fresh.got = {}
  BY DEF IsState, Fields, Fresh
<1>4. ASSUME NEW c \in Clients PROVE IsState(st[c]) /\ CallOk(c, st[c], live)
  <2>1. st[c] = Fresh
    BY <1>1
  <2>2. By(c, live) = {}
    BY <1>2, DeployAssumption DEF By
  <2> QED
    BY <2>1, <2>2, <1>3 DEF CallOk, LockOk, MadeOk, FoundOk
<1>5. Shape
  BY <1>1, <1>2, <1>4 DEF Shape
<1> QED
  BY <1>4, <1>5 DEF DeployInv

\* Every step.
LEMMA DeployStepHolds == DeployInv /\ [Next]_vars => DeployInv'
<1> SUFFICES ASSUME DeployInv, [Next]_vars PROVE DeployInv'
  OBVIOUS
<1>s. Shape
  BY DEF DeployInv
<1>1. CASE UNCHANGED vars
  <2>1. UNCHANGED <<plan, st, live, up, listed>>
    BY <1>1 DEF vars
  <2> QED
    BY <2>1, <1>s, FewerKeeps DEF Shape
<1>2. ASSUME NEW c \in Clients, Call(c) PROVE DeployInv'
  <2>1. CASE Discover(c) \/ StaleRoutes(c) \/ Judge(c) \/ NoNodes(c) \/ Acquire(c) \/ LockTimeout(c)
    BY <2>1, DiscoverKeeps, StaleKeeps, JudgeKeeps, NoNodesKeeps, AcquireKeeps, TimeoutKeeps
  <2>2. CASE Reused(c) \/ Unlink(c) \/ Ended(c) \/ Rediscover(c) \/ Verdict(c) \/ Undone(c) \/ Delete(c)
    BY <2>2, ReusedKeeps, UnlinkKeeps, EndedKeeps, AsksMoreKeeps, VerdictKeeps, ClosesKeeps, DeleteKeeps
  <2>3. CASE \E r \in Known : Inspect(c, r) \/ Reuse(c, r) \/ End(c, r) \/ Attach(c, r) \/ Undo(c, r)
    BY <2>3, InspectKeeps, ReuseKeeps, EndKeeps, AttachKeeps, UndoKeeps
  <2>4. CASE \E n \in Nodes : Create(c, n) \/ Fallback(c, n)
    BY <2>4, CreateKeeps, AsksMoreKeeps
  <2> QED
    BY <1>2, <2>1, <2>2, <2>3, <2>4 DEF Call
<1>3. ASSUME NEW c \in Clients, Session(c) PROVE DeployInv'
  BY <1>3, ShutKeeps, ClosesKeeps, RemoveKeeps, CompensateKeeps DEF Session
<1>4. CASE Cluster
  <2>1. ASSUME NEW r \in live, LeaseOut(r) \/ HostDies(r) PROVE DeployInv'
    <3>1. UNCHANGED <<plan, st, up, listed>> /\ live' \subseteq live
      BY <2>1 DEF LeaseOut, HostDies, Stopped
    <3> QED
      BY <3>1, <1>s, FewerKeeps DEF Shape
  <2>2. ASSUME NEW n \in Nodes, NodeDown(n) PROVE DeployInv'
    <3>1. UNCHANGED <<plan, st, listed>> /\ up' = up \ {n} /\ live' = live \ On(live, n)
      BY <2>2 DEF NodeDown
    <3>2. \A r \in live' : r.node \in up'
      BY <3>1, <1>s DEF Shape, On
    <3> QED
      BY <3>1, <3>2, FewerKeeps
  <2>3. ASSUME NEW n \in Nodes, Unlist(n) \/ Report(n) PROVE DeployInv'
    <3>1. UNCHANGED <<plan, st, live, up>> /\ listed' \subseteq listed
      BY <2>3 DEF Unlist, Report
    <3> QED
      BY <3>1, <1>s, FewerKeeps DEF Shape
  <2> QED
    BY <1>4, <2>1, <2>2, <2>3, KillKeeps DEF Cluster
<1> QED
  BY <1>1, <1>2, <1>3, <1>4 DEF Next

\* Whichever way a call goes, no replica and no lock is left that nobody owns, and a
\* deployment replaces other code only when none of what it found runs any more
\* (the rollback of _deploy_from_infocenter, _end_existing_group, the lock of the
\* session cache file).
THEOREM DeploymentsEndClean == Spec => []EndsClean
<1>1. DeployInv => EndsClean
  <2> SUFFICES ASSUME DeployInv PROVE EndsClean
    OBVIOUS
  <2>0. \A c \in Clients : CallOk(c, st[c], live)
    BY DEF DeployInv
  <2>1. RollbackClean
    BY <2>0 DEF RollbackClean, At, CallOk, MadeOk, By
  <2>2. LockFreed
    BY <2>0 DEF LockFreed, CallOk, LockOk, NoLock
  <2>3. Replaced
    BY <2>0 DEF Replaced, CallOk, FoundOk, OurCode
  <2> QED
    BY <2>1, <2>2, <2>3 DEF EndsClean
<1> QED
  BY <1>1, DeployInitHolds, DeployStepHolds, PTL DEF Spec

-----------------------------------------------------------------------------
(* Locks and cache files. *)

\* A call that works holds the lock of the file the path names, and what it leaves
\* to be taken up again is in that file; a file goes only with the mark to delete it.
Holding == {"create", "reuse", "end", "open", "undo"}
Closes(c) == st[c].pc \in {"open", "closed"} \/ (st[c].pc = "undo" /\ st[c].out = "closed")
File(c) == path[Mine(c)]
Names(c) ==
  /\ st[c].pc \in Holding => File(c) # 0 /\ st[c].ino = File(c)
  /\ st[c].pc = "delete" => st[c].flag
  /\ ~st[c].flag /\ Closes(c) => File(c) # 0 /\ st[c].ses \subseteq data[Mine(c)][File(c)].on

\* What the requests, the paths and the files are.
Asks == \E s \in Scenarios : plan = s.plan
Paths == path \in [Owners -> Inodes \cup {0}]
Files == data = [o \in Owners |-> [i \in Inodes |-> data[o][i]]]
Lasting == Asks /\ Paths /\ Files

\* What each step of a call does to it: only Acquire takes a lock, and as long as
\* the call is alone its file is right.
Moves(c) ==
  /\ st'[c].pc # "idle" /\ \A d \in Clients : d # c => st'[d] = st[d]
  /\ st'[c].ino = st[c].ino \/ st'[c].ino = 0
  /\ Service(c) /\ Names(c) => Names(c)'

\* Owners are known.
LEMMA OwnerKnown ==
  ASSUME Asks, NEW c \in Clients
  PROVE  Mine(c) \in Owners
BY DeployAssumption DEF Asks, Mine

\* A file that is written stays one of the files.
LEMMA WrittenFiles ==
  ASSUME Files, NEW c \in Clients, NEW d, data' = Written(c, d)
  PROVE  Files'
<1>1. CASE st[c].ino = 0
  BY <1>1 DEF Files, Written
<1>2. CASE st[c].ino # 0
  <2>1. PICK o, i : o = Mine(c) /\ i = st[c].ino
    OBVIOUS
  <2>2. data' = [data EXCEPT ![o][i] = d]
    BY <1>2, <2>1 DEF Written
  <2> QED
    BY <2>2 DEF Files
<1> QED
  BY <1>1, <1>2

\* What a call that works writes can be read under the path.
LEMMA WrittenRead ==
  ASSUME Lasting, NEW c \in Clients, Names(c), st[c].pc \in Holding, NEW S, data' = Persisted(c, S), UNCHANGED <<plan, path>>
  PROVE  (data[Mine(c)][File(c)].on)' = S
<1>1. PICK o, i : o = Mine(c) /\ i = st[c].ino /\ i = path[o] /\ i # 0
  BY DEF Names, File
<1>2. o \in Owners /\ i \in Inodes
  BY <1>1, OwnerKnown DEF Lasting, Paths
<1> DEFINE k == IF S = {} THEN None ELSE [code |-> plan[c].code, on |-> S]
<1>3. k.on = S
  BY DEF None
<1> HIDE DEF k
<1>4. data' = [data EXCEPT ![o][i] = k]
  BY <1>1 DEF Persisted, Written, k
<1>5. data'[o][i] = k
  BY <1>2, <1>4 DEF Lasting, Files
<1> QED
  BY <1>1, <1>3, <1>5 DEF File, Mine

\* Steps that do not touch the file, or that leave the call without a claim to it.
Early == Waiting \cup {"find", "inspect", "unlink", "failed"}
LEMMA QuietMoves ==
  ASSUME Shape, NEW c \in Clients, NEW new, IsState(new), Set(c, new), UNCHANGED plan,
         new.ino = st[c].ino \/ new.ino = 0, new.pc # "idle",
         \/ ~Service(c)
         \/ new.pc \in Early
         \/ /\ UNCHANGED <<path, data>> /\ new.pc = st[c].pc /\ new.ino = st[c].ino /\ new.out = st[c].out
            /\ new.pc \notin Over /\ new.flag = st[c].flag
            /\ new.pc \in {"open", "undo", "delete"} => new.ses = st[c].ses
  PROVE  Moves(c)
<1>1. Goes(c, new)
  BY SetGoes
<1>2. st'[c].pc # "idle" /\ (\A d \in Clients : d # c => st'[d] = st[d]) /\ (st'[c].ino = st[c].ino \/ st'[c].ino = 0)
  BY <1>1 DEF Goes
<1>3. ASSUME Service(c), Names(c) PROVE Names(c)'
  <2>1. CASE new.pc \in Early
    <3>1. st'[c].pc \in Early
      BY <1>1, <2>1 DEF Goes
    <3> QED
      BY <3>1 DEF Names, Closes, Early, Holding, Waiting
  <2>2. CASE new.pc \notin Early
    <3>1. /\ st'[c].pc = st[c].pc /\ st'[c].ino = st[c].ino /\ st'[c].out = st[c].out /\ st'[c].flag = st[c].flag
          /\ st[c].pc \notin Over
          /\ st[c].pc \in {"open", "undo", "delete"} => st'[c].ses = st[c].ses
      BY <1>1, <1>3, <2>2 DEF Goes
    <3>2. UNCHANGED <<plan, path, data>>
      BY <1>3, <2>2
    <3> QED
      BY <3>1, <3>2, <1>3 DEF Names, Closes, File, Mine, Over
  <2> QED
    BY <2>1, <2>2
<1> QED
  BY <1>2, <1>3 DEF Moves

\* A session that goes on, or a call that goes on to one, with its file written.
LEMMA WritesMoves ==
  ASSUME Shape, Lasting, NEW c \in Clients, NEW new, IsState(new), Set(c, new), UNCHANGED <<plan, path>>,
         new.ino = st[c].ino, new.pc \in {"create", "open"}, st[c].pc \in Holding,
         Service(c) /\ new.pc = "open" /\ ~new.flag => \E S : data' = Persisted(c, S) /\ new.ses \subseteq S
  PROVE  Moves(c)
<1>1. Goes(c, new)
  BY SetGoes
<1>2. st'[c].pc # "idle" /\ (\A d \in Clients : d # c => st'[d] = st[d]) /\ st'[c].ino = st[c].ino
  BY <1>1 DEF Goes, Over
<1>3. ASSUME Service(c), Names(c) PROVE Names(c)'
  <2>1. File(c)' # 0 /\ st'[c].ino = File(c)'
    BY <1>2, <1>3 DEF Names, File, Mine
  <2>2. st'[c].pc = new.pc /\ st'[c].flag = new.flag /\ st'[c].ses = new.ses
    BY <1>1 DEF Goes
  <2>3. ASSUME ~new.flag, new.pc = "open" PROVE new.ses \subseteq (data[Mine(c)][File(c)].on)'
    <3>1. PICK S : data' = Persisted(c, S) /\ new.ses \subseteq S
      BY <1>3, <2>3
    <3> QED
      BY <3>1, <1>3, WrittenRead
  <2> QED
    BY <2>1, <2>2, <2>3 DEF Names, Closes
<1> QED
  BY <1>2, <1>3 DEF Moves

\* A session that is about to end, and one whose lock is let go: its file is as it was.
LEMMA EndsMoves ==
  ASSUME Shape, NEW c \in Clients, NEW new, IsState(new), Set(c, new), UNCHANGED <<plan, path>>,
         new.ses = st[c].ses,
         \/ new.pc = "undo" /\ new.ino = st[c].ino /\ st[c].pc \in Holding
         \/ new.pc \in {"delete", "closed", "failed"} /\ new.ino = 0,
         new.pc = "delete" => new.flag,
         ~new.flag /\ (new.pc = "closed" \/ (new.pc = "undo" /\ new.out = "closed")) =>
            ~st[c].flag /\ Closes(c) /\ UNCHANGED data
  PROVE  Moves(c)
<1>1. Goes(c, new)
  BY SetGoes
<1>2. st'[c].pc # "idle" /\ (\A d \in Clients : d # c => st'[d] = st[d]) /\ (st'[c].ino = st[c].ino \/ st'[c].ino = 0)
  BY <1>1 DEF Goes, Over
<1>3. ASSUME Service(c), Names(c) PROVE Names(c)'
  <2>1. st'[c].pc = new.pc /\ st'[c].flag = new.flag /\ st'[c].ses = st[c].ses
    BY <1>1 DEF Goes
  <2>2. ASSUME st'[c].pc \in Holding PROVE File(c)' # 0 /\ st'[c].ino = File(c)'
    BY <1>1, <2>1, <2>2, <1>3 DEF Goes, Over, Names, File, Mine, Holding
  <2>3. ASSUME ~st'[c].flag, Closes(c)' PROVE File(c)' # 0 /\ st'[c].ses \subseteq (data[Mine(c)][File(c)].on)'
    <3>1. new.pc = "closed" \/ (new.pc = "undo" /\ new.out = "closed")
      BY <2>1, <2>3, <1>1 DEF Closes, Goes, Over
    <3>2. ~st[c].flag /\ Closes(c) /\ UNCHANGED <<plan, path, data>>
      BY <3>1, <2>1, <2>3
    <3> QED
      BY <3>2, <2>1, <1>3 DEF Names, File, Mine
  <2> QED
    BY <2>1, <2>2, <2>3 DEF Names
<1> QED
  BY <1>2, <1>3 DEF Moves

-----------------------------------------------------------------------------
(* Each step and its file. *)

\* Steps before the lock, and those that give it up.
LEMMA EarlyMoves ==
  ASSUME Shape, NEW c \in Clients,
         Discover(c) \/ StaleRoutes(c) \/ Judge(c) \/ NoNodes(c) \/ LockTimeout(c) \/ Unlink(c)
  PROVE  Moves(c)
<1>s. IsState(st[c])
  BY DEF Shape
<1>1. CASE Discover(c)
  <2>1. PICK routes, S, pc :
          /\ pc = IF ~Service(c) THEN "create" ELSE IF routes = {} THEN "lock" ELSE "inspect"
          /\ Set(c, [st[c] EXCEPT !.pc = pc, !.cand = listed, !.sel = S, !.tried = S, !.todo = routes,
                                  !.infos = {}, !.lost = {}])
    <3> DEFINE routes == {r \in view : Service(c) /\ r.node \in listed}
               pc == IF ~Service(c) THEN "create" ELSE IF routes = {} THEN "lock" ELSE "inspect"
    <3>1. PICK S : Set(c, [st[c] EXCEPT !.pc = pc, !.cand = listed, !.sel = S, !.tried = S, !.todo = routes,
                                        !.infos = {}, !.lost = {}])
      BY <1>1 DEF Discover
    <3>2. pc = IF ~Service(c) THEN "create" ELSE IF routes = {} THEN "lock" ELSE "inspect"
      OBVIOUS
    <3> HIDE DEF routes, pc
    <3> QED
      BY <3>1, <3>2
  <2> DEFINE new == [st[c] EXCEPT !.pc = pc, !.cand = listed, !.sel = S, !.tried = S, !.todo = routes,
                                  !.infos = {}, !.lost = {}]
  <2>2. IsState(new) /\ new.pc = pc /\ new.ino = st[c].ino
    BY <1>s DEF IsState, Fields
  <2>3. Set(c, new)
    BY <2>1
  <2> HIDE DEF new
  <2>4. new.pc # "idle" /\ (~Service(c) \/ new.pc \in Early) /\ UNCHANGED plan
    BY <1>1, <2>1, <2>2 DEF Early, Waiting, Discover
  <2> QED
    BY <2>2, <2>3, <2>4, QuietMoves
<1>2. CASE StaleRoutes(c)
  <2> DEFINE pc == IF st[c].round = 2 THEN "failed" ELSE "find"
             k == st[c].round + 1
             new == [st[c] EXCEPT !.round = k, !.pc = pc]
  <2>1. Set(c, new) /\ pc \in {"failed", "find"} /\ UNCHANGED plan
    BY <1>2 DEF StaleRoutes
  <2> HIDE DEF pc, k
  <2>2. IsState(new) /\ new.pc = pc /\ new.ino = st[c].ino
    BY <1>s DEF IsState, Fields
  <2> HIDE DEF new
  <2>3. new.pc \in Early /\ new.pc # "idle"
    BY <2>1, <2>2 DEF Early
  <2> QED
    BY <2>1, <2>2, <2>3, QuietMoves
<1>3. CASE Judge(c)
  <2>1. PICK pc, cache : /\ Set(c, [st[c] EXCEPT !.cache = cache, !.pc = pc])
                         /\ pc \in {"lock", "failed", "reuselock", "replacelock"}
    <3> DEFINE infos == st[c].infos
               cache == Contents(Mine(c))
               same == \A r, q \in infos : r.owner = Mine(c) /\ r.code = q.code
               ours == \A r \in infos : r.code = plan[c].code
    <3>1. PICK pc :
            /\ Set(c, [st[c] EXCEPT !.cache = cache, !.pc = pc])
            /\ pc = CASE infos = {} -> "lock"
                      [] infos # {} /\ (~same \/ ~plan[c].takeover) -> "failed"
                      [] infos # {} /\ same /\ plan[c].takeover /\ ours ->
                           IF cache.code = plan[c].code THEN "reuselock" ELSE "lock"
                      [] infos # {} /\ same /\ plan[c].takeover /\ ~ours ->
                           IF cache = None THEN "lock" ELSE "replacelock"
      BY <1>3 DEF Judge
    <3> HIDE DEF infos, cache, same, ours
    <3>2. CASE infos = {}
      <4>1. pc = "lock"
        BY <3>1, <3>2
      <4> QED
        BY <3>1, <4>1
    <3>3. CASE infos # {} /\ (~same \/ ~plan[c].takeover)
      <4>1. pc = "failed"
        BY <3>1, <3>3
      <4> QED
        BY <3>1, <4>1
    <3>4. CASE infos # {} /\ same /\ plan[c].takeover /\ ours
      <4>1. pc \in {"lock", "reuselock"}
        BY <3>1, <3>4
      <4> QED
        BY <3>1, <4>1
    <3>5. CASE infos # {} /\ same /\ plan[c].takeover /\ ~ours
      <4>1. pc \in {"lock", "replacelock"}
        BY <3>1, <3>5
      <4> QED
        BY <3>1, <4>1
    <3> QED
      BY <3>2, <3>3, <3>4, <3>5
  <2> DEFINE new == [st[c] EXCEPT !.cache = cache, !.pc = pc]
  <2>2. IsState(new) /\ new.pc = pc /\ new.ino = st[c].ino
    BY <1>s DEF IsState, Fields
  <2>3. Set(c, new)
    BY <2>1
  <2> HIDE DEF new
  <2>4. new.pc \in Early /\ new.pc # "idle" /\ UNCHANGED plan
    BY <1>3, <2>1, <2>2 DEF Early, Waiting, Judge
  <2> QED
    BY <2>2, <2>3, <2>4, QuietMoves
<1>4. CASE NoNodes(c) \/ LockTimeout(c)
  <2> DEFINE new == [st[c] EXCEPT !.pc = "failed"]
  <2>1. Set(c, new) /\ UNCHANGED plan
    BY <1>4 DEF NoNodes, LockTimeout
  <2>2. IsState(new) /\ new.pc = "failed" /\ new.ino = st[c].ino
    BY <1>s DEF IsState, Fields
  <2> HIDE DEF new
  <2>3. new.pc \in Early /\ new.pc # "idle"
    BY <2>2 DEF Early
  <2> QED
    BY <2>1, <2>2, <2>3, QuietMoves
<1>5. CASE Unlink(c)
  <2> DEFINE f == Fresh.fail
             new == [st[c] EXCEPT !.pc = "lock", !.infos = {}, !.fail = f]
  <2>1. Set(c, new) /\ UNCHANGED plan
    BY <1>5 DEF Unlink
  <2>f. f = [n \in Nodes |-> f[n]]
    BY DEF Fresh
  <2> HIDE DEF f
  <2>2. IsState(new) /\ new.pc = "lock" /\ new.ino = st[c].ino
    BY <1>s, <2>f DEF IsState, Fields
  <2> HIDE DEF new
  <2>3. new.pc \in Early /\ new.pc # "idle"
    BY <2>2 DEF Early, Waiting
  <2> QED
    BY <2>1, <2>2, <2>3, QuietMoves
<1> QED
  BY <1>1, <1>2, <1>3, <1>4, <1>5

\* The lock is taken of the file the path names from then on, and of no file that
\* somebody else holds.
LEMMA AcquireTakes ==
  ASSUME Shape, Lasting, NEW c \in Clients, Acquire(c)
  PROVE  /\ Lasting' /\ Names(c)' /\ st'[c].pc # "idle" /\ \A d \in Clients : d # c => st'[d] = st[d]
         /\ \A d \in Clients : d # c /\ Mine(d) = Mine(c) /\ st[d].ino # 0 =>
              plan[d].proc # plan[c].proc /\ st[d].ino # st'[c].ino
<1>s. IsState(st[c]) /\ Mine(c) \in Owners
  BY OwnerKnown DEF Shape, Lasting
<1>1. PICK i \in Inodes :
        /\ Holders(Mine(c), i) = {} /\ path' = [path EXCEPT ![Mine(c)] = i]
        /\ data' = data \/ data' = [data EXCEPT ![Mine(c)][i] = None]
        /\ Set(c, [st[c] EXCEPT !.ino = i, !.todo = IF At(c, "lock") THEN {} ELSE st[c].infos,
                                !.pc = CASE At(c, "lock") -> "create"
                                         [] At(c, "reuselock") -> "reuse"
                                         [] At(c, "replacelock") -> "end"])
  <2>1. path[Mine(c)] # 0 => path[Mine(c)] \in Inodes
    BY <1>s DEF Lasting, Paths
  <2>2. NewInode(Mine(c)) \subseteq Inodes
    BY DEF NewInode
  <2>3. PICK i \in IF path[Mine(c)] # 0 THEN {path[Mine(c)]} ELSE NewInode(Mine(c)) :
        /\ Holders(Mine(c), i) = {} /\ path' = [path EXCEPT ![Mine(c)] = i]
        /\ data' = IF path[Mine(c)] = i THEN data ELSE [data EXCEPT ![Mine(c)][i] = None]
        /\ Set(c, [st[c] EXCEPT !.ino = i, !.todo = IF At(c, "lock") THEN {} ELSE st[c].infos,
                                !.pc = CASE At(c, "lock") -> "create"
                                         [] At(c, "reuselock") -> "reuse"
                                         [] At(c, "replacelock") -> "end"])
    BY DEF Acquire
  <2>4. i \in Inodes
    BY <2>1, <2>2, <2>3
  <2>5. data' = data \/ data' = [data EXCEPT ![Mine(c)][i] = None]
    BY <2>3
  <2> QED
    BY <2>3, <2>4, <2>5
<1>0. st[c].pc \in Waiting /\ ~Barred(c) /\ UNCHANGED plan
  BY DEF Acquire
<1> DEFINE pc == CASE At(c, "lock") -> "create" [] At(c, "reuselock") -> "reuse" [] At(c, "replacelock") -> "end"
           todo == IF At(c, "lock") THEN {} ELSE st[c].infos
           new == [st[c] EXCEPT !.ino = i, !.todo = todo, !.pc = pc]
<1>2. Set(c, new)
  BY <1>1
<1>p. pc \in {"create", "reuse", "end"}
  BY <1>0 DEF At, Waiting
<1> HIDE DEF pc, todo
<1>3. IsState(new) /\ new.pc = pc /\ new.ino = i
  BY <1>s DEF IsState, Fields
<1> HIDE DEF new
<1>4. /\ st'[c].pc \in {"create", "reuse", "end"} /\ st'[c].ino = i
      /\ \A d \in Clients : d # c => st'[d] = st[d]
  <2>1. Goes(c, new)
    BY <1>2, <1>3, SetGoes
  <2> QED
    BY <2>1, <1>3, <1>p DEF Goes, Over
<1>5. i # 0 /\ path'[Mine(c)] = i /\ Paths'
  BY <1>1, <1>s, DeployAssumption DEF Lasting, Paths
<1>6. Lasting'
  <2>1. Asks'
    BY <1>0 DEF Lasting, Asks
  <2>2. Files'
    <3>1. CASE data' = data
      BY <3>1 DEF Lasting, Files
    <3>2. CASE data' = [data EXCEPT ![Mine(c)][i] = None]
      BY <3>2 DEF Lasting, Files
    <3> QED
      BY <3>1, <3>2, <1>1
  <2> QED
    BY <1>5, <2>1, <2>2 DEF Lasting
<1>7. Names(c)'
  BY <1>0, <1>4, <1>5 DEF Names, Closes, File, Mine
<1>8. ASSUME NEW d \in Clients, d # c, Mine(d) = Mine(c), st[d].ino # 0
      PROVE  plan[d].proc # plan[c].proc /\ st[d].ino # st'[c].ino
  <2>1. plan[d].proc # plan[c].proc
    BY <1>0, <1>8 DEF Barred
  <2>2. d \notin Holders(Mine(c), i)
    BY <1>1
  <2> QED
    BY <2>1, <2>2, <1>4, <1>8 DEF Holders
<1> QED
  BY <1>4, <1>6, <1>7, <1>8

\* Calls to nodes and the answers: the step and the file stay.
LEMMA CallsMove ==
  ASSUME Shape, NEW c \in Clients, NEW r, Inspect(c, r) \/ Reuse(c, r) \/ End(c, r) \/ Undo(c, r)
  PROVE  Moves(c)
<1>s. IsState(st[c])
  BY DEF Shape
<1>1. CASE Inspect(c, r)
  <2>0. st[c].pc = "inspect" /\ UNCHANGED plan
    BY <1>1 DEF Inspect, At
  <2>1. \/ Set(c, [st[c] EXCEPT !.todo = @ \ {r}, !.infos = IF r \in live THEN @ \union {r} ELSE @])
        \/ Set(c, [st[c] EXCEPT !.todo = @ \ {r}, !.lost = @ \union {r.node}])
        \/ Set(c, [st[c] EXCEPT !.pc = "failed"])
    BY <1>1 DEF Inspect
  <2>2. ASSUME NEW new, Set(c, new), IsState(new), new.pc \in {"inspect", "failed"}, new.ino = st[c].ino
        PROVE  Moves(c)
    <3>1. new.pc \in Early /\ new.pc # "idle"
      BY <2>2 DEF Early
    <3> QED
      BY <2>0, <2>2, <3>1, QuietMoves
  <2>3. CASE Set(c, [st[c] EXCEPT !.todo = @ \ {r}, !.infos = IF r \in live THEN @ \union {r} ELSE @])
    <3> DEFINE I == IF r \in live THEN st[c].infos \union {r} ELSE st[c].infos
               new == [st[c] EXCEPT !.todo = @ \ {r}, !.infos = I]
    <3>1. Set(c, new)
      BY <2>3
    <3> HIDE DEF I
    <3>2. IsState(new) /\ new.pc = "inspect" /\ new.ino = st[c].ino
      BY <1>s, <2>0 DEF IsState, Fields
    <3> HIDE DEF new
    <3> QED
      BY <3>1, <3>2, <2>2
  <2>4. CASE Set(c, [st[c] EXCEPT !.todo = @ \ {r}, !.lost = @ \union {r.node}])
    <3> DEFINE new == [st[c] EXCEPT !.todo = @ \ {r}, !.lost = @ \union {r.node}]
    <3>1. Set(c, new)
      BY <2>4
    <3>2. IsState(new) /\ new.pc = "inspect" /\ new.ino = st[c].ino
      BY <1>s, <2>0 DEF IsState, Fields
    <3> HIDE DEF new
    <3> QED
      BY <3>1, <3>2, <2>2
  <2>5. CASE Set(c, [st[c] EXCEPT !.pc = "failed"])
    <3> DEFINE new == [st[c] EXCEPT !.pc = "failed"]
    <3>1. Set(c, new)
      BY <2>5
    <3>2. IsState(new) /\ new.pc = "failed" /\ new.ino = st[c].ino
      BY <1>s, <2>0 DEF IsState, Fields
    <3> HIDE DEF new
    <3> QED
      BY <3>1, <3>2, <2>2
  <2> QED
    BY <2>1, <2>3, <2>4, <2>5
<1>2. ASSUME NEW T, NEW S, NEW h, NEW f, f = [n \in Nodes |-> f[n]], UNCHANGED <<plan, path, data>>,
             Set(c, [st[c] EXCEPT !.todo = T, !.ses = S, !.hurt = h, !.fail = f]),
             st[c].pc = "reuse" \/ (st[c].pc \in {"end", "undo"} /\ S = st[c].ses)
      PROVE  Moves(c)
  <2> DEFINE new == [st[c] EXCEPT !.todo = T, !.ses = S, !.hurt = h, !.fail = f]
  <2>1. Set(c, new)
    BY <1>2
  <2>2. IsState(new) /\ new.pc = st[c].pc /\ new.ino = st[c].ino /\ new.out = st[c].out /\ new.flag = st[c].flag
        /\ new.ses = S
    BY <1>s, <1>2 DEF IsState, Fields
  <2> HIDE DEF new
  <2>3. new.pc # "idle" /\ new.pc \notin Over /\ (new.pc \in {"open", "undo", "delete"} => new.ses = st[c].ses)
    BY <1>2, <2>2 DEF Over
  <2> QED
    BY <1>2, <2>1, <2>2, <2>3, QuietMoves
<1>3. st[c].fail = [n \in Nodes |-> st[c].fail[n]] /\ \A n, w : Failing(c, n, w) = [m \in Nodes |-> Failing(c, n, w)[m]]
  BY <1>s DEF IsState, Failing
<1>4. CASE Reuse(c, r)
  <2>0. st[c].pc = "reuse" /\ UNCHANGED <<plan, path, data>>
    BY <1>4 DEF Reuse, At
  <2>1. \/ Set(c, [st[c] EXCEPT !.todo = @ \ {r}, !.ses = @ \union {r}])
        \/ \E w : Set(c, [st[c] EXCEPT !.todo = @ \ {r}, !.fail = Failing(c, r.node, w)])
    BY <1>4 DEF Reuse
  <2>2. CASE Set(c, [st[c] EXCEPT !.todo = @ \ {r}, !.ses = @ \union {r}])
    <3> DEFINE T == st[c].todo \ {r}
               S == st[c].ses \union {r}
    <3>1. [st[c] EXCEPT !.todo = @ \ {r}, !.ses = @ \union {r}]
          = [st[c] EXCEPT !.todo = T, !.ses = S, !.hurt = st[c].hurt, !.fail = st[c].fail]
      BY <1>s DEF IsState, Fields
    <3>2. Set(c, [st[c] EXCEPT !.todo = T, !.ses = S, !.hurt = st[c].hurt, !.fail = st[c].fail])
      BY <2>2, <3>1
    <3> HIDE DEF T, S
    <3> QED
      BY <2>0, <3>2, <1>2, <1>3
  <2>3. CASE \E w : Set(c, [st[c] EXCEPT !.todo = @ \ {r}, !.fail = Failing(c, r.node, w)])
    <3>0. PICK w : Set(c, [st[c] EXCEPT !.todo = @ \ {r}, !.fail = Failing(c, r.node, w)])
      BY <2>3
    <3> DEFINE T == st[c].todo \ {r}
               f == Failing(c, r.node, w)
    <3>f. f = [n \in Nodes |-> f[n]]
      BY <1>3
    <3>1. Set(c, [st[c] EXCEPT !.todo = T, !.fail = f])
      BY <3>0
    <3> HIDE DEF T, f
    <3>2. [st[c] EXCEPT !.todo = T, !.fail = f] = [st[c] EXCEPT !.todo = T, !.ses = st[c].ses, !.hurt = st[c].hurt, !.fail = f]
      BY <1>s DEF IsState, Fields
    <3>3. Set(c, [st[c] EXCEPT !.todo = T, !.ses = st[c].ses, !.hurt = st[c].hurt, !.fail = f])
      BY <3>1, <3>2
    <3> QED
      BY <2>0, <3>3, <3>f, <1>2
  <2> QED
    BY <2>1, <2>2, <2>3
<1>5. CASE End(c, r) \/ Undo(c, r)
  <2>0. st[c].pc \in {"end", "undo"} /\ UNCHANGED <<plan, path, data>>
    BY <1>5 DEF End, Undo, At
  <2>1. PICK w, ok : Set(c, [st[c] EXCEPT !.todo = @ \ {r}, !.hurt = @ \/ ~ok,
                                          !.fail = IF ok THEN @ ELSE Failing(c, r.node, w)])
    <3>1. CASE End(c, r)
      <4>1. PICK ok \in BOOLEAN : Set(c, [st[c] EXCEPT !.todo = @ \ {r}, !.hurt = @ \/ ~ok,
                                          !.fail = IF ok THEN @ ELSE Failing(c, r.node, "unknown")])
        BY <3>1 DEF End
      <4> QED
        BY ONLY <4>1
    <3>2. CASE Undo(c, r)
      <4>1. PICK ok \in BOOLEAN : Set(c, [st[c] EXCEPT !.todo = @ \ {r}, !.hurt = @ \/ ~ok,
                                          !.fail = IF ok THEN @ ELSE Failing(c, r.node, "end")])
        BY <3>2 DEF Undo
      <4> QED
        BY ONLY <4>1
    <3> QED
      BY <1>5, <3>1, <3>2
  <2> DEFINE T == st[c].todo \ {r}
             f == IF ok THEN st[c].fail ELSE Failing(c, r.node, w)
             h == st[c].hurt \/ ~ok
  <2>f. f = [n \in Nodes |-> f[n]]
    BY <1>3
  <2>2. Set(c, [st[c] EXCEPT !.todo = T, !.hurt = h, !.fail = f])
    BY <2>1
  <2> HIDE DEF T, f, h
  <2>3. [st[c] EXCEPT !.todo = T, !.hurt = h, !.fail = f] = [st[c] EXCEPT !.todo = T, !.ses = st[c].ses, !.hurt = h, !.fail = f]
    BY <1>s DEF IsState, Fields
  <2>4. Set(c, [st[c] EXCEPT !.todo = T, !.ses = st[c].ses, !.hurt = h, !.fail = f])
    BY <2>2, <2>3
  <2> QED
    BY <2>0, <2>4, <2>f, <1>2
<1> QED
  BY <1>1, <1>4, <1>5

\* While replicas are made the file waits.
LEMMA CreatingMoves ==
  ASSUME DeployInv, NEW c \in Clients, NEW n, NEW r, Create(c, n) \/ Attach(c, r) \/ Fallback(c, n) \/ Rediscover(c)
  PROVE  Moves(c)
<1>s. IsState(st[c]) /\ Shape /\ CallOk(c, st[c], live)
  BY DEF DeployInv, Shape
<1>0. st[c].pc = "create" /\ UNCHANGED <<plan, path, data>>
  BY <1>s DEF Create, Attach, Fallback, Rediscover, Asked, At, CallOk, MadeOk
<1>1. ASSUME NEW new, Set(c, new), IsState(new), new.pc = "create", new.ino = st[c].ino, new.out = st[c].out,
             new.flag = st[c].flag
      PROVE  Moves(c)
  <2>1. new.pc # "idle" /\ new.pc \notin Over
    BY <1>1 DEF Over
  <2> QED
    BY <1>0, <1>1, <1>s, <2>1, QuietMoves
<1>2. ASSUME NEW A, NEW B, Set(c, [st[c] EXCEPT !.sel = A, !.tried = B]) PROVE Moves(c)
  <2> DEFINE new == [st[c] EXCEPT !.sel = A, !.tried = B]
  <2>1. IsState(new) /\ new.pc = "create" /\ new.ino = st[c].ino /\ new.out = st[c].out /\ new.flag = st[c].flag
    BY <1>s, <1>0 DEF IsState, Fields
  <2>2. Set(c, new)
    BY <1>2
  <2> HIDE DEF new
  <2> QED
    BY <1>1, <2>1, <2>2
<1>f. \A k, w : Failing(c, k, w) = [m \in Nodes |-> Failing(c, k, w)[m]]
  BY <1>s DEF IsState, Failing
<1>3. ASSUME NEW A, NEW k, NEW w, NEW G, NEW S,
             Set(c, [st[c] EXCEPT !.sel = A, !.fail = Failing(c, k, w), !.got = G, !.ses = S])
      PROVE  Moves(c)
  <2> DEFINE f == Failing(c, k, w)
             new == [st[c] EXCEPT !.sel = A, !.fail = f, !.got = G, !.ses = S]
  <2>f. f = [m \in Nodes |-> f[m]]
    BY <1>f
  <2>2. Set(c, new)
    BY <1>3
  <2> HIDE DEF f
  <2>1. IsState(new) /\ new.pc = "create" /\ new.ino = st[c].ino /\ new.out = st[c].out /\ new.flag = st[c].flag
    BY <2>f, <1>s, <1>0 DEF IsState, Fields
  <2> HIDE DEF new
  <2> QED
    BY <1>1, <2>1, <2>2
<1>4. ASSUME NEW A, NEW k, NEW w, Set(c, [st[c] EXCEPT !.sel = A, !.fail = Failing(c, k, w)]) PROVE Moves(c)
  <2>f. PICK f : f = Failing(c, k, w)
    OBVIOUS
  <2>1. [st[c] EXCEPT !.sel = A, !.fail = f] = [st[c] EXCEPT !.sel = A, !.fail = f, !.got = st[c].got, !.ses = st[c].ses]
    BY <1>s DEF IsState, Fields
  <2>2. Set(c, [st[c] EXCEPT !.sel = A, !.fail = Failing(c, k, w), !.got = st[c].got, !.ses = st[c].ses])
    BY <1>4, <2>f, <2>1
  <2> QED
    BY <1>3, <2>2
<1>5. ASSUME NEW A, NEW k, NEW w, Set(c, [st[c] EXCEPT !.sel = A, !.fail = Failing(c, k, w), !.hurt = TRUE]) PROVE Moves(c)
  <2> DEFINE f == Failing(c, k, w)
             new == [st[c] EXCEPT !.sel = A, !.fail = f, !.hurt = TRUE]
  <2>f. f = [m \in Nodes |-> f[m]]
    BY <1>f
  <2>2. Set(c, new)
    BY <1>5
  <2> HIDE DEF f
  <2>1. IsState(new) /\ new.pc = "create" /\ new.ino = st[c].ino /\ new.out = st[c].out /\ new.flag = st[c].flag
    BY <2>f, <1>s, <1>0 DEF IsState, Fields
  <2> HIDE DEF new
  <2> QED
    BY <1>1, <2>1, <2>2
<1>6. ASSUME NEW k, NEW w, NEW G, Set(c, [st[c] EXCEPT !.got = G, !.fail = Failing(c, k, w)]) PROVE Moves(c)
  <2> DEFINE f == Failing(c, k, w)
             new == [st[c] EXCEPT !.got = G, !.fail = f]
  <2>f. f = [m \in Nodes |-> f[m]]
    BY <1>f
  <2>2. Set(c, new)
    BY <1>6
  <2> HIDE DEF f
  <2>1. IsState(new) /\ new.pc = "create" /\ new.ino = st[c].ino /\ new.out = st[c].out /\ new.flag = st[c].flag
    BY <2>f, <1>s, <1>0 DEF IsState, Fields
  <2> HIDE DEF new
  <2> QED
    BY <1>1, <2>1, <2>2
<1>7. ASSUME NEW k, NEW w, NEW G, NEW S, Set(c, [st[c] EXCEPT !.got = G, !.ses = S, !.fail = Failing(c, k, w)])
      PROVE  Moves(c)
  <2> DEFINE f == Failing(c, k, w)
             new == [st[c] EXCEPT !.got = G, !.ses = S, !.fail = f]
  <2>f. f = [m \in Nodes |-> f[m]]
    BY <1>f
  <2>2. Set(c, new)
    BY <1>7
  <2> HIDE DEF f
  <2>1. IsState(new) /\ new.pc = "create" /\ new.ino = st[c].ino /\ new.out = st[c].out /\ new.flag = st[c].flag
    BY <2>f, <1>s, <1>0 DEF IsState, Fields
  <2> HIDE DEF new
  <2> QED
    BY <1>1, <2>1, <2>2
<1>8. CASE Create(c, n)
  <2>1. \/ \E r1 : Set(c, [st[c] EXCEPT !.sel = @ \ {n}, !.fail = Failing(c, n, "none"),
                                  !.got = IF Service(c) THEN @ \union {r1} ELSE @,
                                  !.ses = IF Service(c) THEN @ ELSE @ \union {r1}])
        \/ Set(c, [st[c] EXCEPT !.sel = @ \ {n}, !.fail = Failing(c, n, "transient"), !.hurt = TRUE])
        \/ \E w : Set(c, [st[c] EXCEPT !.sel = @ \ {n}, !.fail = Failing(c, n, w)])
    BY <1>8 DEF Create
  <2> QED
    BY <2>1, <1>3, <1>4, <1>5
<1>9. CASE Attach(c, r)
  <2>1. \/ Set(c, [st[c] EXCEPT !.got = @ \ {r}, !.ses = @ \union {r}, !.fail = Failing(c, r.node, "none")])
        \/ \E w : Set(c, [st[c] EXCEPT !.got = @ \ {r}, !.fail = Failing(c, r.node, w)])
    BY <1>9 DEF Attach
  <2> QED
    BY <2>1, <1>6, <1>7
<1>10. CASE Fallback(c, n) \/ Rediscover(c)
  <2>1. \E S : Set(c, [st[c] EXCEPT !.sel = S, !.tried = @ \union S])
    BY <1>10 DEF Fallback, Rediscover
  <2> QED
    BY <2>1, <1>2
<1> QED
  BY <1>8, <1>9, <1>10

\* The call goes on to a session, or to a new deployment after the old one.
LEMMA GoesOnMoves ==
  ASSUME Shape, Lasting, NEW c \in Clients, Reused(c) \/ Ended(c) \/ Verdict(c)
  PROVE  Moves(c)
<1>s. IsState(st[c])
  BY DEF Shape
<1>0. st[c].pc \in Holding /\ UNCHANGED <<plan, path>>
  BY DEF Reused, Ended, Verdict, Asked, At, Holding
<1>1. ASSUME Set(c, [st[c] EXCEPT !.pc = "open"]), Service(c) => data' = Persisted(c, st[c].ses) PROVE Moves(c)
  <2> DEFINE new == [st[c] EXCEPT !.pc = "open"]
  <2>1. Set(c, new)
    BY <1>1
  <2>2. IsState(new) /\ new.pc = "open" /\ new.ino = st[c].ino /\ new.ses = st[c].ses
    BY <1>s DEF IsState, Fields
  <2> HIDE DEF new
  <2>3. Service(c) => \E S : data' = Persisted(c, S) /\ new.ses \subseteq S
    <3>1. ASSUME Service(c) PROVE data' = Persisted(c, st[c].ses) /\ new.ses \subseteq st[c].ses
      BY <1>1, <2>2, <3>1
    <3> QED
      BY <3>1
  <2> QED
    BY <1>0, <2>1, <2>2, <2>3, WritesMoves
<1>2. ASSUME NEW pc \in {"unlink", "failed"}, Set(c, [st[c] EXCEPT !.ino = 0, !.pc = pc]) PROVE Moves(c)
  <2> DEFINE new == [st[c] EXCEPT !.ino = 0, !.pc = pc]
  <2>1. Set(c, new)
    BY <1>2
  <2>2. IsState(new) /\ new.pc = pc /\ new.ino = 0
    BY <1>s DEF IsState, Fields
  <2> HIDE DEF new
  <2>3. new.pc \in Early /\ new.pc # "idle"
    BY <2>2 DEF Early
  <2> QED
    BY <1>0, <2>1, <2>2, <2>3, QuietMoves
<1>3. CASE Reused(c)
  <2>1. CASE st[c].ses # {}
    BY <1>1, <1>3, <2>1 DEF Reused
  <2>2. CASE st[c].ses = {}
    <3> DEFINE pc == IF \E n \in Nodes : st[c].fail[n] = "stopped" THEN "unlink" ELSE "failed"
    <3>1. Set(c, [st[c] EXCEPT !.ino = 0, !.pc = pc])
      BY <1>3, <2>2 DEF Reused
    <3>2. pc \in {"unlink", "failed"}
      OBVIOUS
    <3> HIDE DEF pc
    <3> QED
      BY <1>2, <3>1, <3>2
  <2> QED
    BY <2>1, <2>2
<1>4. CASE Ended(c)
  <2>1. CASE st[c].fail = Fresh.fail
    <3> DEFINE new == [st[c] EXCEPT !.pc = "create"]
    <3>1. Set(c, new)
      BY <1>4, <2>1 DEF Ended
    <3>2. IsState(new) /\ new.pc = "create" /\ new.ino = st[c].ino
      BY <1>s DEF IsState, Fields
    <3> HIDE DEF new
    <3> QED
      BY <1>0, <3>1, <3>2, WritesMoves
  <2>2. CASE st[c].fail # Fresh.fail
    <3>1. Set(c, [st[c] EXCEPT !.pc = "failed", !.ino = 0])
      BY <1>4, <2>2 DEF Ended
    <3>2. [st[c] EXCEPT !.pc = "failed", !.ino = 0] = [st[c] EXCEPT !.ino = 0, !.pc = "failed"]
      BY <1>s DEF IsState, Fields
    <3> QED
      BY <1>2, <3>1, <3>2
  <2> QED
    BY <2>1, <2>2
<1>5. CASE Verdict(c)
  <2>1. CASE Set(c, [st[c] EXCEPT !.pc = "undo", !.out = "failed", !.todo = st[c].ses])
    <3> DEFINE new == [st[c] EXCEPT !.pc = "undo", !.out = "failed", !.todo = st[c].ses]
    <3>1. Set(c, new)
      BY <2>1
    <3>2. IsState(new) /\ new.pc = "undo" /\ new.out = "failed" /\ new.ino = st[c].ino /\ new.ses = st[c].ses
      BY <1>s DEF IsState, Fields
    <3> HIDE DEF new
    <3> QED
      BY <1>0, <3>1, <3>2, EndsMoves
  <2>2. CASE Set(c, [st[c] EXCEPT !.pc = "open"]) /\ data' = IF Service(c) THEN Persisted(c, st[c].ses) ELSE data
    BY <1>1, <2>2
  <2> QED
    BY <1>5, <2>1, <2>2 DEF Verdict
<1> QED
  BY <1>3, <1>4, <1>5

\* The session loses or gains a replica, and ends.
LEMMA SessionMoves ==
  ASSUME DeployInv, Lasting, NEW c \in Clients, NEW n, NEW r,
         Remove(c, r) \/ Compensate(c, n) \/ Shut(c) \/ Undone(c) \/ CloseHandle(c) \/ Delete(c)
  PROVE  Moves(c)
<1>s. IsState(st[c]) /\ Shape /\ CallOk(c, st[c], live)
  BY DEF DeployInv, Shape
<1>1. CASE Remove(c, r)
  <2> DEFINE S == st[c].ses \ {r}
             g == st[c].flag \/ S = {}
             new == [st[c] EXCEPT !.ses = S, !.flag = g]
  <2>0. st[c].pc \in {"create", "open"} /\ UNCHANGED <<plan, path>> /\ Set(c, new) /\ data' = Persisted(c, S)
    BY <1>1 DEF Remove
  <2> HIDE DEF S, g
  <2>1. IsState(new) /\ new.pc = st[c].pc /\ new.ino = st[c].ino /\ new.ses = S
    BY <1>s DEF IsState, Fields
  <2> HIDE DEF new
  <2> QED
    BY <2>0, <2>1, <1>s, WritesMoves DEF Holding
<1>2. CASE Compensate(c, n)
  <2>1. PICK q : Set(c, [st[c] EXCEPT !.ses = @ \union {q}]) /\ data' = Persisted(c, st[c].ses \union {q})
    BY <1>2 DEF Compensate
  <2> DEFINE S == st[c].ses \union {q}
             new == [st[c] EXCEPT !.ses = S]
  <2>0. st[c].pc = "open" /\ UNCHANGED <<plan, path>> /\ Set(c, new) /\ data' = Persisted(c, S)
    BY <1>2, <2>1 DEF Compensate, At
  <2> HIDE DEF S
  <2>2. IsState(new) /\ new.pc = st[c].pc /\ new.ino = st[c].ino /\ new.ses = S
    BY <1>s DEF IsState, Fields
  <2> HIDE DEF new
  <2> QED
    BY <2>0, <2>2, <1>s, WritesMoves DEF Holding
<1>3. CASE Shut(c)
  <2> DEFINE new == [st[c] EXCEPT !.pc = "undo", !.out = "closed", !.todo = st[c].ses]
  <2>0. st[c].pc = "open" /\ UNCHANGED <<plan, path, data>> /\ Set(c, new)
    BY <1>3 DEF Shut, At
  <2>1. IsState(new) /\ new.pc = "undo" /\ new.out = "closed" /\ new.ino = st[c].ino /\ new.ses = st[c].ses
        /\ new.flag = st[c].flag
    BY <1>s DEF IsState, Fields
  <2> HIDE DEF new
  <2>2. Closes(c) /\ st[c].pc \in Holding
    BY <2>0 DEF Closes, Holding
  <2> QED
    BY <2>0, <2>1, <2>2, <1>s, EndsMoves
<1>4. ASSUME NEW flag, NEW out, LetGo(c, flag, out), out \in {"failed", "closed"}, UNCHANGED <<plan, path>>,
             ~flag /\ out = "closed" => ~st[c].flag /\ Closes(c) /\ UNCHANGED data
      PROVE  Moves(c)
  <2> DEFINE pc == IF flag THEN "delete" ELSE out
             new == [st[c] EXCEPT !.ino = 0, !.flag = flag, !.out = out, !.pc = pc]
  <2>1. Set(c, new)
    BY <1>4 DEF LetGo
  <2>p. (pc = "delete" /\ flag) \/ (pc = out /\ ~flag)
    OBVIOUS
  <2> HIDE DEF pc
  <2>2. IsState(new) /\ new.pc = pc /\ new.ino = 0 /\ new.flag = flag /\ new.ses = st[c].ses /\ new.out = out
    BY <1>s DEF IsState, Fields
  <2> HIDE DEF new
  <2>3. new.pc \in {"delete", "closed", "failed"} /\ (new.pc = "delete" => new.flag)
    BY <1>4, <2>p, <2>2
  <2>4. ~new.flag /\ (new.pc = "closed" \/ (new.pc = "undo" /\ new.out = "closed")) =>
            ~st[c].flag /\ Closes(c) /\ UNCHANGED data
    BY <1>4, <2>p, <2>2
  <2> QED
    BY <1>s, <1>4, <2>1, <2>2, <2>3, <2>4, EndsMoves
<1>5. CASE Undone(c)
  <2> DEFINE clean == Service(c) /\ st[c].ses # {} /\ \A m \in Nodes : st[c].fail[m] # "end"
             g == st[c].flag \/ clean
  <2>1. st[c].pc = "undo" /\ UNCHANGED <<plan, path>> /\ LetGo(c, g, st[c].out) /\ (~clean => UNCHANGED data)
    BY <1>5 DEF Undone, At
  <2>2. ~g => ~st[c].flag /\ ~clean
    OBVIOUS
  <2> HIDE DEF clean, g
  <2>3. st[c].out \in {"failed", "closed"}
    BY <2>1, <1>s DEF CallOk, MadeOk
  <2>4. st[c].out = "closed" => Closes(c)
    BY <2>1 DEF Closes
  <2> QED
    BY <1>4, <2>1, <2>2, <2>3, <2>4
<1>6. CASE CloseHandle(c)
  <2>1. st[c].pc = "open" /\ UNCHANGED <<plan, path, data>> /\ LetGo(c, st[c].flag, "closed")
    BY <1>6 DEF CloseHandle, At
  <2>2. Closes(c)
    BY <2>1 DEF Closes
  <2> QED
    BY <1>4, <2>1, <2>2
<1>7. CASE Delete(c)
  <2> DEFINE new == [st[c] EXCEPT !.pc = st[c].out]
  <2>1. st[c].pc = "delete" /\ UNCHANGED plan /\ Set(c, new)
    BY <1>7 DEF Delete, At
  <2>2. IsState(new) /\ new.pc = st[c].out /\ new.ino = st[c].ino /\ new.flag = st[c].flag
    BY <1>s DEF IsState, Fields
  <2> HIDE DEF new
  <2>3. new.pc \in {"failed", "closed"}
    BY <2>1, <2>2, <1>s DEF CallOk, MadeOk
  <2>4. Goes(c, new)
    BY <2>1, <2>2, <1>s, SetGoes
  <2>5. st'[c].pc \in {"failed", "closed"} /\ st'[c].flag = st[c].flag /\ st'[c].ino = st[c].ino
        /\ \A d \in Clients : d # c => st'[d] = st[d]
    BY <2>2, <2>3, <2>4 DEF Goes, Over
  <2>6. Names(c) => Names(c)'
    BY <2>1, <2>5 DEF Names, Closes, Holding
  <2> QED
    BY <2>5, <2>6 DEF Moves
<1> QED
  BY <1>1, <1>2, <1>3, <1>5, <1>6, <1>7

-----------------------------------------------------------------------------
(* Who holds a lock, and what a closed handle leaves. *)

\* Two calls of one owner that hold a lock hold it in different processes, of
\* different files; the file of a call that is alone is right.
Apart ==
  \A c, d \in Clients : c # d /\ Mine(c) = Mine(d) /\ st[c].ino # 0 /\ st[d].ino # 0 =>
    plan[c].proc # plan[d].proc /\ st[c].ino # st[d].ino
Alone(c) == \A d \in Clients \ {c} : At(d, "idle")
FileRight == \A c \in Clients : Service(c) /\ Alone(c) => Names(c)
LockInv == DeployInv /\ Lasting /\ Apart /\ FileRight

\* Requests do not change, and paths and files stay paths and files.
LEMMA LastingStays ==
  ASSUME Lasting, NEW c \in Clients, Call(c) \/ Session(c), ~Acquire(c)
  PROVE  Lasting'
<1>1. UNCHANGED plan /\ (path' = path \/ path' = [path EXCEPT ![Mine(c)] = 0]) /\ (data' = data \/ \E d : data' = Written(c, d))
  <2>1. CASE Discover(c) \/ StaleRoutes(c) \/ Judge(c) \/ NoNodes(c) \/ LockTimeout(c) \/ Rediscover(c)
    BY <2>1 DEF Discover, StaleRoutes, Judge, NoNodes, LockTimeout, Rediscover
  <2>2. CASE Reused(c) \/ Ended(c) \/ Verdict(c) \/ Undone(c)
    BY <2>2 DEF Reused, Ended, Verdict, Undone, Persisted
  <2>3. CASE Unlink(c) \/ Delete(c)
    BY <2>3 DEF Unlink, Delete, Unlinked
  <2>4. CASE \E r \in Known : Inspect(c, r) \/ Reuse(c, r) \/ End(c, r) \/ Attach(c, r) \/ Undo(c, r)
    BY <2>4 DEF Inspect, Reuse, End, Attach, Undo
  <2>5. CASE \E n \in Nodes : Create(c, n) \/ Fallback(c, n)
    BY <2>5 DEF Create, Fallback
  <2>6. CASE Session(c)
    <3>1. CASE Shut(c) \/ CloseHandle(c)
      BY <3>1 DEF Shut, CloseHandle
    <3>2. CASE \E r \in Known : Remove(c, r)
      <4>1. UNCHANGED <<plan, path>> /\ \E S : data' = Persisted(c, S)
        BY <3>2 DEF Remove
      <4> QED
        BY <4>1 DEF Persisted
    <3>3. CASE \E n \in Nodes : Compensate(c, n)
      <4>1. UNCHANGED <<plan, path>> /\ \E S : data' = Persisted(c, S)
        BY <3>3 DEF Compensate
      <4> QED
        BY <4>1 DEF Persisted
    <3> QED
      BY <2>6, <3>1, <3>2, <3>3 DEF Session
  <2> QED
    BY <2>1, <2>2, <2>3, <2>4, <2>5, <2>6 DEF Call
<1>2. Asks' /\ Paths'
  BY <1>1, OwnerKnown DEF Lasting, Asks, Paths
<1>3. Files'
  <2>1. CASE data' = data
    BY <2>1 DEF Lasting, Files
  <2>2. CASE \E d : data' = Written(c, d)
    BY <2>2, WrittenFiles DEF Lasting
  <2> QED
    BY <1>1, <2>1, <2>2
<1> QED
  BY <1>2, <1>3 DEF Lasting

\* The step of a call.
LEMMA CallLocks ==
  ASSUME LockInv, NEW c \in Clients, Call(c) \/ Session(c)
  PROVE  Lasting' /\ Apart' /\ FileRight'
<1>s. DeployInv /\ Shape /\ Lasting /\ Apart /\ FileRight
  BY DEF LockInv, DeployInv
<1>p. UNCHANGED plan
  BY DEF Call, Session, Discover, StaleRoutes, Judge, NoNodes, Acquire, LockTimeout, Reused, Unlink, Ended,
         Rediscover, Verdict, Undone, Delete, Inspect, Reuse, End, Attach, Undo, Create, Fallback, Shut,
         CloseHandle, Remove, Compensate
<1>1. CASE Acquire(c)
  <2>1. /\ Lasting' /\ Names(c)' /\ st'[c].pc # "idle" /\ \A d \in Clients : d # c => st'[d] = st[d]
        /\ \A d \in Clients : d # c /\ Mine(d) = Mine(c) /\ st[d].ino # 0 =>
             plan[d].proc # plan[c].proc /\ st[d].ino # st'[c].ino
    BY <1>1, <1>s, AcquireTakes
  <2>2. Apart'
    BY <2>1, <1>s, <1>p DEF Apart, Mine
  <2>3. FileRight'
    BY <2>1 DEF FileRight, Alone, At
  <2> QED
    BY <2>1, <2>2, <2>3
<1>2. CASE ~Acquire(c)
  <2>1. Moves(c)
    <3>1. CASE Discover(c) \/ StaleRoutes(c) \/ Judge(c) \/ NoNodes(c) \/ LockTimeout(c) \/ Unlink(c)
      BY <3>1, <1>s, EarlyMoves
    <3>2. CASE Reused(c) \/ Ended(c) \/ Verdict(c)
      BY <3>2, <1>s, GoesOnMoves
    <3>3. CASE Undone(c) \/ Delete(c) \/ Session(c)
      BY <3>3, <1>s, SessionMoves DEF Session
    <3>4. CASE Rediscover(c)
      BY <3>4, <1>s, CreatingMoves
    <3>5. CASE \E r \in Known : Inspect(c, r) \/ Reuse(c, r) \/ End(c, r) \/ Attach(c, r) \/ Undo(c, r)
      BY <3>5, <1>s, CallsMove, CreatingMoves
    <3>6. CASE \E n \in Nodes : Create(c, n) \/ Fallback(c, n)
      BY <3>6, <1>s, CreatingMoves
    <3> QED
      BY <1>2, <3>1, <3>2, <3>3, <3>4, <3>5, <3>6 DEF Call
  <2>2. Lasting'
    BY <1>2, <1>s, LastingStays
  <2>3. \A d \in Clients : st'[d].ino = st[d].ino \/ st'[d].ino = 0
    BY <2>1 DEF Moves
  <2>4. Apart'
    <3> SUFFICES ASSUME NEW d \in Clients, NEW e \in Clients, d # e, Mine(d) = Mine(e), st'[d].ino # 0, st'[e].ino # 0
                 PROVE  plan[d].proc # plan[e].proc /\ st'[d].ino # st'[e].ino
      BY <1>p DEF Apart, Mine
    <3>1. st'[d].ino = st[d].ino /\ st'[e].ino = st[e].ino
      BY <2>3
    <3> QED
      BY <3>1, <1>s DEF Apart
  <2>5. FileRight'
    <3> SUFFICES ASSUME NEW d \in Clients, Service(d), Alone(d)' PROVE Names(d)'
      BY <1>p DEF FileRight, Service
    <3>1. d = c
      BY <2>1 DEF Moves, Alone, At
    <3>2. Alone(c)
      BY <2>1, <3>1 DEF Moves, Alone, At
    <3> QED
      BY <2>1, <3>1, <3>2, <1>s DEF Moves, FileRight
  <2> QED
    BY <2>2, <2>4, <2>5
<1> QED
  BY <1>1, <1>2

\* What else happens.
LEMMA ClusterLocks ==
  ASSUME LockInv, Cluster \/ UNCHANGED vars
  PROVE  Lasting' /\ Apart' /\ FileRight'
<1>s. DeployInv /\ Shape /\ Lasting /\ Apart /\ FileRight
  BY DEF LockInv, DeployInv
<1>1. CASE UNCHANGED <<plan, path, data, st>>
  <2>1. Lasting'
    BY <1>1, <1>s DEF Lasting, Asks, Paths, Files
  <2>2. Apart'
    BY <1>1, <1>s DEF Apart, Mine
  <2>3. FileRight'
    BY <1>1, <1>s DEF FileRight, Service, Alone, At, Names, Closes, File, Mine
  <2> QED
    BY <2>1, <2>2, <2>3
<1>2. ASSUME NEW p, Kill(p) PROVE Lasting' /\ Apart' /\ FileRight'
  <2>0. UNCHANGED <<plan, path, data>>
    BY <1>2 DEF Kill
  <2>1. ASSUME NEW c \in Clients
        PROVE  st'[c] = st[c] \/ (st[c].pc # "idle" /\ st'[c].pc = "dead" /\ st'[c].ino = 0)
    <3>1. \/ st'[c] = st[c]
          \/ st[c].pc # "idle" /\ st'[c] = Kept([st[c] EXCEPT !.pc = "dead"])
      BY <1>2 DEF Kill
    <3>2. CASE st[c].pc # "idle" /\ st'[c] = Kept([st[c] EXCEPT !.pc = "dead"])
      <4> DEFINE new == [st[c] EXCEPT !.pc = "dead"]
      <4>1. IsState(new) /\ new.pc = "dead"
        BY <1>s DEF Shape, IsState, Fields
      <4>2. st'[c] = Kept(new)
        BY <3>2
      <4> HIDE DEF new
      <4> QED
        BY <3>2, <4>1, <4>2, KeptIs DEF Over
    <3> QED
      BY <3>1, <3>2
  <2>2. Lasting'
    BY <2>0, <1>s DEF Lasting, Asks, Paths, Files
  <2>3. Apart'
    <3> SUFFICES ASSUME NEW d \in Clients, NEW e \in Clients, d # e, Mine(d) = Mine(e), st'[d].ino # 0, st'[e].ino # 0
                 PROVE  plan[d].proc # plan[e].proc /\ st'[d].ino # st'[e].ino
      BY <2>0 DEF Apart, Mine
    <3>1. st'[d] = st[d] /\ st'[e] = st[e]
      BY <2>1
    <3> QED
      BY <3>1, <1>s DEF Apart
  <2>4. FileRight'
    <3> SUFFICES ASSUME NEW d \in Clients, Service(d), Alone(d)' PROVE Names(d)'
      BY <2>0 DEF FileRight, Service
    <3>1. Alone(d)
      <4> SUFFICES ASSUME NEW e \in Clients \ {d} PROVE st[e].pc = "idle"
        BY DEF Alone, At
      <4>1. st'[e].pc = "idle"
        BY DEF Alone, At
      <4> QED
        BY <4>1, <2>1
    <3>2. Names(d)
      BY <3>1, <1>s DEF FileRight
    <3>3. CASE st'[d] = st[d]
      BY <3>2, <3>3, <2>0 DEF Names, Closes, File, Mine
    <3>4. CASE st'[d].pc = "dead"
      BY <3>4 DEF Names, Closes, Holding
    <3> QED
      BY <2>1, <3>3, <3>4
  <2> QED
    BY <2>2, <2>3, <2>4
<1>3. UNCHANGED <<plan, path, data, st>> \/ \E p : Kill(p)
  BY DEF Cluster, LeaseOut, HostDies, NodeDown, Unlist, Report, vars
<1> QED
  BY <1>1, <1>2, <1>3

\* In the beginning nobody has done anything.
LEMMA LockInitHolds == Init => LockInv
<1> SUFFICES ASSUME Init PROVE LockInv
  OBVIOUS
<1>1. DeployInv
  BY DeployInitHolds
<1>2. PICK s \in Scenarios :
        /\ plan = s.plan /\ st = [c \in Clients |-> Fresh]
        /\ path = [o \in Owners |-> IF o = "o1" /\ s.prior # {} THEN 1 ELSE 0]
  BY DEF Init
<1> DEFINE old(t) == {[id |-> 1, node |-> n, by |-> 0, owner |-> "o1", code |-> "c1", kind |-> "service"] : n \in t.prior}
<1>d. PICK t \in Scenarios : data = [o \in Owners |-> [i \in Inodes |->
                            IF o = "o1" /\ t.prior # {} /\ i = 1 THEN [code |-> "c1", on |-> old(t)] ELSE None]]
  BY DEF Init
<1> HIDE DEF old
<1>3. \A c \in Clients : st[c].pc = "idle" /\ st[c].ino = 0
  BY <1>2 DEF Fresh
<1>4. Asks /\ Files
  BY <1>2, <1>d DEF Asks, Files
<1>5. Paths
  BY <1>2, DeployAssumption DEF Paths
<1>6. Apart /\ FileRight
  BY <1>3 DEF Apart, FileRight, Names, Closes, Holding
<1> QED
  BY <1>1, <1>4, <1>5, <1>6 DEF LockInv, Lasting

\* Every step.
LEMMA LockStepHolds == LockInv /\ [Next]_vars => LockInv'
<1> SUFFICES ASSUME LockInv, [Next]_vars PROVE LockInv'
  OBVIOUS
<1>1. DeployInv'
  BY DeployStepHolds DEF LockInv
<1>2. Lasting' /\ Apart' /\ FileRight'
  BY CallLocks, ClusterLocks DEF Next
<1> QED
  BY <1>1, <1>2 DEF LockInv

\* Sessions of one owner that are alive at a time are in different processes and
\* hold locks of different files (_ServiceSessionFileLock.acquire).
THEOREM HoldersApart == Spec => []Apart
<1>1. LockInv => Apart
  BY DEF LockInv
<1> QED
  BY <1>1, LockInitHolds, LockStepHolds, PTL DEF Spec

\* So where an owner deploys from one process, one session at a time holds the file:
\* two calls never deploy and keep the same service at the same time.
THEOREM OneSessionHolds ==
  ASSUME \A s \in Scenarios : \A c, d \in Clients :
           s.plan[c].owner = s.plan[d].owner => s.plan[c].proc = s.plan[d].proc
  PROVE  Spec => []OneHolder
<1>1. LockInv => OneHolder
  <2> SUFFICES ASSUME LockInv, NEW c \in Clients, NEW d \in Clients, c # d, Mine(c) = Mine(d),
                      st[c].ino # 0, st[d].ino # 0
               PROVE  FALSE
    BY DEF OneHolder
  <2>1. plan[c].proc # plan[d].proc
    BY DEF LockInv, Apart
  <2>2. PICK s \in Scenarios : plan = s.plan
    BY DEF LockInv, Lasting, Asks
  <2> QED
    BY <2>1, <2>2 DEF Mine
<1> QED
  BY <1>1, LockInitHolds, LockStepHolds, PTL DEF Spec

\* A handle that was closed while its replicas run can be taken up again: the cache
\* file under the path names every replica of the session (Service.close,
\* _persist_session_cache).
THEOREM ClosedHandleRecovers == Spec => []HandleRecovers
<1>1. LockInv => HandleRecovers
  <2> SUFFICES ASSUME LockInv, NEW c \in Clients, st[c].pc = "closed", Service(c), ~st[c].flag, Alone(c)
               PROVE  st[c].ses \cap live \subseteq Contents(Mine(c)).on
    BY DEF HandleRecovers, Recoverable, Alone, At
  <2>1. Names(c)
    BY DEF LockInv, FileRight
  <2>2. path[Mine(c)] # 0 /\ st[c].ses \subseteq data[Mine(c)][path[Mine(c)]].on
    BY <2>1 DEF Names, Closes, File
  <2> QED
    BY <2>2 DEF Contents
<1> QED
  BY <1>1, LockInitHolds, LockStepHolds, PTL DEF Spec
=============================================================================
