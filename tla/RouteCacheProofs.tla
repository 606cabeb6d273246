-------------------------- MODULE RouteCacheProofs --------------------------
(***************************************************************************)
(* Proofs about RouteCache for every value of its constants: the count of  *)
(* calls in flight, the single probe of a half-open route, the rest of a   *)
(* route that cools down, and the order of snapshots.                      *)
(***************************************************************************)
EXTENDS RouteCache, FiniteSetTheorems, TLAPS

Breaker == [st : {"closed", "open", "half_open"}, cool : BOOLEAN, probe : BOOLEAN]

Refreshing == {"refresh", "apply", "finish", "wait", "woken"}
Trying == {"sent", "streaming", "untried", "giveup"}
CallPcs == {"idle", "rows", "check", "choose"} \cup Refreshing \cup Trying
Returns == {"idle", "choose", "untried"}

Call == [pc : CallPcs, rows : SUBSET Routes, ver : Nat, tried : SUBSET Routes,
         seen : SUBSET Routes, route : Routes \cup {"none"}, force : BOOLEAN,
         forcedOnce : BOOLEAN, user : BOOLEAN, moved : BOOLEAN,
         back : Returns \cup {"none"}]

\* A call that refreshes knows where it goes back to (the thread of the gateway,
\* which applies its own answer, needs not), and a call holds a route from its
\* choice until it ends or chooses again.
Holds(x) == x.pc \in Trying \/ (x.pc \in Refreshing /\ x.back = "untried")
CallSound(x) ==
  /\ x \in Call
  /\ x.pc \in Refreshing => IF Gateway /\ x.pc = "apply" THEN x.back = "none" ELSE x.back \in Returns
  /\ Holds(x) <=> x.route # "none"

TypeCache == /\ kind \in {"gateway", "discovery"}
             /\ offered \in [ver : Nat, set : SUBSET Routes]
             /\ snap \in [ver : Nat, set : SUBSET Routes, fresh : BOOLEAN]
             /\ owner \in Procs \cup {"none"} /\ upsets \in Nat
TypeRoutes == /\ brk \in [Routes -> Breaker] /\ count \in [Routes -> Nat]
              /\ probing \in [Routes -> SUBSET Calls] /\ left \in [Routes -> Nat]
TypeCalls == calls \in [Procs -> Call] /\ \A c \in Procs : CallSound(calls[c])

\* Types, and which calls hold a route.
TypeOK == TypeCache /\ TypeRoutes /\ TypeCalls

-----------------------------------------------------------------------------
(* The calls. *)

\* A step that replaces one call by a sound one.
LEMMA CallPut ==
  ASSUME TypeCalls, NEW c \in Procs, NEW e, CallSound(e), kind' = kind,
         calls' = [calls EXCEPT ![c] = e]
  PROVE  TypeCalls' /\ calls'[c] = e /\ \A d \in Procs \ {c} : calls'[d] = calls[d]
BY DEF TypeCalls, CallSound, Gateway, Holds

\* A call that has ended.
LEMMA NoCallSound == CallSound(NoCall) /\ NoCall.route = "none"
BY DEF CallSound, NoCall, Call, CallPcs, Refreshing, Trying, Returns, Holds

\* What a caller makes of the rows it gets, and of a refresh that fails: the
\* route it holds stays or there was none.
LEMMA RefreshSound ==
  ASSUME TypeOK, NEW c \in Procs, calls[c].pc \in Refreshing, Gateway => calls[c].pc # "apply",
         NEW rows \in SUBSET Routes
  PROVE  /\ CallSound(Got(c, rows)) /\ Got(c, rows).route = calls[c].route
         /\ CallSound(RefreshFails(c)) /\ RefreshFails(c).route = calls[c].route
<1> USE DEF TypeOK, TypeCalls
<1>1. CallSound(calls[c])
  OBVIOUS
<1>2. CallSound(Got(c, rows)) /\ Got(c, rows).route = calls[c].route
  BY <1>1 DEF Got, CallSound, Call, CallPcs, Refreshing, Trying, Returns, Holds
<1>3. CASE calls[c].back = "untried"
  BY <1>1, <1>2, <1>3, ZenonT(60) DEF RefreshFails, CallSound, Call, CallPcs, Refreshing, Trying, Returns, Holds
<1>4. CASE calls[c].back # "untried"
  <2>1. ~Holds(calls[c]) /\ RefreshFails(c) = NoCall
    BY <1>4 DEF RefreshFails, Refreshing, Trying, Holds
  <2> QED
    BY <1>1, <1>2, <2>1, NoCallSound DEF CallSound
<1> QED
  BY <1>3, <1>4

\* What a step does to the calls: no call takes or gives back a route, one call
\* takes a route it is sent to, or one gives its route back.
Keeps == \A d \in Procs : calls'[d].route = calls[d].route
Takes(c, r) == /\ calls[c].route = "none" /\ calls'[c].route = r
               /\ \A d \in Procs \ {c} : calls'[d] = calls[d]
Returned(c) == /\ calls[c].route \in Routes /\ calls'[c].route = "none"
               /\ \A d \in Procs \ {c} : calls'[d] = calls[d]

\* Every step of the refresh protocol keeps the calls sound and their routes.
LEMMA RefreshCalls ==
  ASSUME TypeOK, NEW c \in Procs,
         Refresh(c) \/ Apply(c) \/ AskFails(c) \/ Finish(c) \/ Woken(c) \/ WaitTimesOut(c)
  PROVE  TypeCalls' /\ Keeps
<1> USE DEF TypeOK, At, Goto
<1>0. CallSound(calls[c]) /\ calls \in [Procs -> Call] /\ TypeCalls
  BY DEF TypeCalls
<1>1. CASE Refresh(c)
  <2>1. CASE calls' = [calls EXCEPT ![c] = Got(c, snap.set)]
    <3>1. snap.set \in SUBSET Routes
      BY DEF TypeCache
    <3> QED
      BY <1>0, <1>1, <2>1, <3>1, RefreshSound, CallPut DEF Refresh, Refreshing, Keeps
  <2>2. CASE calls' = [calls EXCEPT ![c] = [calls[c] EXCEPT !.pc = "apply", !.rows = offered.set,
                                                            !.ver = offered.ver]]
    <3> DEFINE e == [calls[c] EXCEPT !.pc = "apply", !.rows = offered.set, !.ver = offered.ver]
    <3>1. CallSound(e) /\ e.route = calls[c].route
      BY <1>0, <1>1 DEF TypeCache, Refresh, CallSound, Call, CallPcs, Refreshing, Trying, Holds
    <3> QED
      BY <1>0, <1>1, <2>2, <3>1, CallPut DEF Refresh, Keeps
  <2>3. CASE calls' = [calls EXCEPT ![c] = [calls[c] EXCEPT !.pc = "wait", !.moved = FALSE]]
    <3> DEFINE e == [calls[c] EXCEPT !.pc = "wait", !.moved = FALSE]
    <3>1. CallSound(e) /\ e.route = calls[c].route
      BY <1>0, <1>1 DEF Refresh, CallSound, Call, CallPcs, Refreshing, Trying, Holds
    <3> QED
      BY <1>0, <1>1, <2>3, <3>1, CallPut DEF Refresh, Keeps
  <2> QED
    BY <1>1, <2>1, <2>2, <2>3 DEF Refresh
<1>2. CASE Apply(c)
  <2>1. ASSUME NEW d \in Procs
        PROVE  CallSound(calls'[d]) /\ calls'[d].route = calls[d].route
    BY <1>2, <1>0, ZenonT(60) DEF TypeCalls, Apply, CallSound, Call, CallPcs, Refreshing, Trying, Holds, Gateway
  <2>2. calls' \in [Procs -> Call]
    BY <1>2, <2>1 DEF Apply, CallSound
  <2> QED
    BY <1>2, <2>1, <2>2 DEF Apply, TypeCalls, Keeps, CallSound, Gateway
<1>3. CASE AskFails(c)
  <2> DEFINE e == [calls[c] EXCEPT !.pc = "finish"]
  <2>1. CallSound(e) /\ e.route = calls[c].route
    BY <1>0, <1>3 DEF AskFails, CallSound, Call, CallPcs, Refreshing, Trying, Holds
  <2>2. calls' = [calls EXCEPT ![c] = e]
    BY <1>3 DEF AskFails
  <2> QED
    BY <1>0, <1>3, <2>1, <2>2, CallPut DEF AskFails, Keeps
<1>4. CASE Finish(c)
  <2>1. CallSound(calls'[c]) /\ calls'[c].route = calls[c].route
    <3>1. calls[c].rows \in SUBSET Routes
      BY <1>0 DEF Call
    <3> QED
      BY <1>4, <3>1, RefreshSound DEF Finish, Refreshing
  <2>2. ASSUME NEW d \in Procs \ {c}
        PROVE  CallSound(calls'[d]) /\ calls'[d].route = calls[d].route
    <3>1. CallSound(calls[d]) /\ calls[d] \in Call
      BY DEF TypeCalls, CallSound
    <3>2. CASE calls[d].pc = "wait"
      <4>1. calls'[d] = [calls[d] EXCEPT !.pc = "woken"]
        BY <1>4, <3>2 DEF Finish
      <4> QED
        BY <3>1, <3>2, <4>1 DEF CallSound, Call, CallPcs, Refreshing, Trying, Holds
    <3>3. CASE calls[d].pc # "wait"
      BY <1>4, <3>1, <3>3 DEF Finish
    <3> QED
      BY <3>2, <3>3
  <2>3. calls' \in [Procs -> Call]
    BY <1>4, <2>1, <2>2 DEF Finish, CallSound
  <2> QED
    BY <1>4, <2>1, <2>2, <2>3 DEF Finish, TypeCalls, Keeps, CallSound, Gateway
<1>5. CASE Woken(c)
  <2>1. snap.set \in SUBSET Routes
    BY DEF TypeCache
  <2> QED
    BY <1>0, <1>5, <2>1, RefreshSound, CallPut, ZenonT(60) DEF Woken, Refreshing, Keeps
<1>6. CASE WaitTimesOut(c)
  <2>1. calls' = [calls EXCEPT ![c] = RefreshFails(c)] /\ kind' = kind
    BY <1>6 DEF WaitTimesOut
  <2> QED
    BY <1>0, <1>6, <2>1, RefreshSound, CallPut, ZenonT(60) DEF WaitTimesOut, Refreshing, Keeps
<1> QED
  BY <1>1, <1>2, <1>3, <1>4, <1>5, <1>6

\* The other steps that keep the routes: of the gateway's thread, the refreshing
\* thread, the selection and a call that goes on with the route it holds.
Quiet(c) == \/ Begin(c) \/ GatewayRows(c) \/ NoCandidate(c) \/ NoChoice(c) \/ LookAgain(c)
            \/ Streams(c) \/ (\E user \in BOOLEAN : ClientFails(c, user))
            \/ (\E r \in Routes : Check(c, r))

\* Steps of a call that neither take nor leave a route.
LEMMA QuietCalls ==
  ASSUME TypeOK, NEW c \in Calls, Quiet(c)
  PROVE  TypeCalls' /\ Keeps
<1> USE DEF TypeOK, At, Goto, Procs
<1>0. CallSound(calls[c]) /\ calls \in [Procs -> Call] /\ TypeCalls /\ c \in Procs
  BY DEF TypeCalls
<1>1. CASE Begin(c)
  <2> DEFINE e == [NoCall EXCEPT !.pc = IF Gateway THEN "rows" ELSE "refresh", !.back = "choose"]
  <2>1. CallSound(e) /\ e.route = "none" /\ calls[c].route = "none"
    BY <1>0, <1>1 DEF Begin, NoCall, CallSound, Call, CallPcs, Refreshing, Trying, Returns, Holds
  <2> QED
    BY <1>0, <1>1, <2>1, CallPut DEF Begin, Keeps
<1>2. CASE GatewayRows(c)
  <2> DEFINE e == [calls[c] EXCEPT !.rows = offered.set \ calls[c].tried, !.seen = {}, !.pc = "check"]
  <2>1. CallSound(e) /\ e.route = "none" /\ calls[c].route = "none"
    BY <1>0, <1>2 DEF GatewayRows, TypeCache, CallSound, Call, CallPcs, Refreshing, Trying, Returns, Holds
  <2> QED
    BY <1>0, <1>2, <2>1, CallPut, NoCallSound DEF GatewayRows, Keeps
<1>3. CASE NoCandidate(c) \/ NoChoice(c)
  <2>1. calls[c].route = "none" /\ calls' = [calls EXCEPT ![c] = NoCall] /\ kind' = kind
    BY <1>0, <1>3 DEF NoCandidate, NoChoice, CallSound, Refreshing, Trying, Holds
  <2> QED
    BY <1>0, <2>1, CallPut, NoCallSound DEF Keeps
<1>4. CASE LookAgain(c)
  <2> DEFINE e == [calls[c] EXCEPT !.pc = "refresh", !.back = "untried", !.rows = {},
                                   !.force = TRUE, !.forcedOnce = TRUE]
  <2>1. CallSound(e) /\ e.route = calls[c].route
    BY <1>0, <1>4 DEF LookAgain, CallSound, Call, CallPcs, Refreshing, Trying, Returns, Holds
  <2> QED
    BY <1>0, <1>4, <2>1, CallPut DEF LookAgain, Keeps
<1>5. CASE Streams(c)
  <2> DEFINE e == [calls[c] EXCEPT !.pc = "streaming"]
  <2>1. CallSound(e) /\ e.route = calls[c].route
    BY <1>0, <1>5 DEF Streams, CallSound, Call, CallPcs, Refreshing, Trying, Returns, Holds
  <2> QED
    BY <1>0, <1>5, <2>1, CallPut DEF Streams, Keeps
<1>6. ASSUME NEW user \in BOOLEAN, ClientFails(c, user)
      PROVE  TypeCalls' /\ Keeps
  <2> DEFINE e == [calls[c] EXCEPT !.pc = "refresh", !.back = "untried", !.user = user]
  <2>1. CallSound(e) /\ e.route = calls[c].route
    BY <1>0, <1>6 DEF ClientFails, CallSound, Call, CallPcs, Refreshing, Trying, Returns, Holds
  <2> QED
    BY <1>0, <1>6, <2>1, CallPut DEF ClientFails, Keeps
<1>7. ASSUME NEW r \in Routes, Check(c, r)
      PROVE  TypeCalls' /\ Keeps
  <2> DEFINE e == [calls[c] EXCEPT !.rows = calls[c].rows \ {r},
                                   !.seen = calls[c].seen \cup {x \in {r} : Admits(brk[x])}]
  <2>1. CallSound(e) /\ e.route = calls[c].route
    BY <1>0, <1>7 DEF Check, CallSound, Call, CallPcs, Refreshing, Trying, Returns, Holds
  <2>2. calls' = [calls EXCEPT ![c] = e] /\ kind' = kind
    BY <1>7 DEF Check
  <2> QED
    BY <1>0, <2>1, <2>2, CallPut DEF Keeps
<1> QED
  BY <1>1, <1>2, <1>3, <1>4, <1>5, <1>6, <1>7 DEF Quiet

\* The threads' own steps, time and the InfoCenter.
Background == \/ GatewayAsk \/ GatewayApply \/ LoopTurn \/ Change \/ Expire
              \/ (\E r \in Routes : CoolsDown(r))

\* Steps of the background, and their effect on the calls: none.
LEMMA BackgroundCalls ==
  ASSUME TypeOK, Background
  PROVE  TypeCalls' /\ Keeps
<1> USE DEF TypeOK, At, Procs
<1>0. CallSound(calls[Loop]) /\ calls \in [Procs -> Call] /\ TypeCalls /\ Loop \in Procs
  BY DEF TypeCalls
<1>1. CASE GatewayAsk
  <2> DEFINE e == [NoCall EXCEPT !.pc = "apply", !.rows = offered.set, !.ver = offered.ver]
  <2>1. CallSound(e) /\ e.route = "none" /\ calls[Loop].route = "none"
    BY <1>0, <1>1 DEF GatewayAsk, TypeCache, NoCall, CallSound, Call, CallPcs, Refreshing, Trying, Returns, Holds
  <2> QED
    BY <1>0, <1>1, <2>1, CallPut DEF GatewayAsk, Keeps
<1>2. CASE GatewayApply
  <2>1. calls' = [calls EXCEPT ![Loop] = NoCall] /\ kind' = kind
    BY <1>2 DEF GatewayApply
  <2>2. calls[Loop].route = "none"
    BY <1>0, <1>2 DEF GatewayApply, CallSound, Refreshing, Trying, Holds
  <2> QED
    BY <1>0, <2>1, <2>2, CallPut, NoCallSound DEF Keeps
<1>3. CASE LoopTurn
  <2> DEFINE e == [NoCall EXCEPT !.pc = "refresh", !.back = "idle"]
  <2>1. CallSound(e) /\ e.route = "none" /\ calls[Loop].route = "none"
    BY <1>0, <1>3 DEF LoopTurn, NoCall, CallSound, Call, CallPcs, Refreshing, Trying, Returns, Holds
  <2> QED
    BY <1>0, <1>3, <2>1, CallPut DEF LoopTurn, Keeps
<1>4. CASE Change \/ Expire \/ \E r \in Routes : CoolsDown(r)
  BY <1>4 DEF Change, Expire, CoolsDown, TypeCalls, CallSound, Gateway, Keeps
<1> QED
  BY <1>1, <1>2, <1>3, <1>4 DEF Background

\* A call that is sent takes its route.
LEMMA TakingCalls ==
  ASSUME TypeOK, NEW c \in Calls, NEW r \in Routes,
         GatewayPick(c, r) \/ \E scored \in BOOLEAN : Choose(c, r, scored)
  PROVE  TypeCalls' /\ Takes(c, r)
<1> USE DEF TypeOK, At, Procs
<1>0. CallSound(calls[c]) /\ calls \in [Procs -> Call] /\ TypeCalls /\ c \in Procs
  BY DEF TypeCalls
<1> DEFINE e == [calls[c] EXCEPT !.pc = "sent", !.route = r, !.rows = {}, !.seen = {},
                                 !.tried = calls[c].tried \cup {r}]
<1>1. calls' = [calls EXCEPT ![c] = e] /\ kind' = kind /\ calls[c].pc \in {"check", "choose"}
  <2>1. CASE GatewayPick(c, r)
    BY <2>1 DEF GatewayPick, Sent
  <2>2. CASE \E scored \in BOOLEAN : Choose(c, r, scored)
    BY <2>2 DEF Choose, Sent
  <2> QED
    BY <2>1, <2>2
<1>2. CallSound(e) /\ e.route = r /\ calls[c].route = "none"
  BY <1>0, <1>1, RouteAssumption DEF CallSound, Call, CallPcs, Refreshing, Trying, Returns, Holds
<1> QED
  BY <1>0, <1>1, <1>2, CallPut DEF Takes

\* A call that ends, or fails over, gives its route back.
Leaves(c) == \/ Succeeds(c) \/ UserError(c) \/ GatewayFails(c) \/ FailOver(c) \/ GiveUp(c)
             \/ StreamFails(c) \/ StreamLeft(c)

\* Steps by which a call leaves its route.
LEMMA ReturningCalls ==
  ASSUME TypeOK, NEW c \in Calls, Leaves(c)
  PROVE  TypeCalls' /\ Returned(c)
<1> USE DEF TypeOK, At, Procs
<1>0. CallSound(calls[c]) /\ calls \in [Procs -> Call] /\ TypeCalls /\ c \in Procs
  BY DEF TypeCalls
<1>1. kind' = kind /\ calls[c].pc \in Trying
  BY DEF Leaves, Succeeds, UserError, GatewayFails, FailOver, GiveUp, StreamFails, StreamLeft, Trying
<1>2. calls[c].route \in Routes
  BY <1>0, <1>1 DEF CallSound, Call, Holds
<1>3. CASE GatewayFails(c) \/ FailOver(c)
  <2> DEFINE e(to) == [calls[c] EXCEPT !.pc = to, !.route = "none", !.back = "choose", !.rows = {}]
  <2>1. PICK to \in {"rows", "refresh"} : calls' = [calls EXCEPT ![c] = e(to)]
    BY <1>3 DEF GatewayFails, FailOver, Again
  <2>2. CallSound(e(to)) /\ e(to).route = "none"
    BY <1>0 DEF CallSound, Call, CallPcs, Refreshing, Trying, Returns, Holds
  <2> QED
    BY <1>0, <1>1, <1>2, <2>1, <2>2, CallPut DEF Returned
<1>4. CASE ~(GatewayFails(c) \/ FailOver(c))
  <2>1. calls' = [calls EXCEPT ![c] = NoCall]
    BY <1>4 DEF Leaves, Succeeds, UserError, GiveUp, StreamFails, StreamLeft
  <2> QED
    BY <1>0, <1>1, <1>2, <2>1, CallPut, NoCallSound DEF Returned
<1> QED
  BY <1>3, <1>4

\* The steps of the cache, sorted by what they do to the calls.
LEMMA CallsStep ==
  ASSUME TypeOK, Next
  PROVE  /\ TypeCalls'
         /\ \/ Keeps
            \/ \E c \in Calls, r \in Routes :
                 Takes(c, r) /\ (GatewayPick(c, r) \/ \E scored \in BOOLEAN : Choose(c, r, scored))
            \/ \E c \in Calls : Returned(c) /\ Leaves(c)
<1>1. CASE Background
  BY <1>1, BackgroundCalls
<1>2. CASE \E c \in Procs : Refresh(c) \/ Apply(c) \/ AskFails(c) \/ Finish(c) \/ Woken(c) \/ WaitTimesOut(c)
  BY <1>2, RefreshCalls
<1>3. CASE \E c \in Calls : Quiet(c)
  BY <1>3, QuietCalls
<1>4. CASE \E c \in Calls : Leaves(c)
  BY <1>4, ReturningCalls
<1>5. CASE \E c \in Calls, r \in Routes : GatewayPick(c, r) \/ \E scored \in BOOLEAN : Choose(c, r, scored)
  BY <1>5, TakingCalls
<1> QED
  BY <1>1, <1>2, <1>3, <1>4, <1>5 DEF Next, Background, Quiet, Leaves

-----------------------------------------------------------------------------
(* The routes. *)

\* An aged breaker, and one that has let its probe through, are breakers.
LEMMA AgedFacts ==
  ASSUME NEW b \in Breaker
  PROVE  /\ Aged(b) \in Breaker /\ TakeProbe(b) \in Breaker
         /\ b.st # "open" \/ b.cool => Aged(b) = b
         /\ b.st = "open" /\ ~b.cool => Aged(b).st = "half_open" /\ ~Aged(b).probe /\ ~Aged(b).cool
         /\ TakeProbe(b).st = Aged(b).st /\ TakeProbe(b).cool = Aged(b).cool
         /\ Aged(b).st = "half_open" => TakeProbe(b).probe
         /\ Aged(b).st # "half_open" => TakeProbe(b).probe = Aged(b).probe
BY DEF Aged, TakeProbe, Breaker

\* What giving a route back does to the counts.
LEMMA ReleaseFacts ==
  ASSUME TypeRoutes, NEW r \in Routes, Release(r)
  PROVE  /\ count' \in [Routes -> Nat]
         /\ count'[r] = IF count[r] <= 1 THEN 0 ELSE count[r] - 1
         /\ \A s \in Routes \ {r} : count'[s] = count[s]
BY DEF TypeRoutes, Release

\* What forgetting routes does.
LEMMA DropFacts ==
  ASSUME TypeRoutes, NEW rows, Drop(rows)
  PROVE  /\ brk' \in [Routes -> Breaker] /\ count' \in [Routes -> Nat]
         /\ probing' \in [Routes -> SUBSET Calls]
         /\ \A r \in Routes : count'[r] <= count[r]
         /\ \A r \in Routes : \/ brk'[r] = brk[r] /\ probing'[r] = probing[r]
                              \/ brk'[r] = Closed /\ probing'[r] = {}
BY DEF TypeRoutes, Drop, Closed, Breaker

\* What marking a route does.
LEMMA MarkFacts ==
  ASSUME TypeRoutes, NEW r \in Routes, NEW b \in Breaker, Mark(r, b)
  PROVE  /\ brk' \in [Routes -> Breaker] /\ probing' \in [Routes -> SUBSET Calls]
         /\ brk'[r] = b /\ probing'[r] = {}
         /\ \A s \in Routes \ {r} : brk'[s] = brk[s] /\ probing'[s] = probing[s]
BY DEF TypeRoutes, Mark

\* What a call does to the routes when it leaves one.
LEMMA LeavesRoutes ==
  ASSUME TypeOK, NEW c \in Calls, Leaves(c), Returned(c)
  PROVE  /\ brk' \in [Routes -> Breaker] /\ probing' \in [Routes -> SUBSET Calls]
         /\ \A s \in Routes : \/ brk'[s] = brk[s] /\ probing'[s] = probing[s]
                              \/ brk'[s] \in {Closed, Opened} /\ probing'[s] = {}
         /\ \/ left' = left /\ Release(calls[c].route)
            \/ count' = count /\ left' = [left EXCEPT ![calls[c].route] = @ + 1]
<1> USE DEF TypeOK, Returned
<1>1. CASE Succeeds(c) \/ GatewayFails(c) \/ FailOver(c) \/ StreamFails(c)
  <2>1. PICK b \in {Closed, Opened} : Mark(calls[c].route, b)
    BY <1>1 DEF Succeeds, GatewayFails, FailOver, StreamFails
  <2>2. Closed \in Breaker /\ Opened \in Breaker
    BY DEF Closed, Opened, Breaker
  <2>3. left' = left /\ Release(calls[c].route)
    BY <1>1 DEF Succeeds, GatewayFails, FailOver, StreamFails
  <2> QED
    BY <2>1, <2>2, <2>3, MarkFacts
<1>2. CASE UserError(c) \/ GiveUp(c) \/ StreamLeft(c)
  BY <1>2 DEF UserError, GiveUp, StreamLeft, TypeRoutes
<1> QED
  BY <1>1, <1>2 DEF Leaves

\* What a call does to the routes when it takes one.
LEMMA TakesRoutes ==
  ASSUME TypeOK, NEW c \in Calls, NEW r \in Routes,
         GatewayPick(c, r) \/ \E scored \in BOOLEAN : Choose(c, r, scored)
  PROVE  /\ Reserve(r) /\ left' = left
         /\ brk' \in [Routes -> Breaker] /\ probing' \in [Routes -> SUBSET Calls]
         /\ \A s \in Routes : brk'[s] \in {brk[s], Aged(brk[s]), TakeProbe(brk[s])}
         /\ \A s \in Routes \ {r} : probing'[s] = probing[s]
         /\ ~Gateway => /\ \A s \in Routes \ {r} : brk'[s] \in {brk[s], Aged(brk[s])}
                        /\ Admits(brk[r])
                        /\ \/ brk'[r] = TakeProbe(brk[r]) /\ Probes(c, r, brk[r])
                           \/ brk'[r] = Aged(brk[r]) /\ probing' = probing
<1> USE DEF TypeOK, TypeRoutes
<1>0. \A s \in Routes : brk[s] \in Breaker /\ Aged(brk[s]) \in Breaker /\ TakeProbe(brk[s]) \in Breaker
  BY AgedFacts
<1>1. CASE GatewayPick(c, r)
  <2>0. Gateway /\ Reserve(r) /\ left' = left
    BY <1>1 DEF GatewayPick
  <2>1. Probes(c, r, brk[r])
    BY <1>1 DEF GatewayPick
  <2>2. CASE brk' = [brk EXCEPT ![r] = TakeProbe(brk[r])]
    <3>1. brk'[r] = TakeProbe(brk[r]) /\ \A s \in Routes \ {r} : brk'[s] = brk[s]
      BY <2>2
    <3>2. brk' \in [Routes -> Breaker]
      BY <1>0, <2>2
    <3>3. \A s \in Routes : brk'[s] \in {brk[s], Aged(brk[s]), TakeProbe(brk[s])}
      BY <3>1
    <3>4. probing' \in [Routes -> SUBSET Calls] /\ \A s \in Routes \ {r} : probing'[s] = probing[s]
      BY <2>1 DEF Probes
    <3> QED
      BY <2>0, <3>2, <3>3, <3>4
  <2>3. ASSUME NEW best, brk' = [brk EXCEPT ![best] = Aged(brk[best])]
        PROVE  brk' \in [Routes -> Breaker] /\ \A s \in Routes : brk'[s] \in {brk[s], Aged(brk[s])}
    BY <1>0, <2>3
  <2>4. \/ brk' = [brk EXCEPT ![r] = TakeProbe(brk[r])]
        \/ \E best \in calls[c].seen : brk' = [brk EXCEPT ![best] = Aged(brk[best])]
    BY <1>1 DEF GatewayPick
  <2>5. probing' \in [Routes -> SUBSET Calls] /\ \A s \in Routes \ {r} : probing'[s] = probing[s]
    BY <2>1 DEF Probes
  <2> QED
    BY <2>0, <2>2, <2>3, <2>4, <2>5
<1>2. ASSUME NEW scored \in BOOLEAN, Choose(c, r, scored)
      PROVE  /\ Reserve(r) /\ left' = left
             /\ brk' \in [Routes -> Breaker] /\ probing' \in [Routes -> SUBSET Calls]
             /\ \A s \in Routes : brk'[s] \in {brk[s], Aged(brk[s]), TakeProbe(brk[s])}
             /\ \A s \in Routes \ {r} : probing'[s] = probing[s]
             /\ \A s \in Routes \ {r} : brk'[s] \in {brk[s], Aged(brk[s])}
             /\ Admits(brk[r])
             /\ \/ brk'[r] = TakeProbe(brk[r]) /\ Probes(c, r, brk[r])
                \/ brk'[r] = Aged(brk[r]) /\ probing' = probing
  <2> DEFINE rows == calls[c].rows \ calls[c].tried
  <2>1. Reserve(r) /\ left' = left /\ Admits(brk[r]) /\ r \in rows
    BY <1>2 DEF Choose, OpenTo
  <2>2. CASE scored
    <3>1. brk' = [AgedAll(rows) EXCEPT ![r] = TakeProbe(brk[r])] /\ Probes(c, r, brk[r])
      BY <1>2, <2>2 DEF Choose
    <3> QED
      BY <1>0, <2>1, <3>1 DEF AgedAll, Probes
  <2>3. CASE ~scored
    <3>1. brk' = AgedAll(rows) /\ probing' = probing
      BY <1>2, <2>3 DEF Choose
    <3> QED
      BY <1>0, <2>1, <3>1 DEF AgedAll
  <2> QED
    BY <2>2, <2>3
<1> QED
  BY <1>1, <1>2

\* What the other steps do to the routes.
LEMMA QuietRoutes ==
  ASSUME TypeOK, Next, ~\E c \in Calls : Leaves(c),
         ~\E c \in Calls, r \in Routes : GatewayPick(c, r) \/ \E scored \in BOOLEAN : Choose(c, r, scored)
  PROVE  /\ count' \in [Routes -> Nat] /\ left' = left /\ \A s \in Routes : count'[s] <= count[s]
         /\ brk' \in [Routes -> Breaker] /\ probing' \in [Routes -> SUBSET Calls]
         /\ \A s \in Routes :
              \/ probing'[s] = probing[s] /\ \/ brk'[s] \in {brk[s], Aged(brk[s])}
                                             \/ brk'[s] = [brk[s] EXCEPT !.cool = FALSE]
              \/ probing'[s] = {} /\ brk'[s] = Closed
<1> USE DEF TypeOK
<1>0. \A s \in Routes : brk[s] \in Breaker /\ Aged(brk[s]) \in Breaker
  BY AgedFacts DEF TypeRoutes
<1>1. CASE GatewayApply \/ \E c \in Procs : Apply(c)
  <2>1. PICK rows : Drop(rows)
    BY <1>1 DEF GatewayApply, Apply
  <2>2. left' = left
    BY <1>1 DEF GatewayApply, Apply
  <2> QED
    BY <2>1, <2>2, DropFacts
<1>2. CASE \E r \in Routes : CoolsDown(r)
  <2>1. PICK r \in Routes : brk' = [brk EXCEPT ![r].cool = FALSE] /\ UNCHANGED <<count, probing, left>>
    BY <1>2 DEF CoolsDown
  <2>2. [brk[r] EXCEPT !.cool = FALSE] \in Breaker
    BY <1>0 DEF Breaker
  <2> QED
    <3>1. brk'[r] = [brk[r] EXCEPT !.cool = FALSE] /\ \A s \in Routes \ {r} : brk'[s] = brk[s]
      BY <2>1 DEF TypeRoutes
    <3>2. brk' \in [Routes -> Breaker]
      BY <2>1, <2>2, <3>1 DEF TypeRoutes
    <3>3. ASSUME NEW s \in Routes
          PROVE  /\ probing'[s] = probing[s]
                 /\ \/ brk'[s] \in {brk[s], Aged(brk[s])}
                    \/ brk'[s] = [brk[s] EXCEPT !.cool = FALSE]
      <4>1. CASE s = r
        BY <2>1, <3>1, <4>1
      <4>2. CASE s # r
        BY <2>1, <3>1, <4>2
      <4> QED
        BY <4>1, <4>2
    <3> QED
      BY <2>1, <3>2, <3>3 DEF TypeRoutes
<1>3. CASE \E c \in Calls, r \in Routes : Check(c, r)
  BY <1>0, <1>3 DEF Check, TypeRoutes
<1>4. CASE \E c \in Calls : NoChoice(c)
  <2>1. PICK rows : brk' = AgedAll(rows) /\ UNCHANGED <<count, probing, left>>
    BY <1>4 DEF NoChoice
  <2> QED
    BY <1>0, <2>1 DEF AgedAll, TypeRoutes
<1>5. CASE UNCHANGED <<brk, count, probing, left>>
  BY <1>5 DEF TypeRoutes
<1>6. CASE \E c \in Procs : Refresh(c) \/ AskFails(c) \/ Finish(c) \/ Woken(c) \/ WaitTimesOut(c)
  BY <1>5, <1>6 DEF Refresh, AskFails, Finish, Woken, WaitTimesOut
<1>7. CASE GatewayAsk \/ LoopTurn \/ Change \/ Expire
  BY <1>5, <1>7 DEF GatewayAsk, LoopTurn, Change, Expire
<1>8. CASE \E c \in Calls : \/ Begin(c) \/ GatewayRows(c) \/ NoCandidate(c) \/ LookAgain(c) \/ Streams(c)
                            \/ \E user \in BOOLEAN : ClientFails(c, user)
  BY <1>5, <1>8 DEF Begin, GatewayRows, NoCandidate, LookAgain, Streams, ClientFails
<1> QED
  BY <1>1, <1>2, <1>3, <1>4, <1>6, <1>7, <1>8 DEF Next, Leaves

-----------------------------------------------------------------------------
(* Types. *)

\* The variables of the cache stay typed.
LEMMA CacheStep ==
  ASSUME TypeOK, Next
  PROVE  TypeCache'
<1> USE DEF TypeOK, TypeCache, Procs
<1>0. \A c \in Procs : calls[c].ver \in Nat /\ calls[c].rows \in SUBSET Routes
  BY DEF TypeCalls, Call
<1>1. CASE GatewayApply \/ \E c \in Procs : Apply(c)
  <2>1. PICK c \in Procs : \/ snap' = [ver |-> calls[c].ver, set |-> calls[c].rows, fresh |-> TRUE]
                           \/ snap' = snap
    BY <1>1 DEF GatewayApply, Apply
  <2>2. snap' \in [ver : Nat, set : SUBSET Routes, fresh : BOOLEAN]
    <3>1. CASE snap' = snap
      BY <3>1
    <3>2. CASE snap' = [ver |-> calls[c].ver, set |-> calls[c].rows, fresh |-> TRUE]
      <4>1. calls[c].ver \in Nat /\ calls[c].rows \in SUBSET Routes
        BY <1>0, <2>1
      <4> QED
        BY <3>2, <4>1
    <3> QED
      BY <2>1, <3>1, <3>2
  <2>3. UNCHANGED <<kind, offered, owner, upsets>>
    BY <1>1 DEF GatewayApply, Apply
  <2> QED
    BY <2>2, <2>3
<1>2. CASE Change \/ Expire \/ (\E r \in Routes : CoolsDown(r)) \/ \E c \in Calls : StreamLeft(c)
  <2>1. upsets' \in Nat
    BY <1>2 DEF Change, Expire, CoolsDown, StreamLeft, Upset
  <2>2. offered' \in [ver : Nat, set : SUBSET Routes]
    BY <1>2 DEF Change, Expire, CoolsDown, StreamLeft
  <2>3. snap' \in [ver : Nat, set : SUBSET Routes, fresh : BOOLEAN]
    BY <1>2 DEF Change, Expire, CoolsDown, StreamLeft
  <2> QED
    BY <1>2, <2>1, <2>2, <2>3 DEF Change, Expire, CoolsDown, StreamLeft
<1>3. CASE \E c \in Procs : Refresh(c) \/ AskFails(c) \/ Finish(c) \/ Woken(c) \/ WaitTimesOut(c)
  BY <1>3 DEF Refresh, AskFails, Finish, Woken, WaitTimesOut
<1>4. CASE GatewayAsk \/ LoopTurn \/ \E c \in Calls : Quiet(c)
  BY <1>4 DEF GatewayAsk, LoopTurn, Quiet, Begin, GatewayRows, NoCandidate, NoChoice, LookAgain,
     Streams, ClientFails, Check
<1>5. CASE \E c \in Calls : Leaves(c) /\ ~StreamLeft(c)
  BY <1>5 DEF Leaves, Succeeds, UserError, GatewayFails, FailOver, GiveUp, StreamFails
<1>6. CASE \E c \in Calls, r \in Routes : GatewayPick(c, r) \/ \E scored \in BOOLEAN : Choose(c, r, scored)
  BY <1>6 DEF GatewayPick, Choose
<1> QED
  BY <1>1, <1>2, <1>3, <1>4, <1>5, <1>6 DEF Next, Quiet, Leaves

\* Every step keeps the types.
LEMMA TypeStep ==
  ASSUME TypeOK, Next
  PROVE  TypeOK'
<1>1. TypeCache' /\ TypeCalls'
  BY CacheStep, CallsStep
<1>2. TypeRoutes'
  <2>1. CASE \E c \in Calls : Leaves(c)
    <3>1. PICK c \in Calls : Leaves(c)
      BY <2>1
    <3>2. Returned(c)
      BY <3>1, ReturningCalls
    <3>3. CASE left' = left /\ Release(calls[c].route)
      BY <3>1, <3>2, <3>3, LeavesRoutes, ReleaseFacts DEF TypeOK, TypeRoutes, Returned
    <3>4. CASE count' = count /\ left' = [left EXCEPT ![calls[c].route] = @ + 1]
      BY <3>1, <3>2, <3>4, LeavesRoutes DEF TypeOK, TypeRoutes, Returned
    <3> QED
      BY <3>1, <3>2, <3>3, <3>4, LeavesRoutes
  <2>2. CASE \E c \in Calls, r \in Routes : GatewayPick(c, r) \/ \E scored \in BOOLEAN : Choose(c, r, scored)
    <3>1. PICK c \in Calls, r \in Routes : GatewayPick(c, r) \/ \E scored \in BOOLEAN : Choose(c, r, scored)
      BY <2>2
    <3> QED
      BY <3>1, TakesRoutes DEF TypeOK, TypeRoutes, Reserve
  <2>3. CASE /\ ~\E c \in Calls : Leaves(c)
             /\ ~\E c \in Calls, r \in Routes : GatewayPick(c, r) \/ \E scored \in BOOLEAN : Choose(c, r, scored)
    BY <2>3, QuietRoutes DEF TypeOK, TypeRoutes
  <2> QED
    BY <2>1, <2>2, <2>3
<1> QED
  BY <1>1, <1>2 DEF TypeOK

\* Stuttering keeps the types.
LEMMA TypeStutters ==
  ASSUME TypeOK, UNCHANGED vars
  PROVE  TypeOK'
BY DEF vars, TypeOK, TypeCache, TypeRoutes, TypeCalls, CallSound, Gateway, Holds

\* The types hold at the start.
LEMMA TypeInit == Init => TypeOK
<1> SUFFICES ASSUME Init PROVE TypeOK
  OBVIOUS
<1>1. TypeCache /\ TypeRoutes
  BY RouteAssumption DEF Init, TypeCache, TypeRoutes, Closed, Breaker
<1>2. TypeCalls
  BY NoCallSound DEF Init, TypeCalls, CallSound
<1> QED
  BY <1>1, <1>2 DEF TypeOK

\* The variables of the caches have their types, and a call holds a route from
\* the section that sends it until the one that ends it (call of discovery_client.py).
THEOREM TypeCorrect == Spec => []TypeOK
<1>1. TypeOK /\ [Next]_vars => TypeOK'
  BY TypeStep, TypeStutters
<1> QED
  BY <1>1, TypeInit, PTL DEF Spec

-----------------------------------------------------------------------------
(* The count of calls in flight. *)

\* The calls that hold a route are finitely many.
LEMMA HoldingFinite == \A r \in Routes : IsFiniteSet(Holding(r)) /\ Cardinality(Holding(r)) \in Nat
<1> TAKE r \in Routes
<1>1. Holding(r) \subseteq Calls
  BY DEF Holding
<1> QED
  BY <1>1, RouteAssumption, FS_Subset, FS_CardinalityType

\* Every step keeps the bound of the counts.
LEMMA CountStep ==
  ASSUME TypeOK, CountBounded, Next
  PROVE  CountBounded'
<1> USE DEF TypeOK, TypeRoutes
<1>0. TypeOK' /\ \A s \in Routes : Cardinality(Holding(s)) \in Nat
  BY TypeStep, HoldingFinite
<1>1. CASE \E c \in Calls : Leaves(c)
  <2>1. PICK c \in Calls : Leaves(c)
    BY <1>1
  <2>2. Returned(c)
    BY <2>1, ReturningCalls
  <2>3. PICK r \in Routes : r = calls[c].route
    BY <2>2 DEF Returned
  <2>4. \A s \in Routes : Holding(s)' = Holding(s) \ {c}
    BY <2>2, RouteAssumption DEF Returned, Holding, Procs
  <2>5. c \in Holding(r) /\ \A s \in Routes \ {r} : Holding(s)' = Holding(s)
    BY <2>2, <2>3, <2>4 DEF Returned, Holding
  <2>6. Cardinality(Holding(r)') = Cardinality(Holding(r)) - 1 /\ Cardinality(Holding(r)) # 0
    BY <2>3, <2>4, <2>5, HoldingFinite, FS_RemoveElement, FS_EmptySet
  <2>7. ASSUME NEW s \in Routes \ {r}
        PROVE  count'[s] <= Cardinality(Holding(s)') + left'[s]
    <3>1. count'[s] = count[s] /\ left'[s] = left[s]
      BY <2>1, <2>2, <2>3, LeavesRoutes, ReleaseFacts
    <3> QED
      BY <2>5, <3>1 DEF CountBounded
  <2>8. count'[r] <= Cardinality(Holding(r)') + left'[r]
    <3>1. count[r] <= Cardinality(Holding(r)) + left[r] /\ count[r] \in Nat /\ left[r] \in Nat
      BY <2>3 DEF CountBounded
    <3>2. CASE left' = left /\ Release(r)
      <4>1. count'[r] = IF count[r] <= 1 THEN 0 ELSE count[r] - 1
        BY <2>3, <3>2, ReleaseFacts
      <4>2. Cardinality(Holding(r)) \in Nat
        BY <1>0, <2>3
      <4> QED
        BY <2>6, <3>1, <3>2, <4>1, <4>2
    <3>3. CASE count' = count /\ left' = [left EXCEPT ![r] = @ + 1]
      <4>1. left'[r] = left[r] + 1
        BY <2>3, <3>3
      <4>2. Cardinality(Holding(r)) \in Nat
        BY <1>0, <2>3
      <4> QED
        BY <2>6, <3>1, <3>3, <4>1, <4>2
    <3> QED
      BY <2>1, <2>2, <2>3, <3>2, <3>3, LeavesRoutes
  <2>9. \A s \in Routes : count'[s] <= Cardinality(Holding(s)') + left'[s]
    BY <2>3, <2>7, <2>8
  <2> QED
    BY <2>9 DEF CountBounded
<1>2. CASE \E c \in Calls, r \in Routes : GatewayPick(c, r) \/ \E scored \in BOOLEAN : Choose(c, r, scored)
  <2>1. PICK c \in Calls, r \in Routes : GatewayPick(c, r) \/ \E scored \in BOOLEAN : Choose(c, r, scored)
    BY <1>2
  <2>2. Takes(c, r) /\ Reserve(r) /\ left' = left
    BY <2>1, TakingCalls, TakesRoutes
  <2>3. Holding(r)' = Holding(r) \cup {c} /\ c \notin Holding(r)
    BY <2>2, RouteAssumption DEF Takes, Holding, Procs
  <2>4. \A s \in Routes \ {r} : Holding(s)' = Holding(s)
    BY <2>2, RouteAssumption DEF Takes, Holding, Procs
  <2>5. Cardinality(Holding(r)') = Cardinality(Holding(r)) + 1
    BY <2>3, HoldingFinite, FS_AddElement
  <2>6. count'[r] = count[r] + 1 /\ \A s \in Routes \ {r} : count'[s] = count[s]
    BY <2>2 DEF Reserve
  <2>7. count'[r] <= Cardinality(Holding(r)') + left'[r]
    <3>1. count[r] <= Cardinality(Holding(r)) + left[r] /\ count[r] \in Nat /\ left[r] \in Nat
          /\ Cardinality(Holding(r)) \in Nat
      BY <1>0 DEF CountBounded
    <3> QED
      BY <2>2, <2>5, <2>6, <3>1
  <2>8. ASSUME NEW s \in Routes \ {r}
        PROVE  count'[s] <= Cardinality(Holding(s)') + left'[s]
    BY <2>2, <2>4, <2>6 DEF CountBounded
  <2> QED
    BY <2>7, <2>8 DEF CountBounded
<1>3. CASE /\ ~\E c \in Calls : Leaves(c)
           /\ ~\E c \in Calls, r \in Routes : GatewayPick(c, r) \/ \E scored \in BOOLEAN : Choose(c, r, scored)
  <2>1. Keeps
    BY <1>3, CallsStep
  <2>2. \A s \in Routes : Holding(s)' = Holding(s)
    BY <2>1 DEF Keeps, Holding, Procs
  <2>3. ASSUME NEW s \in Routes
        PROVE  count'[s] <= Cardinality(Holding(s)') + left'[s]
    <3>1. count'[s] <= count[s] /\ left'[s] = left[s] /\ count'[s] \in Nat
      BY <1>3, QuietRoutes
    <3>2. count[s] <= Cardinality(Holding(s)) + left[s] /\ count[s] \in Nat /\ left[s] \in Nat
          /\ Cardinality(Holding(s)) \in Nat
      BY <1>0 DEF CountBounded
    <3> QED
      BY <2>2, <3>1, <3>2
  <2> QED
    BY <2>3 DEF CountBounded
<1> QED
  BY <1>1, <1>2, <1>3

\* Stuttering keeps the bound of the counts.
LEMMA CountStutters ==
  ASSUME CountBounded, UNCHANGED vars
  PROVE  CountBounded'
<1>1. \A r \in Routes : Holding(r)' = Holding(r)
  BY DEF vars, Holding
<1> QED
  BY <1>1 DEF vars, CountBounded

\* The bound of the counts holds at the start.
LEMMA CountInit == Init => CountBounded
<1> SUFFICES ASSUME Init, NEW r \in Routes PROVE count[r] <= Cardinality(Holding(r)) + left[r]
  BY DEF CountBounded
<1>1. Cardinality(Holding(r)) \in Nat
  BY HoldingFinite
<1> QED
  BY <1>1 DEF Init

-----------------------------------------------------------------------------
(* The breakers. *)

\* Only an open breaker cools down. In the discovery client a call that was let
\* through to a half-open route is the only one, and while it is, the breaker
\* stays half open with its probe taken.
BreakersSound ==
  \A r \in Routes :
    /\ brk[r].cool => brk[r].st = "open"
    /\ ~Gateway => /\ probing[r] = {} \/ \E c \in Calls : probing[r] = {c}
                   /\ probing[r] # {} => brk[r].st = "half_open" /\ brk[r].probe

\* Every step keeps the breakers sound.
LEMMA BreakersStep ==
  ASSUME TypeOK, BreakersSound, Next
  PROVE  BreakersSound'
<1> USE DEF TypeOK, TypeRoutes
<1>0. kind' = kind
  <2>1. CASE GatewayAsk \/ GatewayApply \/ LoopTurn \/ Change \/ Expire \/ \E s \in Routes : CoolsDown(s)
    BY <2>1 DEF GatewayAsk, GatewayApply, LoopTurn, Change, Expire, CoolsDown
  <2>2. ASSUME NEW c \in Procs, Refresh(c) \/ Apply(c) \/ AskFails(c)
        PROVE  kind' = kind
    BY <2>2 DEF Refresh, Apply, AskFails
  <2>3. ASSUME NEW c \in Procs, Finish(c) \/ Woken(c) \/ WaitTimesOut(c)
        PROVE  kind' = kind
    BY <2>3 DEF Finish, Woken, WaitTimesOut
  <2>4. ASSUME NEW c \in Calls, Begin(c) \/ GatewayRows(c) \/ NoCandidate(c) \/ NoChoice(c)
        PROVE  kind' = kind
    BY <2>4 DEF Begin, GatewayRows, NoCandidate, NoChoice
  <2>5. ASSUME NEW c \in Calls, Succeeds(c) \/ UserError(c) \/ GatewayFails(c) \/ LookAgain(c)
        PROVE  kind' = kind
    BY <2>5 DEF Succeeds, UserError, GatewayFails, LookAgain
  <2>6. ASSUME NEW c \in Calls, FailOver(c) \/ GiveUp(c) \/ \E user \in BOOLEAN : ClientFails(c, user)
        PROVE  kind' = kind
    BY <2>6 DEF FailOver, GiveUp, ClientFails
  <2>7. ASSUME NEW c \in Calls, Streams(c) \/ StreamFails(c) \/ StreamLeft(c)
        PROVE  kind' = kind
    BY <2>7 DEF Streams, StreamFails, StreamLeft
  <2>8. ASSUME NEW c \in Calls, NEW r \in Routes,
               Check(c, r) \/ GatewayPick(c, r) \/ \E scored \in BOOLEAN : Choose(c, r, scored)
        PROVE  kind' = kind
    BY <2>8 DEF Check, GatewayPick, Choose
  <2> QED
    BY <2>1, <2>2, <2>3, <2>4, <2>5, <2>6, <2>7, <2>8 DEF Next
<1>1. \A s \in Routes : brk[s] \in Breaker
  OBVIOUS
<1>2. CASE \E c \in Calls : Leaves(c)
  <2>1. PICK c \in Calls : Leaves(c)
    BY <1>2
  <2>2. \A s \in Routes : \/ brk'[s] = brk[s] /\ probing'[s] = probing[s]
                          \/ brk'[s] \in {Closed, Opened} /\ probing'[s] = {}
    BY <2>1, ReturningCalls, LeavesRoutes
  <2> QED
    BY <1>0, <2>2 DEF BreakersSound, Closed, Opened, Gateway
<1>3. CASE \E c \in Calls, r \in Routes : GatewayPick(c, r) \/ \E scored \in BOOLEAN : Choose(c, r, scored)
  <2>1. PICK c \in Calls, r \in Routes : GatewayPick(c, r) \/ \E scored \in BOOLEAN : Choose(c, r, scored)
    BY <1>3
  <2>2. ASSUME NEW s \in Routes
        PROVE  brk'[s].cool => brk'[s].st = "open"
    <3>1. brk'[s] \in {brk[s], Aged(brk[s]), TakeProbe(brk[s])}
      BY <2>1, TakesRoutes
    <3> QED
      BY <1>1, <3>1, AgedFacts DEF BreakersSound, Breaker
  <2>3. ASSUME ~Gateway, NEW s \in Routes \ {r}
        PROVE  /\ probing'[s] = {} \/ \E d \in Calls : probing'[s] = {d}
               /\ probing'[s] # {} => brk'[s].st = "half_open" /\ brk'[s].probe
    <3>1. brk'[s] \in {brk[s], Aged(brk[s])} /\ probing'[s] = probing[s]
      BY <2>1, <2>3, TakesRoutes
    <3> QED
      BY <1>1, <2>3, <3>1, AgedFacts DEF BreakersSound
  <2>4. ASSUME ~Gateway
        PROVE  /\ probing'[r] = {} \/ \E d \in Calls : probing'[r] = {d}
               /\ probing'[r] # {} => brk'[r].st = "half_open" /\ brk'[r].probe
    <3>1. Admits(brk[r]) /\ \/ brk'[r] = TakeProbe(brk[r]) /\ Probes(c, r, brk[r])
                            \/ brk'[r] = Aged(brk[r]) /\ probing' = probing
      BY <2>1, <2>4, TakesRoutes
    <3>2. probing[r] = {}
      <4>1. SUFFICES ASSUME probing[r] # {} PROVE FALSE
        OBVIOUS
      <4>2. brk[r].st = "half_open" /\ brk[r].probe
        BY <2>1, <2>4, <4>1 DEF BreakersSound
      <4> QED
        BY <3>1, <4>2 DEF Admits, Aged
    <3>3. CASE Aged(brk[r]).st = "half_open"
      BY <1>1, <2>1, <3>1, <3>2, <3>3, AgedFacts DEF Probes
    <3>4. CASE Aged(brk[r]).st # "half_open"
      BY <2>1, <3>1, <3>2, <3>4 DEF Probes
    <3> QED
      BY <3>3, <3>4
  <2> QED
    BY <1>0, <2>2, <2>3, <2>4 DEF BreakersSound, Gateway
<1>4. CASE /\ ~\E c \in Calls : Leaves(c)
           /\ ~\E c \in Calls, r \in Routes : GatewayPick(c, r) \/ \E scored \in BOOLEAN : Choose(c, r, scored)
  <2>1. ASSUME NEW s \in Routes
        PROVE  /\ brk'[s].cool => brk'[s].st = "open"
               /\ ~Gateway => /\ probing'[s] = {} \/ \E c \in Calls : probing'[s] = {c}
                              /\ probing'[s] # {} => brk'[s].st = "half_open" /\ brk'[s].probe
    <3>1. \/ probing'[s] = probing[s] /\ \/ brk'[s] \in {brk[s], Aged(brk[s])}
                                         \/ brk'[s] = [brk[s] EXCEPT !.cool = FALSE]
          \/ probing'[s] = {} /\ brk'[s] = Closed
      BY <1>4, QuietRoutes
    <3>2. CASE brk'[s] = Closed /\ probing'[s] = {}
      BY <3>2 DEF Closed
    <3>3. CASE brk'[s] \in {brk[s], Aged(brk[s])} /\ probing'[s] = probing[s]
      BY <1>1, <3>3, AgedFacts DEF BreakersSound
    <3>4. CASE brk'[s] = [brk[s] EXCEPT !.cool = FALSE] /\ probing'[s] = probing[s]
      BY <1>1, <3>4 DEF BreakersSound, Breaker
    <3> QED
      BY <3>1, <3>2, <3>3, <3>4
  <2> QED
    BY <1>0, <2>1 DEF BreakersSound, Gateway
<1> QED
  BY <1>2, <1>3, <1>4

\* The breakers are sound at the start.
LEMMA BreakersInit == Init => BreakersSound
BY DEF Init, BreakersSound, Closed

\* Stuttering keeps the breakers sound.
LEMMA BreakersStutter ==
  ASSUME BreakersSound, UNCHANGED vars
  PROVE  BreakersSound'
BY DEF vars, BreakersSound, Gateway

\* At most one call is let through to a half-open route of the discovery client
\* (before_probe under the lock of _choose_route).
LEMMA OneProbeHolds == TypeOK /\ BreakersSound => OneProbe
<1> SUFFICES ASSUME TypeOK, BreakersSound, ~Gateway, NEW r \in Routes
             PROVE  Cardinality(probing[r]) <= 1
  BY DEF OneProbe, Gateway
<1>1. probing[r] = {} \/ \E c \in Calls : probing[r] = {c}
  BY DEF BreakersSound
<1>2. CASE probing[r] = {}
  BY <1>2, FS_EmptySet
<1>3. ASSUME NEW c \in Calls, probing[r] = {c}
      PROVE  Cardinality(probing[r]) <= 1
  <2>1. Cardinality({c}) = 1
    BY FS_Singleton
  <2> QED
    BY <1>3, <2>1
<1> QED
  BY <1>1, <1>2, <1>3

\* The counters that breakers and selection go by are what the calls under way
\* make them, for any routes and any number of calls (_reserve_route, _release_route,
\* before_probe).
THEOREM AccountsHold == Spec => []RoutesAccounted
<1> DEFINE Inv == TypeOK /\ CountBounded /\ BreakersSound
<1>1. Init => Inv
  BY TypeInit, CountInit, BreakersInit
<1>2. Inv /\ [Next]_vars => Inv'
  <2>1. Inv /\ Next => Inv'
    BY TypeStep, CountStep, BreakersStep
  <2>2. Inv /\ UNCHANGED vars => Inv'
    BY TypeStutters, CountStutters, BreakersStutter
  <2> QED
    BY <2>1, <2>2
<1>3. Inv => RoutesAccounted
  BY OneProbeHolds DEF RoutesAccounted
<1> QED
  BY <1>1, <1>2, <1>3, PTL DEF Spec

\* No call of the discovery client is sent to a route that cools down (allow of
\* failover.py under the lock of _choose_route).
THEOREM CoolingRestHolds == Spec => CoolingRests
<1> DEFINE Inv == TypeOK /\ BreakersSound
           Rests == kind = "discovery" => \A c \in Calls :
                      calls[c].route = "none" /\ calls'[c].route # "none" => ~brk[calls'[c].route].cool
<1>1. Init => Inv
  BY TypeInit, BreakersInit
<1>2. Inv /\ [Next]_vars => Inv'
  BY TypeStep, BreakersStep, TypeStutters, BreakersStutter
<1>3. Inv /\ [Next]_vars => [Rests]_vars
  <2> SUFFICES ASSUME Inv, Next, ~Gateway, NEW c \in Calls, calls[c].route = "none",
                      calls'[c].route # "none"
               PROVE  ~brk[calls'[c].route].cool
    BY DEF Gateway
  <2>1. ~Keeps
    BY DEF Keeps, Procs
  <2>2. ASSUME NEW d \in Calls, Returned(d)
        PROVE  FALSE
    <3>1. CASE d = c
      BY <2>2, <3>1 DEF Returned
    <3>2. CASE d # c
      BY <2>2, <3>2 DEF Returned, Procs
    <3> QED
      BY <3>1, <3>2
  <2>3. PICK d \in Calls, r \in Routes :
          Takes(d, r) /\ (GatewayPick(d, r) \/ \E scored \in BOOLEAN : Choose(d, r, scored))
    BY <2>1, <2>2, CallsStep
  <2>4. d = c /\ calls'[c].route = r
    BY <2>3 DEF Takes, Procs
  <2>5. Admits(brk[r]) /\ brk[r] \in Breaker
    BY <2>3, TakesRoutes DEF TypeOK, TypeRoutes
  <2> QED
    BY <2>3, <2>4, <2>5 DEF Admits, Aged, BreakersSound
<1> QED
  BY <1>1, <1>2, <1>3, PTL DEF Spec, CoolingRests

-----------------------------------------------------------------------------
(* The order of snapshots. *)

\* The discovery client: who has asked owns the refresh until it has removed its
\* key, so that no other answer is applied in between, and what it got is not
\* older than the snapshot it replaces.
RefreshOwned ==
  /\ snap.ver <= offered.ver
  /\ \A c \in Procs : calls[c].ver <= offered.ver
  /\ ~Gateway => \A c \in Procs :
       /\ At(c, "apply") \/ At(c, "finish") => owner = c
       /\ At(c, "apply") => snap.ver <= calls[c].ver

\* Steps that leave owner, snapshot and the numbers alone.
LEMMA RefreshFrame ==
  ASSUME TypeOK, RefreshOwned, UNCHANGED <<kind, offered, snap, owner>>,
         \A d \in Procs : /\ calls'[d].ver \in {0, calls[d].ver}
                          /\ calls'[d].pc \in {"apply", "finish"} => calls'[d] = calls[d]
  PROVE  RefreshOwned'
BY DEF RefreshOwned, At, Gateway, TypeOK, TypeCache

\* The steps of a refresh keep its owner and never turn the snapshot back.
LEMMA RefreshStep ==
  ASSUME TypeOK, RefreshOwned, NEW c \in Procs,
         Refresh(c) \/ Apply(c) \/ AskFails(c) \/ Finish(c) \/ Woken(c) \/ WaitTimesOut(c)
  PROVE  RefreshOwned' /\ (~Gateway => snap'.ver >= snap.ver)
<1> USE DEF At
<1>0. /\ calls \in [Procs -> Call] /\ snap.ver \in Nat /\ offered.ver \in Nat
      /\ \A d \in Procs : calls[d].ver \in Nat
  BY DEF TypeOK, TypeCalls, TypeCache, Call
<1>a. ASSUME NEW d \in Procs, NEW rows, calls[d].pc \in Refreshing, ~(Gateway /\ calls[d].pc = "apply")
      PROVE  /\ Got(d, rows).ver = 0 /\ Got(d, rows).pc \notin {"apply", "finish"}
             /\ RefreshFails(d).ver = 0 /\ RefreshFails(d).pc \notin {"apply", "finish"}
  BY <1>0, <1>a DEF Got, RefreshFails, NoCall, TypeOK, TypeCalls, CallSound, Call, Returns
<1>1. CASE Refresh(c)
  <2>0. ~Gateway /\ UNCHANGED <<kind, offered, snap>> /\ calls[c].pc = "refresh"
    BY <1>1 DEF Refresh
  <2>1. CASE calls' = [calls EXCEPT ![c] = Got(c, snap.set)] /\ owner' = owner
    BY <1>0, <1>a, <2>0, <2>1, RefreshFrame DEF Refreshing
  <2>2. CASE /\ MayOwn /\ owner' = c
             /\ calls' = [calls EXCEPT ![c] = [calls[c] EXCEPT !.pc = "apply", !.rows = offered.set,
                                                               !.ver = offered.ver]]
    <3>1. calls'[c].pc = "apply" /\ calls'[c].ver = offered.ver /\ \A d \in Procs \ {c} : calls'[d] = calls[d]
      BY <1>0, <2>2 DEF Call
    <3>2. \A d \in Procs : ~At(d, "apply") /\ ~At(d, "finish")
      BY <2>0, <2>2, RouteAssumption DEF RefreshOwned, MayOwn, Procs
    <3> QED
      BY <1>0, <2>0, <2>2, <3>1, <3>2 DEF RefreshOwned, Gateway
  <2>3. CASE /\ calls' = [calls EXCEPT ![c] = [calls[c] EXCEPT !.pc = "wait", !.moved = FALSE]]
             /\ owner' = owner
    <3>1. calls'[c].pc = "wait" /\ calls'[c].ver = calls[c].ver /\ \A d \in Procs \ {c} : calls'[d] = calls[d]
      BY <1>0, <2>3 DEF Call
    <3> QED
      BY <1>0, <2>0, <2>3, <3>1, RefreshFrame
  <2> QED
    BY <1>1, <2>1, <2>2, <2>3 DEF Refresh
<1>2. CASE Apply(c)
  <2>1. /\ UNCHANGED <<kind, offered, owner>> /\ snap'.ver = calls[c].ver
        /\ ~Gateway /\ calls[c].pc = "apply"
    BY <1>2 DEF Apply
  <2>2. \A d \in Procs : /\ calls'[d].ver = calls[d].ver
                         /\ calls'[d].pc = IF d = c THEN "finish" ELSE calls[d].pc
    BY <1>2, <1>0 DEF Apply, Call
  <2>3. owner = c /\ snap.ver <= calls[c].ver /\ \A d \in Procs \ {c} : calls[d].pc # "apply"
    BY <2>1 DEF RefreshOwned
  <2> QED
    BY <1>0, <2>1, <2>2, <2>3 DEF RefreshOwned, Gateway
<1>3. CASE AskFails(c)
  <2>1. UNCHANGED <<kind, offered, snap, owner>> /\ ~Gateway /\ calls[c].pc = "apply"
    BY <1>3 DEF AskFails
  <2>2. \A d \in Procs : /\ calls'[d].ver = calls[d].ver
                         /\ calls'[d].pc = IF d = c THEN "finish" ELSE calls[d].pc
    BY <1>3, <1>0 DEF AskFails, Goto, Call
  <2> QED
    BY <1>0, <2>1, <2>2 DEF RefreshOwned, Gateway
<1>4. CASE Finish(c)
  <2>1. UNCHANGED <<kind, offered, snap>> /\ owner' = "none" /\ calls[c].pc = "finish"
    BY <1>4 DEF Finish
  <2>2. calls'[c].ver = 0 /\ calls'[c].pc \notin {"apply", "finish"}
    BY <1>4, <1>a, <2>1 DEF Finish, Refreshing
  <2>3. \A d \in Procs \ {c} : /\ calls'[d].ver = calls[d].ver
                               /\ calls'[d].pc \in {"apply", "finish"} => calls'[d].pc = calls[d].pc
    BY <1>4, <1>0 DEF Finish, Call
  <2>4. ~Gateway => \A d \in Procs \ {c} : calls[d].pc \notin {"apply", "finish"}
    BY <2>1 DEF RefreshOwned
  <2> QED
    BY <1>0, <2>1, <2>2, <2>3, <2>4 DEF RefreshOwned, Gateway
<1>5. CASE Woken(c) \/ WaitTimesOut(c)
  <2>1. UNCHANGED <<kind, offered, snap, owner>> /\ calls[c].pc \in {"woken", "wait"}
    BY <1>5 DEF Woken, WaitTimesOut
  <2>2. /\ calls'[c].ver = 0 /\ calls'[c].pc \notin {"apply", "finish"}
        /\ \A d \in Procs \ {c} : calls'[d] = calls[d]
    BY <1>0, <1>5, <1>a, <2>1 DEF Woken, WaitTimesOut, Refreshing
  <2> QED
    BY <1>0, <2>1, <2>2, RefreshFrame
<1> QED
  BY <1>1, <1>2, <1>3, <1>4, <1>5

\* Every step keeps the owner of a refresh and never turns the snapshot back.
LEMMA SnapshotStep ==
  ASSUME TypeOK, RefreshOwned, Next
  PROVE  RefreshOwned' /\ (~Gateway => snap'.ver >= snap.ver)
<1> USE DEF At, Procs
<1>0. /\ calls \in [Procs -> Call] /\ snap.ver \in Nat /\ offered.ver \in Nat
      /\ \A d \in Procs : calls[d].ver \in Nat
  BY DEF TypeOK, TypeCalls, TypeCache, Call
<1>1. CASE \E c \in Procs : Refresh(c) \/ Apply(c) \/ AskFails(c) \/ Finish(c) \/ Woken(c) \/ WaitTimesOut(c)
  BY <1>1, RefreshStep
<1>2. CASE GatewayAsk \/ GatewayApply
  <2>1. Gateway /\ kind' = kind /\ offered' = offered
    BY <1>2 DEF GatewayAsk, GatewayApply
  <2>2. calls'[Loop].ver \in {0, offered.ver} /\ \A d \in Procs \ {Loop} : calls'[d] = calls[d]
    <3>1. CASE GatewayAsk
      <4>1. [NoCall EXCEPT !.pc = "apply", !.rows = offered.set, !.ver = offered.ver].ver = offered.ver
        BY DEF NoCall
      <4> QED
        BY <1>0, <3>1, <4>1 DEF GatewayAsk
    <3>2. CASE GatewayApply
      <4>1. NoCall.ver = 0
        BY DEF NoCall
      <4> QED
        BY <1>0, <3>2, <4>1 DEF GatewayApply
    <3> QED
      BY <1>2, <3>1, <3>2
  <2>3. \A d \in Procs : calls'[d].ver <= offered.ver
    BY <1>0, <2>2 DEF RefreshOwned
  <2>4. snap'.ver <= offered.ver
    BY <1>0, <1>2 DEF GatewayAsk, GatewayApply, RefreshOwned
  <2> QED
    BY <2>1, <2>3, <2>4 DEF RefreshOwned, Gateway
<1>3. CASE Change \/ Expire \/ \E r \in Routes : CoolsDown(r)
  <2>1. kind' = kind /\ calls' = calls /\ owner' = owner /\ snap'.ver = snap.ver
    BY <1>3 DEF Change, Expire, CoolsDown, TypeOK, TypeCache
  <2>2. offered'.ver >= offered.ver /\ offered'.ver \in Nat
    BY <1>0, <1>3 DEF Change, Expire, CoolsDown
  <2> QED
    BY <1>0, <2>1, <2>2 DEF RefreshOwned, Gateway
<1> DEFINE Quietly == /\ UNCHANGED <<kind, offered, snap, owner>>
                      /\ \A d \in Procs : /\ calls'[d].ver \in {0, calls[d].ver}
                                          /\ calls'[d].pc \in {"apply", "finish"} => calls'[d] = calls[d]
<1>4. CASE LoopTurn
  BY <1>0, <1>4, RefreshFrame DEF LoopTurn, NoCall
<1>5. ASSUME NEW c \in Calls, Quiet(c)
      PROVE  Quietly
  <2>0. NoCall.ver = 0 /\ NoCall.pc = "idle"
    BY DEF NoCall
  <2>1. CASE NoCandidate(c) \/ NoChoice(c)
    BY <1>0, <2>0, <2>1 DEF NoCandidate, NoChoice
  <2>7. CASE Begin(c)
    <3> DEFINE e == [NoCall EXCEPT !.pc = IF Gateway THEN "rows" ELSE "refresh", !.back = "choose"]
    <3>1. e.ver = 0 /\ e.pc \in {"rows", "refresh"}
      BY DEF NoCall
    <3>2. calls' = [calls EXCEPT ![c] = e] /\ UNCHANGED <<kind, offered, snap, owner>>
      BY <2>7 DEF Begin
    <3> HIDE DEF e
    <3> QED
      BY <1>0, <3>1, <3>2
  <2>2. CASE LookAgain(c)
    BY <1>0, <2>2 DEF LookAgain, Call
  <2>3. CASE Streams(c)
    BY <1>0, <2>3 DEF Streams, Goto, Call
  <2>4. CASE \E user \in BOOLEAN : ClientFails(c, user)
    BY <1>0, <2>4 DEF ClientFails, Call
  <2>5. CASE GatewayRows(c)
    <3> DEFINE e == [calls[c] EXCEPT !.rows = offered.set \ calls[c].tried, !.seen = {}, !.pc = "check"]
    <3>1. e.ver = calls[c].ver /\ e.pc = "check"
      BY <1>0 DEF Call
    <3>2. /\ calls' = [calls EXCEPT ![c] = e] \/ calls' = [calls EXCEPT ![c] = NoCall]
          /\ UNCHANGED <<kind, offered, snap, owner>>
      BY <2>5 DEF GatewayRows
    <3> HIDE DEF e
    <3> QED
      BY <1>0, <2>0, <3>1, <3>2
  <2>6. ASSUME NEW r \in Routes, Check(c, r)
        PROVE  Quietly
    <3> DEFINE e == [calls[c] EXCEPT !.rows = calls[c].rows \ {r},
                                     !.seen = calls[c].seen \cup {x \in {r} : Admits(brk[x])}]
    <3>1. e.ver = calls[c].ver /\ e.pc = calls[c].pc /\ calls[c].pc = "check"
      BY <1>0, <2>6 DEF Check, Call
    <3>2. calls' = [calls EXCEPT ![c] = e] /\ UNCHANGED <<kind, offered, snap, owner>>
      BY <2>6 DEF Check
    <3> HIDE DEF e
    <3> QED
      BY <1>0, <3>1, <3>2
  <2> QED
    BY <1>5, <2>1, <2>7, <2>2, <2>3, <2>4, <2>5, <2>6 DEF Quiet
<1>6. ASSUME NEW c \in Calls, Leaves(c)
      PROVE  Quietly
  <2>1. CASE Succeeds(c) \/ UserError(c) \/ GiveUp(c) \/ StreamFails(c) \/ StreamLeft(c)
    <3>1. calls' = [calls EXCEPT ![c] = NoCall] /\ UNCHANGED <<kind, offered, snap, owner>>
      BY <2>1 DEF Succeeds, UserError, GiveUp, StreamFails, StreamLeft
    <3> QED
      BY <1>0, <3>1 DEF NoCall
  <2>2. CASE GatewayFails(c) \/ FailOver(c)
    <3>1. PICK to \in {"rows", "refresh"} : Again(c, to) /\ UNCHANGED <<kind, offered, snap, owner>>
      BY <2>2 DEF GatewayFails, FailOver
    <3> QED
      BY <1>0, <3>1 DEF Again, Call
  <2> QED
    BY <1>6, <2>1, <2>2 DEF Leaves
<1>7. ASSUME NEW c \in Calls, NEW r \in Routes,
             GatewayPick(c, r) \/ \E scored \in BOOLEAN : Choose(c, r, scored)
      PROVE  Quietly
  <2>1. Sent(c, r) /\ UNCHANGED <<kind, offered, snap, owner>>
    BY <1>7 DEF GatewayPick, Choose
  <2> QED
    BY <1>0, <2>1 DEF Sent, Call
<1>8. Quietly => RefreshOwned' /\ (~Gateway => snap'.ver >= snap.ver)
  BY <1>0, RefreshFrame
<1> QED
  BY <1>1, <1>2, <1>3, <1>4, <1>5, <1>6, <1>7, <1>8 DEF Next, Leaves, Quiet

\* Rows asked for earlier never replace later ones in the discovery client
\* (_refreshing of discovery_route_cache.py), for any number of callers.
THEOREM SnapshotsGoForward == Spec => SnapshotForward
<1> DEFINE Inv == TypeOK /\ RefreshOwned
<1>1. Init => Inv
  <2>1. Init => RefreshOwned
    BY DEF Init, RefreshOwned, NoCall, At
  <2> QED
    BY <2>1, TypeInit
<1>2. Inv /\ [Next]_vars => Inv'
  <2>1. Inv /\ Next => Inv'
    BY TypeStep, SnapshotStep
  <2>2. Inv /\ UNCHANGED vars => Inv'
    BY TypeStutters DEF vars, RefreshOwned, At, Gateway
  <2> QED
    BY <2>1, <2>2
<1>3. Inv /\ [Next]_vars => [kind = "discovery" => snap'.ver >= snap.ver]_vars
  BY SnapshotStep DEF Gateway
<1> QED
  BY <1>1, <1>2, <1>3, PTL DEF Spec, SnapshotForward

=============================================================================
