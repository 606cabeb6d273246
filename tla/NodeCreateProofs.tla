-------------------------- MODULE NodeCreateProofs --------------------------
(***************************************************************************)
(* Proofs for every value of the constants.  About NodeCreate, services    *)
(* and task pools alike: a create that is retried makes one resource, the  *)
(* table of create requests says the truth, and no worker slot is lost.    *)
(* About ManagedGlobals, the globals of what was created: a call reads     *)
(* the values it was meant to read, and replicas whose updates have come   *)
(* to rest have the same values.                                           *)
(***************************************************************************)
EXTENDS NodeCreate, ManagedGlobals, SequencesExt, FiniteSetTheorems, WellFoundedInduction, TLAPS

-----------------------------------------------------------------------------
(* SumFunctionOnSet, by induction on a number.  The theorem that the
   order of Nat is well-founded is used in its form about sets, so that no
   operator has to be passed to a lemma. *)

\* Every nonempty set of natural numbers has a least element: the well-foundedness
\* of < in the form the other lemmas use.
LEMMA LeastNumber ==
  ASSUME NEW T, T \subseteq Nat, T # {}
  PROVE  \E x \in T : \A y \in T : x <= y
<1> DEFINE R == {p \in Nat \X Nat : p[1] < p[2]}
<1>1. IsWellFoundedOn(R, Nat)
  BY NatLessThanWellFounded, Zenon DEF OpToRel
<1>2. PICK x \in T : \A y \in T : <<y, x>> \notin R
  BY <1>1, WFMin, Zenon
<1>3. \A y \in T : ~(y < x)
  BY <1>2
<1> QED
  BY <1>3

\* Induction, about a set of numbers instead of a predicate.
LEMMA Induction ==
  ASSUME NEW S, 0 \in S, \A n \in Nat : n \in S => n + 1 \in S
  PROVE  \A n \in Nat : n \in S
<1> SUFFICES ASSUME Nat \ S # {} PROVE FALSE
  OBVIOUS
<1>1. PICK x \in Nat \ S : \A y \in Nat \ S : x <= y
  BY LeastNumber, Zenon
<1>2. x # 0 /\ x - 1 \in Nat /\ x - 1 \in S
  BY <1>1
<1>3. (x - 1) + 1 \in S
  BY <1>2
<1> QED
  BY <1>1, <1>3

\* The element a sum takes next, and the sets of at most n elements.
Pick(s) == CHOOSE y \in s : TRUE
AtMost(T, n) == {s \in SUBSET T : Cardinality(s) <= n}

\* g[s] is the sum of f over s, for the sets s of G.
Sums(g, f, G) == \A s \in G : g[s] = IF s = {} THEN 0 ELSE f[Pick(s)] + g[s \ {Pick(s)}]

\* A set without the element that is picked is smaller.
LEMMA Smaller ==
  ASSUME NEW T, IsFiniteSet(T), NEW n \in Nat, NEW s \in AtMost(T, n + 1), s # {}
  PROVE  Pick(s) \in s /\ Pick(s) \in T /\ s \ {Pick(s)} \in AtMost(T, n)
<1>1. Pick(s) \in s /\ Pick(s) \in T
  BY DEF Pick, AtMost
<1>2. IsFiniteSet(s) /\ s \subseteq T /\ Cardinality(s) <= n + 1
  BY FS_Subset DEF AtMost
<1>3. Cardinality(s \ {Pick(s)}) = Cardinality(s) - 1 /\ Cardinality(s) \in Nat
  BY <1>1, <1>2, FS_RemoveElement, FS_CardinalityType
<1> QED
  BY <1>1, <1>2, <1>3 DEF AtMost

\* Every set of at most the number of elements of T is a subset of T, and the
\* other way round.
LEMMA AllSubsets ==
  ASSUME NEW T, IsFiniteSet(T)
  PROVE  Cardinality(T) \in Nat /\ AtMost(T, Cardinality(T)) = SUBSET T /\ AtMost(T, 0) = {{}}
<1>1. Cardinality(T) \in Nat
  BY FS_CardinalityType
<1>2. \A s \in SUBSET T : IsFiniteSet(s) /\ Cardinality(s) <= Cardinality(T) /\ Cardinality(s) \in Nat
  BY FS_Subset, FS_CardinalityType
<1>3. \A s \in SUBSET T : Cardinality(s) = 0 <=> s = {}
  BY <1>2, FS_EmptySet
<1>4. AtMost(T, 0) = {{}}
  BY <1>2, <1>3 DEF AtMost
<1> QED
  BY <1>1, <1>2, <1>4 DEF AtMost

\* The recursive function of SumFunctionOnSet.
HasSums(f, T) ==
  \E g \in [SUBSET T -> Nat] : Sums(g, f, SUBSET T) /\ SumFunctionOnSet(f, T) = g[T]

\* SumFunctionOnSet is the value of its recursive function at the whole set.
LEMMA SumUnfolds ==
  ASSUME NEW T, IsFiniteSet(T), NEW D, T \subseteq D, NEW f \in [D -> Nat]
  PROVE  HasSums(f, T)
<1> DEFINE Solves(n) == \E h \in [AtMost(T, n) -> Nat] : Sums(h, f, AtMost(T, n))
           S == {n \in Nat : Solves(n)}
<1> HIDE DEF Solves
<1>1. 0 \in S
  <2>1. AtMost(T, 0) = {{}}
    BY AllSubsets
  <2> DEFINE h == [s \in AtMost(T, 0) |-> 0]
  <2>2. h \in [AtMost(T, 0) -> Nat] /\ Sums(h, f, AtMost(T, 0))
    BY <2>1 DEF Sums
  <2> QED
    BY <2>2, Zenon DEF Solves
<1>2. ASSUME NEW n \in Nat, n \in S
      PROVE  n + 1 \in S
  <2>1. PICK h \in [AtMost(T, n) -> Nat] : Sums(h, f, AtMost(T, n))
    BY <1>2, Zenon DEF Solves
  <2> DEFINE k == [s \in AtMost(T, n + 1) |-> IF s = {} THEN 0 ELSE f[Pick(s)] + h[s \ {Pick(s)}]]
  <2>2. ASSUME NEW s \in AtMost(T, n + 1), s # {}
        PROVE  /\ s \ {Pick(s)} \in AtMost(T, n) /\ s \ {Pick(s)} \in AtMost(T, n + 1)
               /\ f[Pick(s)] \in Nat /\ h[s \ {Pick(s)}] \in Nat
    <3>1. Pick(s) \in T /\ s \ {Pick(s)} \in AtMost(T, n)
      BY <2>2, Smaller
    <3>2. s \ {Pick(s)} \in AtMost(T, n + 1)
      <4>1. IsFiniteSet(s \ {Pick(s)}) /\ Cardinality(s \ {Pick(s)}) \in Nat
        BY <3>1, FS_Subset, FS_CardinalityType DEF AtMost
      <4> QED
        BY <3>1, <4>1 DEF AtMost
    <3> QED
      BY <3>1, <3>2
  <2>3. k \in [AtMost(T, n + 1) -> Nat]
    BY <2>2
  <2>4. \A s \in AtMost(T, n) : s \in AtMost(T, n + 1) /\ k[s] = h[s]
    <3>1. ASSUME NEW s \in AtMost(T, n)
          PROVE  s \in AtMost(T, n + 1)
      <4>1. Cardinality(s) \in Nat
        BY FS_Subset, FS_CardinalityType DEF AtMost
      <4> QED
        BY <4>1 DEF AtMost
    <3> QED
      BY <2>1, <3>1 DEF Sums
  <2>5. Sums(k, f, AtMost(T, n + 1))
    <3>1. ASSUME NEW s \in AtMost(T, n + 1)
          PROVE  k[s] = IF s = {} THEN 0 ELSE f[Pick(s)] + k[s \ {Pick(s)}]
      BY <2>2, <2>4
    <3> QED
      BY <3>1, Zenon DEF Sums
  <2>6. Solves(n + 1)
    BY <2>3, <2>5, Zenon DEF Solves
  <2> QED
    BY <2>6
<1>3. PICK h \in [SUBSET T -> Nat] : Sums(h, f, SUBSET T)
  <2>1. \A n \in Nat : n \in S
    <3> HIDE DEF S
    <3> QED
      BY <1>1, <1>2, Induction
  <2>2. Solves(Cardinality(T))
    BY <2>1, AllSubsets
  <2>3. AtMost(T, Cardinality(T)) = SUBSET T
    BY AllSubsets
  <2> QED
    BY <2>2, <2>3, Zenon DEF Solves
<1> DEFINE Def(k) == [s \in SUBSET T |-> IF s = {} THEN 0 ELSE f[Pick(s)] + k[s \ {Pick(s)}]]
<1>10. PICK g : g = CHOOSE k : k = Def(k)
  OBVIOUS
<1>4. g = Def(g)
  <2>1. h = Def(h)
    BY <1>3 DEF Sums
  <2> QED
    BY <1>10, <2>1, Zenon
<1>5. SumFunctionOnSet(f, T) = g[T]
  BY <1>10, Zenon DEF SumFunctionOnSet, FoldFunctionOnSet, MapThenFoldSet, Pick
<1>6. DOMAIN g = SUBSET T /\ Sums(g, f, SUBSET T)
  BY <1>4 DEF Sums
<1>7. \A s \in SUBSET T : g[s] \in Nat
  <2> DEFINE N == {n \in Nat : \A s \in AtMost(T, n) : g[s] \in Nat}
  <2>1. 0 \in N
    <3>1. g[{}] = 0
      BY <1>6 DEF Sums
    <3>2. \A s \in AtMost(T, 0) : s = {}
      BY AllSubsets
    <3>3. \A s \in AtMost(T, 0) : g[s] = 0
      BY <3>1, <3>2, Zenon
    <3> QED
      BY <3>3
  <2>2. ASSUME NEW n \in Nat, n \in N
        PROVE  n + 1 \in N
    <3>1. ASSUME NEW s \in AtMost(T, n + 1)
          PROVE  g[s] \in Nat
      <4>1. s \in SUBSET T
        BY DEF AtMost
      <4>2. CASE s = {}
        <5>1. g[s] = 0
          BY <1>6, <4>1, <4>2, Zenon DEF Sums
        <5> QED
          BY <5>1
      <4>3. CASE s # {}
        <5>1. Pick(s) \in T /\ s \ {Pick(s)} \in AtMost(T, n)
          BY <4>3, Smaller
        <5>2. g[s \ {Pick(s)}] \in Nat /\ f[Pick(s)] \in Nat
          BY <2>2, <5>1
        <5>3. g[s] = f[Pick(s)] + g[s \ {Pick(s)}]
          BY <1>6, <4>1, <4>3 DEF Sums
        <5> QED
          BY <5>2, <5>3
      <4> QED
        BY <4>2, <4>3
    <3> QED
      BY <3>1
  <2>3. \A n \in Nat : n \in N
    <3> HIDE DEF N
    <3> QED
      BY <2>1, <2>2, Induction
  <2>4. Cardinality(T) \in N /\ AtMost(T, Cardinality(T)) = SUBSET T
    BY <2>3, AllSubsets
  <2> QED
    BY <2>4
<1>8. g \in [SUBSET T -> Nat]
  BY <1>4, <1>7
<1> QED
  BY <1>5, <1>6, <1>8, Zenon DEF HasSums

\* A sum of numbers is a number.
LEMMA SumIsNat ==
  ASSUME NEW D, NEW f \in [D -> Nat], NEW T, T \subseteq D, IsFiniteSet(T)
  PROVE  SumFunctionOnSet(f, T) \in Nat
<1>1. HasSums(f, T)
  BY SumUnfolds
<1>2. PICK g \in [SUBSET T -> Nat] : SumFunctionOnSet(f, T) = g[T]
  BY <1>1, Zenon DEF HasSums
<1>3. T \in SUBSET T
  OBVIOUS
<1> QED
  BY <1>2, <1>3

\* A sum changes by as much as the one value that changes.
LEMMA SumChanges ==
  ASSUME NEW D, IsFiniteSet(D), NEW f \in [D -> Nat], NEW e \in [D -> Nat], NEW x \in D,
         \A y \in D \ {x} : e[y] = f[y]
  PROVE  /\ SumFunctionOnSet(f, D) \in Nat /\ SumFunctionOnSet(e, D) \in Nat
         /\ SumFunctionOnSet(e, D) = SumFunctionOnSet(f, D) - f[x] + e[x]
<1>0. HasSums(f, D) /\ HasSums(e, D)
  BY SumUnfolds
<1>1. PICK g \in [SUBSET D -> Nat] : Sums(g, f, SUBSET D) /\ SumFunctionOnSet(f, D) = g[D]
  BY <1>0, Zenon DEF HasSums
<1>2. PICK h \in [SUBSET D -> Nat] : Sums(h, e, SUBSET D) /\ SumFunctionOnSet(e, D) = h[D]
  BY <1>0, Zenon DEF HasSums
<1> DEFINE Off(s) == h[s] = IF x \in s THEN g[s] - f[x] + e[x] ELSE g[s]
           N == {n \in Nat : \A s \in AtMost(D, n) : Off(s)}
<1>3. 0 \in N
  <2>1. g[{}] = 0 /\ h[{}] = 0
    BY <1>1, <1>2 DEF Sums
  <2> QED
    BY <2>1, AllSubsets
<1>4. ASSUME NEW n \in Nat, n \in N
      PROVE  n + 1 \in N
  <2>1. ASSUME NEW s \in AtMost(D, n + 1)
        PROVE  Off(s)
    <3>1. s \in SUBSET D
      BY DEF AtMost
    <3>2. CASE s = {}
      BY <1>1, <1>2, <3>1, <3>2 DEF Sums
    <3>3. CASE s # {}
      <4>1. PICK y \in D : y = Pick(s) /\ y \in s /\ s \ {y} \in AtMost(D, n)
        BY <3>3, Smaller
      <4>2. PICK r \in SUBSET D : r = s \ {y}
        BY <3>1
      <4>3. g[s] = f[y] + g[r] /\ h[s] = e[y] + h[r]
        BY <1>1, <1>2, <3>1, <3>3, <4>1, <4>2 DEF Sums
      <4>4. Off(r)
        BY <1>4, <4>1, <4>2
      <4>5. g[r] \in Nat /\ f[y] \in Nat /\ e[y] \in Nat /\ f[x] \in Nat /\ e[x] \in Nat /\ h[r] \in Nat
        OBVIOUS
      <4>6. CASE y = x
        BY <4>1, <4>2, <4>3, <4>4, <4>5, <4>6
      <4>7. CASE y # x
        <5>1. e[y] = f[y] /\ (x \in r <=> x \in s)
          BY <4>1, <4>2, <4>7
        <5> QED
          BY <4>3, <4>4, <4>5, <5>1
      <4> QED
        BY <4>6, <4>7
    <3> QED
      BY <3>2, <3>3
  <2> QED
    BY <2>1
<1>5. \A n \in Nat : n \in N
  <2> HIDE DEF N
  <2> QED
    BY <1>3, <1>4, Induction
<1>6. Cardinality(D) \in N /\ D \in AtMost(D, Cardinality(D))
  BY <1>5, AllSubsets
<1>7. Off(D)
  BY <1>6
<1> QED
  BY <1>1, <1>2, <1>7
-----------------------------------------------------------------------------
(* The inductive invariant. *)

Fields == {"pc", "async", "req", "name", "want", "active", "got", "globals", "todo"}

\* The steps that are left of a clean-up end with the request, and only then.
Cleaning(todo) ==
  /\ todo \in Seq(Steps) /\ Len(todo) > 0
  /\ \A k \in 1..Len(todo) : todo[k] = "request" <=> k = Len(todo)

\* The steps of an asynchronous create only.
AsyncSteps == {"accept", "accepted", "start", "attach", "attached"}

\* A call, as far as requests and resources go by it.
IsCall(x) ==
  /\ x = [f \in Fields |-> x[f]]
  /\ x.req \in Reqs \cup {None} /\ x.async \in BOOLEAN
  /\ x.pc \in AsyncSteps => x.async
  /\ x.pc = "cleanup" => Cleaning(x.todo)

IsResource(x) == x = [f \in {"status", "ready", "workers", "name"} |-> x[f]]
ResTyped == res = [i \in Ids |-> res[i]] /\ \A i \in Ids : IsResource(res[i])

Types ==
  /\ call = [i \in Ids |-> call[i]] /\ \A i \in Ids : IsCall(call[i])
  /\ ResTyped
  /\ reqs \in [Reqs -> {None} \cup Request]

\* When a resource can be live.  A synchronous create puts it into the table at
\* its end; a failing asynchronous one has yet to mark it as stopped.
LiveAllowed(x) ==
  /\ x.async => x.pc \notin {"new", "name", "accept"}
  /\ ~x.async => x.pc \in {"finish", "return", "done"}
  /\ x.pc = "cleanup" => \E k \in 1..Len(x.todo) : x.todo[k] = "mark"
LivesAllowed == \A i \in Ids : IsLive(i) => LiveAllowed(call[i])

State(r, st) == reqs[r] # None /\ reqs[r].st = st

\* The request of a call that is at work is CREATING, and it is the only one.
WorkRequested == \A i \in Ids : InProgress(i) /\ call[i].req # None => State(call[i].req, "CREATING")
WorkAlone == \A i, k \in Ids : InProgress(i) /\ InProgress(k) /\ call[i].req = call[k].req
                               /\ call[i].req # None => i = k

\* The request of a call that is over, and whose resource is live, names it.
LiveRequested ==
  \A i \in Ids : IsLive(i) /\ ~InProgress(i) /\ call[i].req # None =>
    State(call[i].req, "SUCCEEDED") /\ reqs[call[i].req].id = i

\* A request that has succeeded is of a call that is over.
SuccessOver ==
  \A r \in Reqs : State(r, "SUCCEEDED") => reqs[r].id \in Ids /\ ~InProgress(reqs[r].id)

Inv == /\ Types /\ LivesAllowed /\ WorkRequested /\ WorkAlone /\ LiveRequested /\ SuccessOver
       /\ NoVainWait /\ SucceededIsLive

-----------------------------------------------------------------------------
(* Lemmas. *)

\* What an update of a call does.
LEMMA PcPut ==
  ASSUME NEW x, IsCall(x), NEW l, l # "cleanup", l \in AsyncSteps => x.async, NEW y, y = [x EXCEPT !.pc = l]
  PROVE  IsCall(y) /\ y.pc = l /\ y.req = x.req /\ y.async = x.async
BY DEF IsCall, Fields

\* The types of the resources depend on nothing else.
LEMMA ResSame == ResTyped /\ UNCHANGED res => ResTyped'
BY DEF ResTyped

\* Replacing the record of one call.
LEMMA CallPut ==
  ASSUME Types, NEW i \in Ids, NEW x, call' = [call EXCEPT ![i] = x]
  PROVE  call'[i] = x /\ (\A k \in Ids \ {i} : call'[k] = call[k]) /\ call' = [k \in Ids |-> call'[k]]
BY DEF Types

\* The clean-ups of the code, and which of them mark the resource as stopped.
Marked(s) == \E k \in 1..Len(s) : s[k] = "mark"

\* The clean-ups of the code, by the step that failed.
LEMMA CleanupPlans ==
  /\ Cleaning(<<"request">>)
  /\ Cleaning(<<"mark", "request">>) /\ Marked(<<"mark", "request">>)
  /\ Cleaning(<<"remember", "request">>)
  /\ Cleaning(<<"stop", "mark", "request">>) /\ Marked(<<"stop", "mark", "request">>)
  /\ Cleaning(<<"release", "stop", "request">>)
  /\ Cleaning(<<"release", "stop", "remember", "request">>)
  /\ Cleaning(<<"release", "stop", "mark", "request">>)
  /\ Marked(<<"release", "stop", "mark", "request">>)
  /\ Cleaning(<<"release", "stop", "release", "stop", "mark", "request">>)
  /\ Marked(<<"release", "stop", "release", "stop", "mark", "request">>)
  /\ Cleaning(<<"release", "stop", "release", "stop", "remember", "request">>)
<1> USE DEF Cleaning, Marked, Steps
<1>1. Cleaning(<<"request">>)
  OBVIOUS
<1>2. Cleaning(<<"mark", "request">>) /\ Cleaning(<<"remember", "request">>)
  OBVIOUS
<1>3. Cleaning(<<"stop", "mark", "request">>) /\ Cleaning(<<"release", "stop", "request">>)
  OBVIOUS
<1>4. Cleaning(<<"release", "stop", "remember", "request">>) /\ Cleaning(<<"release", "stop", "mark", "request">>)
  OBVIOUS
<1>5. Cleaning(<<"release", "stop", "release", "stop", "mark", "request">>)
  OBVIOUS
<1>6. Cleaning(<<"release", "stop", "release", "stop", "remember", "request">>)
  OBVIOUS
<1>7. Marked(<<"mark", "request">>)
  <2> DEFINE s == <<"mark", "request">>
  <2>1. 1 \in 1..Len(s) /\ s[1] = "mark"
    OBVIOUS
  <2> QED
    BY <2>1
<1>8. Marked(<<"stop", "mark", "request">>)
  <2> DEFINE s == <<"stop", "mark", "request">>
  <2>1. 2 \in 1..Len(s) /\ s[2] = "mark"
    OBVIOUS
  <2> QED
    BY <2>1
<1>9. Marked(<<"release", "stop", "mark", "request">>)
  <2> DEFINE s == <<"release", "stop", "mark", "request">>
  <2>1. 3 \in 1..Len(s) /\ s[3] = "mark"
    OBVIOUS
  <2> QED
    BY <2>1
<1>10. Marked(<<"release", "stop", "release", "stop", "mark", "request">>)
  <2> DEFINE s == <<"release", "stop", "release", "stop", "mark", "request">>
  <2>1. 5 \in 1..Len(s) /\ s[5] = "mark"
    OBVIOUS
  <2> QED
    BY <2>1
<1> QED
  BY <1>1, <1>2, <1>3, <1>4, <1>5, <1>6, <1>7, <1>8, <1>9, <1>10

\* A clean-up that has done a step.
LEMMA CleaningTail ==
  ASSUME NEW s, Cleaning(s), s # <<>>, Head(s) # "request"
  PROVE  Cleaning(Tail(s)) /\ (Head(s) # "mark" /\ Marked(s) => Marked(Tail(s)))
<1>1. s \in Seq(Steps) /\ Len(s) \in Nat /\ Len(s) > 1 /\ Head(s) = s[1]
  BY DEF Cleaning
<1>2. Tail(s) \in Seq(Steps) /\ Len(Tail(s)) = Len(s) - 1
      /\ \A k \in 1..Len(s) - 1 : Tail(s)[k] = s[k + 1]
  BY <1>1
<1>3. Cleaning(Tail(s))
  <2>1. \A k \in 1..Len(s) - 1 : k + 1 \in 1..Len(s) /\ (k + 1 = Len(s) <=> k = Len(s) - 1)
    BY <1>1
  <2>2. \A k \in 1..Len(s) - 1 : s[k + 1] = "request" <=> k = Len(s) - 1
    BY <2>1 DEF Cleaning
  <2>3. PICK n : n = Len(s) - 1
    OBVIOUS
  <2>4. \A k \in 1..n : Tail(s)[k] = "request" <=> k = n
    BY <1>2, <2>2, <2>3
  <2>5. Len(Tail(s)) = n /\ n > 0
    BY <1>1, <1>2, <2>3
  <2> QED
    BY <1>2, <2>4, <2>5 DEF Cleaning
<1>4. ASSUME Head(s) # "mark", Marked(s)
      PROVE  Marked(Tail(s))
  <2>1. PICK k \in 1..Len(s) : s[k] = "mark"
    BY <1>4 DEF Marked
  <2>2. k - 1 \in 1..Len(s) - 1 /\ Tail(s)[k - 1] = "mark"
    BY <1>1, <1>2, <1>4, <2>1
  <2> QED
    BY <1>2, <2>2 DEF Marked
<1> QED
  BY <1>3, <1>4

\* A call at work goes on, whatever it does to its own resource.
LEMMA WorkStep ==
  ASSUME Inv, NEW i \in Ids, InProgress(i), NEW x, IsCall(x), call' = [call EXCEPT ![i] = x],
         x.pc \notin {"new", "return", "done"}, x.req = call[i].req, UNCHANGED reqs,
         ResTyped', \A k \in Ids \ {i} : res'[k] = res[k],
         IsLive(i)' => LiveAllowed(x)
  PROVE  Inv'
<1> USE DEF Inv
<1>1. call'[i] = x /\ (\A k \in Ids \ {i} : call'[k] = call[k]) /\ call' = [k \in Ids |-> call'[k]]
  BY CallPut
<1>2. Types'
  BY <1>1 DEF Types
<1>3. \A k \in Ids \ {i} : (IsLive(k)' <=> IsLive(k)) /\ (InProgress(k)' <=> InProgress(k))
  BY <1>1 DEF IsLive, InProgress
<1>4. InProgress(i)'
  BY <1>1 DEF InProgress
<1>5. LivesAllowed'
  BY <1>1, <1>3 DEF LivesAllowed
<1>6. WorkRequested'
  BY <1>1, <1>3, <1>4 DEF WorkRequested, State
<1>7. WorkAlone'
  BY <1>1, <1>3, <1>4 DEF WorkAlone
<1>8. LiveRequested'
  BY <1>1, <1>3, <1>4 DEF LiveRequested, State
<1>9. SuccessOver' /\ SucceededIsLive'
  BY <1>3 DEF SuccessOver, SucceededIsLive, State
<1>10. NoVainWait'
  BY <1>1, <1>3, <1>4 DEF NoVainWait
<1> QED
  BY <1>2, <1>5, <1>6, <1>7, <1>8, <1>9, <1>10

\* It goes on to its next step ...
LEMMA GotoStep ==
  ASSUME Inv, NEW i \in Ids, InProgress(i), NEW l, l \notin {"new", "return", "done", "cleanup"},
         l \in AsyncSteps => call[i].async,
         Goto(i, l), UNCHANGED reqs,
         ResTyped', \A k \in Ids \ {i} : res'[k] = res[k],
         IsLive(i)' => IF call[i].async THEN l \notin {"name", "accept"} ELSE l = "finish"
  PROVE  Inv'
<1>1. IsCall(call[i])
  BY DEF Inv, Types
<1>2. PICK x : x = [call[i] EXCEPT !.pc = l]
  OBVIOUS
<1>3. call' = [call EXCEPT ![i] = x]
  BY <1>2 DEF Goto
<1>4. IsCall(x) /\ x.pc = l /\ x.req = call[i].req /\ x.async = call[i].async
  BY <1>1, <1>2, PcPut
<1>5. IsLive(i)' => LiveAllowed(x)
  BY <1>1, <1>4 DEF LiveAllowed, IsCall
<1> QED
  BY <1>3, <1>4, <1>5, WorkStep

\* ... or fails.
LEMMA FailStep ==
  ASSUME Inv, NEW i \in Ids, InProgress(i), NEW s, Cleaning(s), Fail(i, s), UNCHANGED <<res, reqs>>,
         IsLive(i) => call[i].async /\ Marked(s)
  PROVE  Inv'
<1>1. IsCall(call[i]) /\ ResTyped
  BY DEF Inv, Types
<1>2. PICK x : x = [call[i] EXCEPT !.pc = "cleanup", !.todo = s]
  OBVIOUS
<1>3. call' = [call EXCEPT ![i] = x]
  BY <1>2 DEF Fail
<1>4. IsCall(x) /\ x.pc = "cleanup" /\ x.req = call[i].req /\ x.async = call[i].async /\ x.todo = s
  BY <1>1, <1>2 DEF IsCall, Fields, AsyncSteps
<1>5. IsLive(i)' => LiveAllowed(x)
  BY <1>1, <1>4 DEF LiveAllowed, IsCall, IsLive, Marked
<1> QED
  BY ResSame, <1>1, <1>3, <1>4, <1>5, WorkStep

-----------------------------------------------------------------------------
(* The steps of a create call. *)

\* What is known of a call at work, by where it is.
LEMMA AtWork ==
  ASSUME Inv, NEW i \in Ids, call[i].pc \notin {"new", "return", "done"}
  PROVE  /\ InProgress(i) /\ IsCall(call[i]) /\ ResTyped
         /\ IsLive(i) => LiveAllowed(call[i])
BY DEF Inv, Types, InProgress, LivesAllowed

\* Checking the name, accepting and starting a create.
LEMMA NameStep == ASSUME Inv, NEW i \in Ids, CheckName(i) \/ Accept(i) \/ Start(i)
                  PROVE  Inv'
<1>1. call[i].pc \in {"name", "accept", "start"}
  BY DEF CheckName, Accept, Start, At
<1>2. InProgress(i) /\ IsCall(call[i]) /\ ResTyped
      /\ (IsLive(i) => LiveAllowed(call[i]))
  BY <1>1, AtWork
<1>3. CASE CheckName(i)
  <2>1. ~IsLive(i) /\ UNCHANGED <<res, reqs>>
    BY <1>2, <1>3 DEF CheckName, At, LiveAllowed, IsCall
  <2>2. CASE NameFree(i)
    <3>1. PICK l \in {"accept", "prepare"} : Goto(i, l) /\ (l \in AsyncSteps => call[i].async)
      BY <1>2, <1>3, <2>2 DEF CheckName, AsyncSteps, IsCall
    <3>2. ~IsLive(i)'
      BY <2>1 DEF IsLive
    <3> QED
      BY ResSame, <1>2, <2>1, <3>1, <3>2, GotoStep
  <2>3. CASE ~NameFree(i)
    BY <1>2, <1>3, <2>1, <2>3, FailStep, CleanupPlans DEF CheckName
  <2> QED
    BY <2>2, <2>3
<1>4. CASE Accept(i)
  <2>1. At(i, "accept") /\ Goto(i, "accepted") /\ UNCHANGED reqs
    BY <1>4 DEF Accept
  <2>2. ResTyped' /\ \A k \in Ids \ {i} : res'[k] = res[k]
    BY <1>2, <1>4 DEF Accept, ResTyped, IsResource
  <2>3. call[i].async
    BY <1>2, <2>1 DEF IsCall, At, AsyncSteps
  <2> QED
    BY <1>2, <2>1, <2>2, <2>3, GotoStep
<1>5. CASE Start(i)
  <2>1. At(i, "start") /\ UNCHANGED <<res, reqs>>
    BY <1>5 DEF Start
  <2>2. CASE Cancelled(i)
    BY <1>2, <1>5, <2>1, <2>2, FailStep, CleanupPlans DEF Start, Cancelled
  <2>3. CASE ~Cancelled(i)
    <3>1. Goto(i, "prepare") /\ (IsLive(i)' <=> IsLive(i))
      BY <1>5, <2>1, <2>3 DEF Start, IsLive
    <3>2. IsLive(i) => call[i].async
      BY <1>2, <2>1 DEF LiveAllowed, IsCall, At
    <3> QED
      BY ResSame, <1>2, <2>1, <3>1, <3>2, GotoStep DEF AsyncSteps
  <2> QED
    BY <2>2, <2>3
<1> QED
  BY <1>3, <1>4, <1>5

\* Counting and reserving worker slots.
LEMMA WorkerStep ==
  ASSUME Inv, NEW i \in Ids,
         (\E started, ok \in BOOLEAN : Prepare(i, started, ok)) \/ CountActive(i) \/ Reserve(i)
  PROVE  Inv'
<1>1. call[i].pc \in {"prepare", "active", "reserve"} /\ UNCHANGED <<res, reqs>>
  BY DEF Prepare, CountActive, Reserve, At
<1>2. InProgress(i) /\ IsCall(call[i]) /\ ResTyped
      /\ (IsLive(i) => LiveAllowed(call[i])) /\ (IsLive(i)' <=> IsLive(i))
  BY <1>1, AtWork DEF IsLive
<1>3. IsLive(i) => call[i].async
  BY <1>1, <1>2 DEF LiveAllowed, IsCall
<1>4. ASSUME NEW s \in {<<"mark", "request">>, <<"remember", "request">>, <<"request">>}, Fail(i, s),
             call[i].async => s = <<"mark", "request">>
      PROVE  Inv'
  <2>1. Cleaning(s) /\ (call[i].async => Marked(s))
    BY <1>4, CleanupPlans
  <2> QED
    BY <1>1, <1>2, <1>3, <1>4, <2>1, FailStep
<1>5. ASSUME NEW x, IsCall(x), call' = [call EXCEPT ![i] = x], x.pc \in {"reserve", "build"},
             x.req = call[i].req, x.async = call[i].async
      PROVE  Inv'
  <2>1. IsLive(i)' => LiveAllowed(x)
    BY <1>2, <1>3, <1>5 DEF LiveAllowed
  <2> QED
    BY ResSame, <1>1, <1>2, <1>5, <2>1, WorkStep
<1>6. ASSUME NEW started \in BOOLEAN, NEW ok \in BOOLEAN, Prepare(i, started, ok)
      PROVE  Inv'
  <2>1. CASE ok
    <3>1. Goto(i, "active")
      BY <1>6, <2>1 DEF Prepare
    <3> QED
      BY ResSame, <1>1, <1>2, <1>3, <3>1, GotoStep DEF AsyncSteps
  <2>2. CASE ~ok
    <3>1. Fail(i, IF call[i].async THEN <<"mark", "request">> ELSE <<"remember", "request">>)
      BY <1>6, <2>2 DEF Prepare
    <3> QED
      BY <1>4, <3>1
  <2> QED
    BY <2>1, <2>2
<1>7. CASE CountActive(i)
  <2>1. CASE call[i].async /\ Cancelled(i)
    BY <1>4, <1>7, <2>1 DEF CountActive
  <2>2. CASE ~call[i].async /\ ~NameFree(i)
    BY <1>4, <1>7, <2>2 DEF CountActive
  <2>3. CASE ~(call[i].async /\ Cancelled(i)) /\ ~(~call[i].async /\ ~NameFree(i))
    <3>1. PICK n : n = ActiveWorkers(i)
      OBVIOUS
    <3>2. PICK x : x = [call[i] EXCEPT !.pc = "reserve", !.active = n]
      OBVIOUS
    <3>3. call' = [call EXCEPT ![i] = x]
      BY <1>7, <2>3, <3>1, <3>2 DEF CountActive
    <3>4. IsCall(x) /\ x.pc = "reserve" /\ x.req = call[i].req /\ x.async = call[i].async
      BY <1>2, <3>2 DEF IsCall, Fields, AsyncSteps
    <3> QED
      BY <1>5, <3>3, <3>4
  <2> QED
    BY <2>1, <2>2, <2>3
<1>8. CASE Reserve(i)
  <2>1. CASE call[i].active + slots >= Capacity
    <3>1. Fail(i, IF call[i].async THEN <<"mark", "request">> ELSE <<"request">>)
      BY <1>8, <2>1 DEF Reserve
    <3> QED
      BY <1>4, <3>1
  <2>2. CASE ~(call[i].active + slots >= Capacity)
    <3>1. PICK n : call' = [call EXCEPT ![i] = [call[i] EXCEPT !.pc = "build", !.got = n]]
      BY <1>8, <2>2 DEF Reserve
    <3>2. PICK x : x = [call[i] EXCEPT !.pc = "build", !.got = n]
      OBVIOUS
    <3>3. call' = [call EXCEPT ![i] = x]
      BY <3>1, <3>2
    <3>4. IsCall(x) /\ x.pc = "build" /\ x.req = call[i].req /\ x.async = call[i].async
      BY <1>2, <3>2 DEF IsCall, Fields, AsyncSteps
    <3> QED
      BY <1>5, <3>3, <3>4
  <2> QED
    BY <2>1, <2>2
<1> QED
  BY <1>6, <1>7, <1>8

\* The executor is built, an asynchronous resource is given it, and it is warmed.
LEMMA ExecutorStep ==
  ASSUME Inv, NEW i \in Ids,
         (\E ok \in BOOLEAN : Build(i, ok)) \/ Attach(i) \/ AttachRelease(i) \/ \E ok \in BOOLEAN : Warm(i, ok)
  PROVE  Inv'
<1>1. call[i].pc \in {"build", "attach", "attached", "warm"} /\ UNCHANGED reqs
  BY DEF Build, Attach, AttachRelease, Warm, At
<1>2. InProgress(i) /\ IsCall(call[i]) /\ ResTyped
      /\ (IsLive(i) => LiveAllowed(call[i]))
  BY <1>1, AtWork
<1>3. IsLive(i) => call[i].async
  BY <1>1, <1>2 DEF LiveAllowed, IsCall
<1>4. ASSUME NEW s, Cleaning(s), Fail(i, s), call[i].async => Marked(s), UNCHANGED res
      PROVE  Inv'
  BY <1>1, <1>2, <1>3, <1>4, FailStep
<1>5. ASSUME NEW l \in {"attach", "warm", "final", "insert"}, Goto(i, l), UNCHANGED res,
             l = "attach" => call[i].async
      PROVE  Inv'
  <2>1. IsLive(i)' => call[i].async
    BY <1>3, <1>5 DEF IsLive
  <2> QED
    BY ResSame, <1>1, <1>2, <1>5, <2>1, GotoStep DEF AsyncSteps
<1>6. ASSUME NEW ok \in BOOLEAN, Build(i, ok)
      PROVE  Inv'
  <2>1. CASE ok
    <3>1. PICK l \in {"attach", "warm"} : Goto(i, l) /\ (l = "attach" => call[i].async) /\ UNCHANGED res
      BY <1>6, <2>1 DEF Build
    <3> QED
      BY <1>5, <3>1
  <2>2. CASE ~ok
    <3>1. Fail(i, BuildFailure(i)) /\ UNCHANGED res
      BY <1>6, <2>2 DEF Build
    <3>2. Cleaning(BuildFailure(i)) /\ (call[i].async => Marked(BuildFailure(i)))
      BY CleanupPlans DEF BuildFailure
    <3> QED
      BY <1>4, <3>1, <3>2
  <2> QED
    BY <2>1, <2>2
<1>7. CASE Attach(i)
  <2>1. CASE Cancelled(i)
    BY <1>4, <1>7, <2>1, CleanupPlans DEF Attach
  <2>2. CASE ~Cancelled(i)
    <3>1. Goto(i, "attached") /\ call[i].async
      BY <1>2, <1>7, <2>2 DEF Attach, IsCall, AsyncSteps, At
    <3>2. ResTyped' /\ \A k \in Ids \ {i} : res'[k] = res[k]
      BY <1>2, <1>7, <2>2 DEF Attach, ResTyped, IsResource
    <3> QED
      BY <1>1, <1>2, <3>1, <3>2, GotoStep
  <2> QED
    BY <2>1, <2>2
<1>8. CASE AttachRelease(i)
  BY <1>5, <1>8 DEF AttachRelease
<1>9. ASSUME NEW ok \in BOOLEAN, Warm(i, ok)
      PROVE  Inv'
  <2>1. CASE ok
    BY <1>5, <1>9, <2>1 DEF Warm
  <2>2. CASE ~ok
    <3>1. PICK s \in {<<"stop", "mark", "request">>, <<"release", "stop", "remember", "request">>,
                      <<"release", "stop", "request">>} :
            Fail(i, s) /\ (call[i].async => s = <<"stop", "mark", "request">>) /\ UNCHANGED res
      BY <1>9, <2>2 DEF Warm
    <3>2. Cleaning(s) /\ (call[i].async => Marked(s))
      BY <3>1, CleanupPlans
    <3> QED
      BY <1>4, <3>1, <3>2
  <2> QED
    BY <2>1, <2>2
<1> QED
  BY <1>6, <1>7, <1>8, <1>9

\* The resource is there for good.
LEMMA LastStep == ASSUME Inv, NEW i \in Ids, Final(i) \/ Insert(i)
                  PROVE  Inv'
<1>1. call[i].pc \in {"final", "insert"} /\ UNCHANGED reqs
  BY DEF Final, Insert, At
<1>2. InProgress(i) /\ IsCall(call[i]) /\ ResTyped
      /\ (IsLive(i) => LiveAllowed(call[i]))
  BY <1>1, AtWork
<1>3. CASE Final(i) /\ res[i].status = "NONE"
  <2>1. ~IsLive(i) /\ Fail(i, <<"stop", "mark", "request">>) /\ UNCHANGED res
    BY <1>3 DEF Final, IsLive, Live
  <2> QED
    BY <1>1, <1>2, <2>1, FailStep, CleanupPlans
<1>4. CASE Insert(i) \/ (Final(i) /\ res[i].status # "NONE")
  <2>1. Goto(i, "finish")
    BY <1>4 DEF Final, Insert
  <2>2. ResTyped' /\ \A k \in Ids \ {i} : res'[k] = res[k]
    <3> DEFINE x == [res[i] EXCEPT !.status = "RUNNING", !.ready = TRUE]
               y == [status |-> "RUNNING", ready |-> TRUE, workers |-> call[i].got, name |-> call[i].name]
    <3>1. IsResource(x) /\ IsResource(y)
      BY <1>2 DEF ResTyped, IsResource
    <3>2. res' = [res EXCEPT ![i] = x] \/ res' = [res EXCEPT ![i] = y]
      BY <1>4 DEF Final, Insert
    <3> HIDE DEF x, y
    <3>3. \A k \in Ids : res'[k] = res[k] \/ IsResource(res'[k])
      BY <1>2, <3>1, <3>2 DEF ResTyped
    <3>4. res' = [k \in Ids |-> res'[k]] /\ \A k \in Ids \ {i} : res'[k] = res[k]
      BY <1>2, <3>2 DEF ResTyped
    <3> QED
      BY <1>2, <3>3, <3>4 DEF ResTyped
  <2> QED
    BY <1>1, <1>2, <2>1, <2>2, GotoStep DEF AsyncSteps
<1> QED
  BY <1>3, <1>4

\* The steps of a clean-up, but the last.
LEMMA CleanStep ==
  ASSUME Inv, NEW i \in Ids, CleanRelease(i) \/ CleanStop(i) \/ CleanRemember(i) \/ CleanMark(i)
  PROVE  Inv'
<1>1. At(i, "cleanup") /\ call[i].todo # <<>> /\ Head(call[i].todo) # "request" /\ Popped(i) /\ UNCHANGED reqs
  BY DEF CleanRelease, CleanStop, CleanRemember, CleanMark, Next1
<1>2. InProgress(i) /\ IsCall(call[i]) /\ ResTyped
      /\ (IsLive(i) => LiveAllowed(call[i]))
  BY <1>1, AtWork DEF At
<1>3. Cleaning(call[i].todo)
  BY <1>1, <1>2 DEF IsCall, At
<1>4. PICK s : s = Tail(call[i].todo)
  OBVIOUS
<1>5. Cleaning(s) /\ (Head(call[i].todo) # "mark" /\ Marked(call[i].todo) => Marked(s))
  BY <1>1, <1>3, <1>4, CleaningTail
<1>6. PICK x : x = [call[i] EXCEPT !.todo = s]
  OBVIOUS
<1>7. call' = [call EXCEPT ![i] = x]
  BY <1>1, <1>4, <1>6 DEF Popped
<1>8. IsCall(x) /\ x.pc = "cleanup" /\ x.req = call[i].req /\ x.async = call[i].async /\ x.todo = s
  BY <1>1, <1>2, <1>5, <1>6 DEF IsCall, Fields, AsyncSteps, At
<1>9. ResTyped' /\ \A k \in Ids \ {i} : res'[k] = res[k]
  BY <1>2 DEF CleanRelease, CleanStop, CleanRemember, CleanMark, Absent, ResTyped, IsResource
<1>10. IsLive(i)' => LiveAllowed(x)
  <2>1. CASE CleanRelease(i) \/ CleanStop(i)
    <3>1. UNCHANGED res /\ Head(call[i].todo) # "mark"
      BY <2>1 DEF CleanRelease, CleanStop, Next1
    <3>2. IsLive(i) => call[i].async /\ Marked(call[i].todo)
      BY <1>1, <1>2 DEF LiveAllowed, Marked, At, IsCall
    <3> QED
      BY <1>5, <1>8, <3>1, <3>2 DEF LiveAllowed, IsLive, Marked
  <2>2. CASE CleanRemember(i)
    <3>1. res'[i] = [Absent EXCEPT !.status = "STOPPED", !.name = call[i].name, !.workers = call[i].want]
      BY <1>2, <2>2 DEF CleanRemember, ResTyped
    <3> QED
      BY <3>1 DEF IsLive, Live, Absent
  <2>3. CASE CleanMark(i)
    <3>1. CASE res[i].status = "NONE"
      BY <2>3, <3>1 DEF CleanMark, IsLive, Live
    <3>2. CASE res[i].status # "NONE"
      <4>1. res'[i] = [res[i] EXCEPT !.status = "STOPPED", !.ready = FALSE]
        BY <1>2, <2>3, <3>2 DEF CleanMark, ResTyped
      <4> QED
        BY <1>2, <4>1 DEF IsLive, Live, ResTyped, IsResource
    <3> QED
      BY <3>1, <3>2
  <2> QED
    BY <2>1, <2>2, <2>3
<1> QED
  BY <1>1, <1>2, <1>7, <1>8, <1>9, <1>10, WorkStep

-----------------------------------------------------------------------------
(* The steps that touch the table of create requests. *)

\* _prune_create_requests_locked only drops successes of resources that are gone.
LEMMA PrunedFacts ==
  ASSUME NEW q \in [Reqs -> {None} \cup Request]
  PROVE  /\ Pruned(q) \in [Reqs -> {None} \cup Request]
         /\ \A r \in Reqs : Pruned(q)[r] = q[r]
              \/ (q[r].st = "SUCCEEDED" /\ ~IsLive(q[r].id) /\ Pruned(q)[r] = None)
         /\ \A r \in Reqs : Pruned(q)[r] # None /\ Pruned(q)[r].st = "SUCCEEDED" => IsLive(Pruned(q)[r].id)
BY DEF Pruned

\* A call at work writes the outcome of its own request.
LEMMA TableStep ==
  ASSUME Inv, NEW i \in Ids, InProgress(i), NEW x, IsCall(x), call' = [call EXCEPT ![i] = x],
         x.req = call[i].req, UNCHANGED res, NEW rec \in Request, SetReq(call[i].req, rec),
         \/ rec.st = "CREATING" /\ x.pc \notin {"new", "return", "done"}
         \/ rec.st = "SUCCEEDED" /\ rec.id = i /\ x.pc \in {"return", "done"}
         \/ rec.st = "FAILED" /\ x.pc = "done" /\ ~IsLive(i),
         IsLive(i) => LiveAllowed(x)
  PROVE  Inv'
<1> USE DEF Inv
<1>1. call'[i] = x /\ (\A k \in Ids \ {i} : call'[k] = call[k]) /\ call' = [k \in Ids |-> call'[k]]
  BY CallPut
<1>2. reqs \in [Reqs -> {None} \cup Request] /\ call[i].req \in Reqs \cup {None}
  BY DEF Types, IsCall
<1>3. \A k \in Ids : IsLive(k)' <=> IsLive(k)
  BY DEF IsLive
<1>4. \A k \in Ids \ {i} : InProgress(k)' <=> InProgress(k)
  BY <1>1 DEF InProgress
<1>5. InProgress(i)' <=> rec.st = "CREATING"
  BY <1>1 DEF InProgress
<1>6. LivesAllowed'
  BY <1>1, <1>3 DEF LivesAllowed
<1>7. WorkAlone'
  BY <1>1, <1>4 DEF WorkAlone
<1>8. CASE call[i].req = None
  <2>1. UNCHANGED reqs /\ None \notin Reqs
    BY <1>8, NodeCreateAssumption DEF SetReq
  <2>2. Types'
    BY ResSame, <1>1, <2>1 DEF Types
  <2>3. WorkRequested'
    BY <1>1, <1>4, <1>8, <2>1 DEF WorkRequested, State
  <2>4. LiveRequested'
    BY <1>1, <1>3, <1>4, <1>8, <2>1 DEF LiveRequested, State
  <2>5. SuccessOver' /\ SucceededIsLive'
    BY <1>3, <1>4, <2>1 DEF SuccessOver, SucceededIsLive, State
  <2>6. NoVainWait'
    <3> SUFFICES ASSUME NEW r \in Reqs, reqs[r] # None, reqs[r].st = "CREATING"
                 PROVE  \E k \in Ids : call'[k].req = r /\ InProgress(k)'
      BY <2>1 DEF NoVainWait
    <3>1. PICK k \in Ids : call[k].req = r /\ InProgress(k)
      BY DEF NoVainWait
    <3> QED
      BY <1>1, <1>4, <1>8, <2>1, <3>1
  <2> QED
    BY <1>6, <1>7, <2>2, <2>3, <2>4, <2>5, <2>6
<1>9. CASE call[i].req # None
  <2>0. PICK r \in Reqs : r = call[i].req
    BY <1>2, <1>9
  <2>1. PICK q \in [Reqs -> {None} \cup Request] :
          q = [reqs EXCEPT ![r] = rec] /\ reqs' = Pruned(q)
    BY <1>2, <1>9, <2>0 DEF SetReq
  <2>2. q[r] = rec /\ \A u \in Reqs \ {r} : q[u] = reqs[u]
    BY <1>2, <2>1
  <2>3. rec # None /\ State(r, "CREATING")
    BY <1>9, <2>0, NodeCreateAssumption DEF WorkRequested
  <2>4. /\ reqs' \in [Reqs -> {None} \cup Request]
        /\ \A u \in Reqs : reqs'[u] = q[u]
              \/ (q[u].st = "SUCCEEDED" /\ ~IsLive(q[u].id) /\ reqs'[u] = None)
        /\ \A u \in Reqs : reqs'[u] # None /\ reqs'[u].st = "SUCCEEDED" => IsLive(reqs'[u].id)
    BY <2>1, PrunedFacts
  <2>5. \A k \in Ids \ {i} : InProgress(k) => call[k].req # r
    BY <1>9, <2>0 DEF WorkAlone
  <2>6. \A k \in Ids : call[k].req \in Reqs \cup {None}
    BY DEF Types, IsCall
  <2>7. Types'
    BY ResSame, <1>1, <2>4 DEF Types
  <2>8. WorkRequested'
    <3> SUFFICES ASSUME NEW k \in Ids, InProgress(k)', call'[k].req # None
                 PROVE  reqs'[call'[k].req] # None /\ reqs'[call'[k].req].st = "CREATING"
      BY DEF WorkRequested, State
    <3>1. CASE k = i
      BY <1>1, <1>5, <2>0, <2>2, <2>3, <2>4, <3>1 DEF State
    <3>2. CASE k # i
      <4>1. call[k].req \in Reqs \ {r} /\ State(call[k].req, "CREATING") /\ call'[k].req = call[k].req
        BY <1>1, <1>4, <2>5, <2>6, <3>2 DEF WorkRequested
      <4> QED
        BY <2>2, <2>4, <4>1 DEF State
    <3> QED
      BY <3>1, <3>2
  <2>9. LiveRequested'
    <3> SUFFICES ASSUME NEW k \in Ids, IsLive(k), ~InProgress(k)', call'[k].req # None
                 PROVE  /\ reqs'[call'[k].req] # None /\ reqs'[call'[k].req].st = "SUCCEEDED"
                        /\ reqs'[call'[k].req].id = k
      BY <1>3 DEF LiveRequested, State
    <3>1. CASE k = i
      BY <1>1, <1>5, <2>0, <2>2, <2>3, <2>4, <3>1 DEF State
    <3>2. CASE k # i
      <4>1. /\ State(call[k].req, "SUCCEEDED") /\ reqs[call[k].req].id = k
            /\ call[k].req \in Reqs \ {r} /\ call'[k].req = call[k].req
        BY <1>1, <1>4, <2>3, <2>6, <3>2 DEF LiveRequested, State
      <4> QED
        BY <2>2, <2>4, <4>1 DEF State
    <3> QED
      BY <3>1, <3>2
  <2>10. SuccessOver'
    <3> SUFFICES ASSUME NEW u \in Reqs, State(u, "SUCCEEDED")'
                 PROVE  reqs'[u].id \in Ids /\ \A k \in Ids : k = reqs'[u].id => ~InProgress(k)'
      BY DEF SuccessOver
    <3>1. reqs'[u] = q[u]
      BY <2>4 DEF State
    <3>2. CASE u = r
      BY <1>5, <2>2, <3>1, <3>2 DEF State
    <3>3. CASE u # r
      <4>1. reqs[u].id \in Ids /\ ~InProgress(reqs[u].id) /\ reqs'[u] = reqs[u]
        BY <2>2, <3>1, <3>3 DEF State, SuccessOver
      <4>2. reqs[u].id # i
        BY <4>1
      <4> QED
        BY <1>4, <4>1, <4>2
    <3> QED
      BY <3>2, <3>3
  <2>11. SucceededIsLive'
    BY <1>3, <2>4, <2>10 DEF SucceededIsLive, SuccessOver, State
  <2>12. NoVainWait'
    <3> SUFFICES ASSUME NEW u \in Reqs, reqs'[u] # None, reqs'[u].st = "CREATING"
                 PROVE  \E k \in Ids : call'[k].req = u /\ InProgress(k)'
      BY DEF NoVainWait
    <3>1. reqs'[u] = q[u]
      BY <2>4
    <3>2. CASE u = r
      BY <1>1, <1>5, <2>0, <2>2, <3>1, <3>2
    <3>3. CASE u # r
      <4>1. PICK k \in Ids : call[k].req = u /\ InProgress(k)
        BY <2>2, <3>1, <3>3 DEF NoVainWait
      <4> QED
        BY <1>1, <1>4, <2>0, <3>3, <4>1
    <3> QED
      BY <3>2, <3>3
  <2> QED
    BY <1>6, <1>7, <2>7, <2>8, <2>9, <2>10, <2>11, <2>12
<1> QED
  BY <1>8, <1>9

\* A resource that was accepted, a create that has ended, one that has failed.
LEMMA RequestStep ==
  ASSUME Inv, NEW i \in Ids, AcceptRequest(i) \/ Finish(i) \/ CleanRequest(i)
  PROVE  Inv'
<1>1. call[i].pc \in {"accepted", "finish", "cleanup"} /\ UNCHANGED res
  BY DEF AcceptRequest, Finish, CleanRequest, Next1, At
<1>2. InProgress(i) /\ IsCall(call[i]) /\ (IsLive(i) => LiveAllowed(call[i]))
  BY <1>1, AtWork
<1>3. reqs \in [Reqs -> {None} \cup Request] /\ call[i].req \in Reqs \cup {None}
  BY <1>2 DEF Inv, Types, IsCall
<1>4. CASE AcceptRequest(i)
  <2>1. call[i].pc = "accepted" /\ call[i].async
    BY <1>2, <1>4 DEF AcceptRequest, At, IsCall, AsyncSteps
  <2>2. PICK x : x = [call[i] EXCEPT !.pc = "start"]
    OBVIOUS
  <2>3. IsCall(x) /\ x.pc = "start" /\ x.req = call[i].req /\ x.async = call[i].async
    BY <1>2, <2>1, <2>2 DEF IsCall, Fields, AsyncSteps
  <2>4. call' = [call EXCEPT ![i] = x]
    BY <1>4, <2>2 DEF AcceptRequest, Goto
  <2>5. PICK rec \in Request : rec = [st |-> "CREATING", id |-> i]
    BY DEF Request
  <2>6. SetReq(call[i].req, rec) /\ rec.st = "CREATING"
    BY <1>4, <2>5 DEF AcceptRequest
  <2>7. LiveAllowed(x)
    BY <2>1, <2>3 DEF LiveAllowed
  <2> QED
    BY <1>1, <1>2, <2>3, <2>4, <2>6, <2>7, TableStep
<1>5. CASE Finish(i)
  <2>1. PICK l \in {"return", "done"} : Goto(i, l)
    BY <1>5 DEF Finish
  <2>2. PICK x : x = [call[i] EXCEPT !.pc = l]
    OBVIOUS
  <2>3. IsCall(x) /\ x.pc = l /\ x.req = call[i].req /\ x.async = call[i].async
    BY <1>2, <2>1, <2>2, PcPut DEF AsyncSteps
  <2>4. call' = [call EXCEPT ![i] = x]
    BY <2>1, <2>2 DEF Goto
  <2>5. PICK rec \in Request : rec = [st |-> "SUCCEEDED", id |-> i]
    BY DEF Request
  <2>6. SetReq(call[i].req, rec) /\ rec.st = "SUCCEEDED" /\ rec.id = i
    BY <1>5, <2>5 DEF Finish
  <2>7. LiveAllowed(x)
    BY <1>2, <2>1, <2>3 DEF LiveAllowed, IsCall
  <2> QED
    BY <1>1, <1>2, <2>1, <2>3, <2>4, <2>6, <2>7, TableStep
<1>6. CASE CleanRequest(i)
  <2>1. call[i].pc = "cleanup" /\ call[i].todo # <<>> /\ Head(call[i].todo) = "request" /\ Goto(i, "done")
    BY <1>6 DEF CleanRequest, Next1, At
  <2>2. PICK x : x = [call[i] EXCEPT !.pc = "done"]
    OBVIOUS
  <2>3. IsCall(x) /\ x.pc = "done" /\ x.req = call[i].req /\ x.async = call[i].async
    BY <1>2, <2>2, PcPut DEF AsyncSteps
  <2>4. call' = [call EXCEPT ![i] = x]
    BY <2>1, <2>2 DEF Goto
  <2>5. ~IsLive(i)
    <3>1. Cleaning(call[i].todo)
      BY <1>2, <2>1 DEF IsCall
    <3>2. call[i].todo[1] = "request" /\ 1 \in 1..Len(call[i].todo)
      BY <2>1, <3>1 DEF Cleaning
    <3>4. Len(call[i].todo) = 1
      BY <3>1, <3>2 DEF Cleaning
    <3>3. ~Marked(call[i].todo)
      BY <3>2, <3>4 DEF Marked
    <3> QED
      BY <1>2, <2>1, <3>3 DEF LiveAllowed, Marked
  <2>6. CASE call[i].req = None
    <3>1. PICK rec \in Request : rec = [st |-> "FAILED", id |-> None]
      BY DEF Request
    <3>2. SetReq(call[i].req, rec) /\ rec.st = "FAILED"
      BY <1>6, <2>6, <3>1 DEF CleanRequest, SetReq
    <3> QED
      BY <1>1, <1>2, <2>3, <2>4, <2>5, <3>2, TableStep
  <2>7. CASE call[i].req # None
    <3>1. PICK r \in Reqs : r = call[i].req
      BY <1>3, <2>7
    <3>2. reqs[r] \in Request /\ reqs[r] # None /\ reqs[r].st = "CREATING"
      BY <1>2, <1>3, <2>7, <3>1 DEF Inv, WorkRequested, State
    <3>3. PICK rec : rec = [reqs[r] EXCEPT !.st = "FAILED"]
      OBVIOUS
    <3>4. rec \in Request /\ rec.st = "FAILED"
      BY <3>2, <3>3 DEF Request
    <3>5. SetReq(call[i].req, rec)
      BY <1>6, <2>7, <3>1, <3>2, <3>3 DEF CleanRequest, SetReq
    <3> QED
      BY <1>1, <1>2, <2>3, <2>4, <2>5, <3>4, <3>5, TableStep
  <2> QED
    BY <2>6, <2>7
<1> QED
  BY <1>4, <1>5, <1>6

\* The call is over.
LEMMA ReturnStep == ASSUME Inv, NEW i \in Ids, Return(i)
                    PROVE  Inv'
<1> USE DEF Inv
<1>1. call[i].pc = "return" /\ Goto(i, "done") /\ UNCHANGED <<res, reqs>> /\ IsCall(call[i])
  BY DEF Return, At, Types
<1>2. PICK x : x = [call[i] EXCEPT !.pc = "done"]
  OBVIOUS
<1>3. IsCall(x) /\ x.pc = "done" /\ x.req = call[i].req /\ x.async = call[i].async
  BY <1>1, <1>2, PcPut DEF AsyncSteps
<1>4. call' = [call EXCEPT ![i] = x]
  BY <1>1, <1>2 DEF Goto
<1>5. call'[i] = x /\ (\A k \in Ids \ {i} : call'[k] = call[k]) /\ call' = [k \in Ids |-> call'[k]]
  BY <1>4, CallPut
<1>6. \A k \in Ids : (IsLive(k)' <=> IsLive(k)) /\ (InProgress(k)' <=> InProgress(k)) /\ call'[k].req = call[k].req
  BY <1>1, <1>3, <1>5 DEF IsLive, InProgress
<1>7. Types'
  BY ResSame, <1>1, <1>3, <1>5 DEF Types
<1>8. LivesAllowed'
  BY <1>1, <1>3, <1>5, <1>6 DEF LivesAllowed, LiveAllowed, IsCall
<1>9. WorkRequested' /\ WorkAlone' /\ LiveRequested'
  BY <1>1, <1>6 DEF WorkRequested, WorkAlone, LiveRequested, State
<1>10. SuccessOver' /\ NoVainWait' /\ SucceededIsLive'
  BY <1>1, <1>6 DEF SuccessOver, NoVainWait, SucceededIsLive, State
<1> QED
  BY <1>7, <1>8, <1>9, <1>10

\* A call finds no record of its request, and makes it.
LEMMA BeginStep ==
  ASSUME Inv, NEW i \in Ids, NEW r \in Reqs \cup {None}, NEW n \in Names, NEW w \in Wants,
         NEW async \in BOOLEAN, NEW g \in BOOLEAN, Begin(i, r, n, w, async, g)
  PROVE  Inv'
<1> USE DEF Inv
<1>1. PICK x : x = [NewCall EXCEPT !.pc = "name", !.async = async, !.req = r, !.name = n, !.want = w,
                                   !.globals = g]
  OBVIOUS
<1>2. /\ call[i].pc = "new" /\ call' = [call EXCEPT ![i] = x] /\ UNCHANGED res
      /\ r # None => Pruned(reqs)[r] = None
  BY <1>1 DEF Begin, At
<1>3. IsCall(x) /\ x.pc = "name" /\ x.req = r
  BY <1>1 DEF IsCall, Fields, NewCall, AsyncSteps
<1>4. call'[i] = x /\ (\A k \in Ids \ {i} : call'[k] = call[k]) /\ call' = [k \in Ids |-> call'[k]]
  BY <1>2, CallPut
<1>5. ~IsLive(i) /\ ~InProgress(i) /\ InProgress(i)'
  BY <1>2, <1>3, <1>4 DEF LivesAllowed, LiveAllowed, InProgress, Types, IsCall
<1>6. \A k \in Ids : IsLive(k)' <=> IsLive(k)
  BY <1>2 DEF IsLive
<1>7. \A k \in Ids \ {i} : (InProgress(k)' <=> InProgress(k)) /\ call'[k].req = call[k].req
                           /\ call[k].req \in Reqs \cup {None}
  BY <1>4 DEF InProgress, Types, IsCall
<1>8. reqs \in [Reqs -> {None} \cup Request] /\ None \notin Reqs /\ None \notin Request
  BY NodeCreateAssumption DEF Types
\* What the table says of the other requests that are CREATING, or of live resources, stays.
<1>9. /\ reqs' \in [Reqs -> {None} \cup Request]
      /\ \A u \in Reqs : u = r => reqs'[u] # None /\ reqs'[u].st = "CREATING"
      /\ \A u \in Reqs \ {r} : reqs'[u] = reqs[u]
           \/ (reqs[u].st = "SUCCEEDED" /\ ~IsLive(reqs[u].id) /\ reqs'[u] = None)
      /\ \A u \in Reqs : u = r =>
           reqs[u] = None \/ (reqs[u].st = "SUCCEEDED" /\ ~IsLive(reqs[u].id))
  <2>1. CASE r = None
    <3>1. reqs' = reqs
      BY <2>1 DEF Begin
    <3> QED
      BY <1>8, <2>1, <3>1
  <2>2. CASE r # None
    <3>1. PICK q : q = Pruned(reqs)
      OBVIOUS
    <3>2. PICK rec \in Request : rec = [st |-> "CREATING", id |-> None]
      BY DEF Request
    <3>3. reqs' = [q EXCEPT ![r] = rec] /\ r \in Reqs
      BY <2>2, <3>1, <3>2 DEF Begin
    <3>4. /\ q \in [Reqs -> {None} \cup Request]
          /\ \A u \in Reqs : q[u] = reqs[u]
               \/ (reqs[u].st = "SUCCEEDED" /\ ~IsLive(reqs[u].id) /\ q[u] = None)
      BY <1>8, <3>1, PrunedFacts
    <3>5. q[r] = None
      BY <1>2, <2>2, <3>1
    <3>6. rec.st = "CREATING" /\ rec # None
      BY <1>8, <3>2
    <3> QED
      BY <3>3, <3>4, <3>5, <3>6
  <2> QED
    BY <2>1, <2>2
<1>10. Types'
  BY ResSame, <1>2, <1>3, <1>4, <1>9 DEF Types
<1>11. LivesAllowed'
  BY <1>4, <1>5, <1>6 DEF LivesAllowed
<1>12. \A k \in Ids \ {i} : InProgress(k) /\ call[k].req # None =>
         /\ call[k].req \in Reqs \ {r} /\ reqs[call[k].req] # None
         /\ reqs[call[k].req].st = "CREATING" /\ reqs'[call[k].req] = reqs[call[k].req]
  <2> SUFFICES ASSUME NEW k \in Ids \ {i}, InProgress(k), call[k].req # None
               PROVE  /\ call[k].req \in Reqs \ {r} /\ reqs[call[k].req] # None
                      /\ reqs[call[k].req].st = "CREATING" /\ reqs'[call[k].req] = reqs[call[k].req]
    OBVIOUS
  <2>1. State(call[k].req, "CREATING") /\ call[k].req \in Reqs
    BY <1>7 DEF WorkRequested
  <2> QED
    BY <1>9, <2>1 DEF State
<1>13. WorkRequested'
  <2> SUFFICES ASSUME NEW k \in Ids, InProgress(k)', call'[k].req # None
               PROVE  reqs'[call'[k].req] # None /\ reqs'[call'[k].req].st = "CREATING"
    BY DEF WorkRequested, State
  <2> QED
    BY <1>3, <1>4, <1>7, <1>9, <1>12
<1>14. WorkAlone'
  <2>1. \A k \in Ids \ {i} : InProgress(k)' /\ call'[k].req # None => call'[k].req # r
    BY <1>7, <1>12
  <2> QED
    BY <1>3, <1>4, <1>7, <2>1 DEF WorkAlone
<1>15. LiveRequested'
  <2> SUFFICES ASSUME NEW k \in Ids, IsLive(k), ~InProgress(k)', call'[k].req # None
               PROVE  /\ reqs'[call'[k].req] # None /\ reqs'[call'[k].req].st = "SUCCEEDED"
                      /\ reqs'[call'[k].req].id = k
    BY <1>6 DEF LiveRequested, State
  <2>1. k # i /\ State(call[k].req, "SUCCEEDED") /\ reqs[call[k].req].id = k /\ call[k].req \in Reqs
    BY <1>5, <1>7 DEF LiveRequested
  <2> QED
    BY <1>7, <1>9, <2>1 DEF State
<1>16. SuccessOver' /\ SucceededIsLive'
  <2> SUFFICES ASSUME NEW u \in Reqs, reqs'[u] # None, reqs'[u].st = "SUCCEEDED"
               PROVE  /\ reqs'[u].id \in Ids /\ IsLive(reqs[u].id) /\ reqs'[u] = reqs[u]
                      /\ \A k \in Ids : k = reqs'[u].id => ~InProgress(k)'
    BY <1>6 DEF SuccessOver, SucceededIsLive, State
  <2>1. u # r /\ reqs'[u] = reqs[u] /\ State(u, "SUCCEEDED")
    BY <1>9 DEF State
  <2>2. reqs[u].id \in Ids /\ ~InProgress(reqs[u].id) /\ IsLive(reqs[u].id)
    BY <2>1 DEF SuccessOver, SucceededIsLive, State
  <2> QED
    BY <1>5, <1>7, <2>1, <2>2
<1>17. NoVainWait'
  <2> SUFFICES ASSUME NEW u \in Reqs, reqs'[u] # None, reqs'[u].st = "CREATING"
               PROVE  \E k \in Ids : call'[k].req = u /\ InProgress(k)'
    BY DEF NoVainWait
  <2>1. CASE u = r
    BY <1>3, <1>4, <1>5, <2>1
  <2>2. CASE u # r
    <3>1. PICK k \in Ids : call[k].req = u /\ InProgress(k)
      BY <1>9, <2>2 DEF NoVainWait
    <3> QED
      BY <1>5, <1>7, <3>1
  <2> QED
    BY <2>1, <2>2
<1> QED
  BY <1>10, <1>11, <1>13, <1>14, <1>15, <1>16, <1>17

\* What a step that only forgets requests, and stops resources, leaves true.
LEMMA DropStep ==
  ASSUME Inv, UNCHANGED call, ResTyped',
         reqs' \in [Reqs -> {None} \cup Request],
         \A k \in Ids : IsLive(k)' => IsLive(k),
         \A u \in Reqs : reqs'[u] = reqs[u] \/ reqs'[u] = None,
         \A u \in Reqs : reqs'[u] = None /\ reqs[u] # None =>
           reqs[u].st = "SUCCEEDED" /\ \A k \in Ids : k = reqs[u].id => ~IsLive(k)',
         \A u \in Reqs, k \in Ids : reqs'[u] # None /\ reqs[u].st = "SUCCEEDED" /\ reqs[u].id = k
                                      /\ IsLive(k) => IsLive(k)'
  PROVE  Inv'
<1> USE DEF Inv
<1>1. \A k \in Ids : (InProgress(k)' <=> InProgress(k)) /\ call'[k] = call[k]
                     /\ call[k].req \in Reqs \cup {None}
  BY DEF InProgress, Types, IsCall
<1>2. Types'
  BY DEF Types
<1>3. LivesAllowed' /\ WorkAlone'
  BY <1>1 DEF LivesAllowed, WorkAlone
<1>4. WorkRequested'
  BY <1>1 DEF WorkRequested, State
<1>5. LiveRequested'
  BY <1>1 DEF LiveRequested, State
<1>6. SuccessOver' /\ NoVainWait'
  BY <1>1 DEF SuccessOver, NoVainWait, State
<1>7. SucceededIsLive'
  <2> SUFFICES ASSUME NEW u \in Reqs, reqs'[u] # None, reqs'[u].st = "SUCCEEDED"
               PROVE  \A k \in Ids : k = reqs'[u].id => IsLive(k)'
    BY <1>6 DEF SucceededIsLive, SuccessOver, State
  <2>1. reqs'[u] = reqs[u] /\ reqs[u].id \in Ids /\ IsLive(reqs[u].id)
    BY DEF SuccessOver, SucceededIsLive, State
  <2> QED
    BY <2>1
<1> QED
  BY <1>2, <1>3, <1>4, <1>5, <1>6, <1>7

\* Stops, retries, and what is forgotten.
LEMMA StopStep ==
  ASSUME Inv,
         (\E i \in Ids : Stop(i) \/ StopHost(i) \/ Forget(i)) \/ (\E r \in Reqs : Retry(r)) \/ UNCHANGED vars
  PROVE  Inv'
<1>1. reqs \in [Reqs -> {None} \cup Request] /\ ResTyped
  BY DEF Inv, Types
<1>2. ASSUME NEW i \in Ids, Stop(i)
      PROVE  Inv'
  <2>1. res' = [res EXCEPT ![i] = [res[i] EXCEPT !.status = "STOPPED", !.ready = FALSE]]
        /\ UNCHANGED call
    BY <1>2 DEF Stop
  <2>2. ResTyped' /\ res'[i].status = "STOPPED" /\ \A k \in Ids \ {i} : res'[k] = res[k]
    <3>1. res'[i] = [res[i] EXCEPT !.status = "STOPPED", !.ready = FALSE]
      BY <1>1, <2>1 DEF ResTyped
    <3>2. IsResource(res[i])
      BY <1>1 DEF ResTyped
    <3>3. IsResource(res'[i]) /\ res'[i].status = "STOPPED"
      BY <3>1, <3>2 DEF IsResource
    <3>4. (\A k \in Ids \ {i} : res'[k] = res[k]) /\ res' = [k \in Ids |-> res'[k]]
      BY <1>1, <2>1 DEF ResTyped
    <3> QED
      BY <1>1, <3>3, <3>4 DEF ResTyped
  <2>3. reqs' = [r \in Reqs |-> IF reqs[r] # None /\ reqs[r].st = "SUCCEEDED" /\ reqs[r].id = i
                                  THEN None ELSE reqs[r]]
    BY <1>2 DEF Stop
  <2>4. ~IsLive(i)' /\ \A k \in Ids \ {i} : IsLive(k)' <=> IsLive(k)
    BY <2>2 DEF IsLive, Live
  <2> QED
    BY <1>1, <2>1, <2>2, <2>3, <2>4, DropStep
<1>3. ASSUME NEW i \in Ids, Forget(i)
      PROVE  Inv'
  <2>1. res' = [res EXCEPT ![i] = Absent] /\ UNCHANGED <<reqs, call>>
    BY <1>3 DEF Forget
  <2>2. ResTyped' /\ res'[i] = Absent /\ \A k \in Ids \ {i} : res'[k] = res[k]
    BY <1>1, <2>1 DEF ResTyped, IsResource, Absent
  <2>3. ~IsLive(i)' /\ ~IsLive(i) /\ \A k \in Ids \ {i} : IsLive(k)' <=> IsLive(k)
    BY <1>3, <2>2 DEF IsLive, Live, Absent, Forget
  <2> QED
    BY <1>1, <2>1, <2>2, <2>3, DropStep
<1>4. CASE (\E i \in Ids : StopHost(i)) \/ UNCHANGED vars
  <2>1. UNCHANGED <<res, reqs, call>>
    BY <1>4 DEF StopHost, vars
  <2> QED
    BY ResSame, <1>1, <2>1, DropStep DEF IsLive
<1>5. ASSUME NEW r \in Reqs, Retry(r)
      PROVE  Inv'
  <2>1. reqs' = Pruned(reqs) /\ UNCHANGED <<res, call>>
    BY <1>5 DEF Retry
  <2>2. /\ reqs' \in [Reqs -> {None} \cup Request]
        /\ \A u \in Reqs : reqs'[u] = reqs[u]
             \/ (reqs[u].st = "SUCCEEDED" /\ ~IsLive(reqs[u].id) /\ reqs'[u] = None)
    BY <1>1, <2>1, PrunedFacts
  <2>3. \A k \in Ids : IsLive(k)' <=> IsLive(k)
    BY <2>1 DEF IsLive
  <2> QED
    BY ResSame, <1>1, <2>1, <2>2, <2>3, DropStep
<1> QED
  BY <1>2, <1>3, <1>4, <1>5

-----------------------------------------------------------------------------
\* The invariant holds at the start.
LEMMA InitInv == Init => Inv
<1> SUFFICES ASSUME Init
             PROVE  Inv
  OBVIOUS
<1> USE DEF Init
<1>1. \A i \in Ids : call[i] = NewCall /\ ~IsLive(i) /\ ~InProgress(i)
  BY DEF NewCall, Absent, IsLive, Live, InProgress
<1>2. IsCall(NewCall)
  BY DEF IsCall, NewCall, Fields, AsyncSteps
<1>3. Types
  BY <1>1, <1>2 DEF Types, ResTyped, IsResource, Absent
<1> QED
  BY <1>1, <1>3 DEF Inv, LivesAllowed, WorkRequested, WorkAlone, LiveRequested, SuccessOver,
                    NoVainWait, SucceededIsLive, State

\* Every step keeps the invariant.
LEMMA StepInv == Inv /\ [Next]_vars => Inv'
<1> SUFFICES ASSUME Inv, [Next]_vars
             PROVE  Inv'
  OBVIOUS
<1>1. CASE \E i \in Ids : CallStep(i)
  BY <1>1, NameStep, WorkerStep, ExecutorStep, LastStep, CleanStep, RequestStep, ReturnStep DEF CallStep
<1>2. CASE \E i \in Ids, r \in Reqs \cup {None}, n \in Names, w \in Wants, async, g \in BOOLEAN :
             Begin(i, r, n, w, async, g)
  BY <1>2, BeginStep
<1>3. CASE (\E i \in Ids : Stop(i) \/ StopHost(i) \/ Forget(i)) \/ (\E r \in Reqs : Retry(r)) \/ UNCHANGED vars
  BY <1>3, StopStep
<1> QED
  BY <1>1, <1>2, <1>3 DEF Next

\* The inductive invariant of the creates (calls, resources and requests together)
\* is an invariant.
THEOREM Invariant == Spec => []Inv
BY InitInv, StepInv, PTL DEF Spec

\* Two creates with one create_request_id are never both at work, and none is at
\* work while the resource of the other is live, whatever fails and however late
\* the owner stops it (_begin_create_request_locked).
THEOREM OneResourcePerRequest == Spec => []IdempotentCreate
<1>1. Inv => IdempotentCreate
  <2> SUFFICES ASSUME Inv, NEW i \in Ids, NEW k \in Ids, i # k, call[i].req = call[k].req,
                      call[i].req # None, InProgress(i)
               PROVE  ~(InProgress(k) \/ IsLive(k))
    BY DEF IdempotentCreate
  <2>1. ~InProgress(k)
    BY DEF Inv, WorkAlone
  <2>2. State(call[i].req, "CREATING")
    BY DEF Inv, WorkRequested
  <2> QED
    BY <2>1, <2>2 DEF Inv, LiveRequested, State
<1> QED
  BY <1>1, Invariant, PTL

\* A call that waits for a CREATING request waits for a call at work, and a
\* request that has SUCCEEDED names a resource that is live
\* (_wait_for_create_request_result).
THEOREM TableTellsTruth == Spec => []RequestsTrue
<1>1. Inv => RequestsTrue
  BY DEF Inv, RequestsTrue
<1> QED
  BY <1>1, Invariant, PTL

-----------------------------------------------------------------------------
(* The reserved worker slots.  The invariant relates their number to a sum  *)
(* over the calls, which changes with one call at a time.                   *)

\* A call holds its reservation, by the step it is at (Holding).
HeldAt(l, async) ==
  l \in {"build", "attach", "attached", "insert", "return"} \/ (~async /\ l \in {"warm", "finish"})
Freed(todo) == \E k \in DOMAIN todo : todo[k] = "release"
Held(x) == HeldAt(x.pc, x.async) \/ (x.pc = "cleanup" /\ Freed(x.todo))
Due(x)  == IF Held(x) THEN x.got ELSE 0

\* A call, as far as worker slots go by it.
Counted(x) ==
  /\ x.got \in 0..Capacity /\ x.want \in Nat /\ x.active \in Nat
  /\ x.pc = "cleanup" <=> x.pc # "done" /\ x.todo # <<>>
  /\ \A k \in DOMAIN x.todo : x.todo[k] \in Steps
  /\ x.pc = "insert" => ~x.async

ResCounted ==
  \A i \in Ids : /\ res[i].status \in {"NONE", "STARTING", "RUNNING", "STOPPED"}
                 /\ res[i].ready => res[i].status = "RUNNING"
                 /\ res[i].workers \in Nat

Hosts == host \subseteq Ids /\ stopq \subseteq Ids

Accounts ==
  /\ \A i \in Ids : Counted(call[i])
  /\ slots \in Nat /\ slots <= SumFunctionOnSet([i \in Ids |-> Due(call[i])], Ids)

SlotInv == Inv /\ ResCounted /\ Hosts /\ Accounts

\* What a call owes is between 0 and what it has reserved.
LEMMA DueBound ==
  ASSUME NEW x, Counted(x)
  PROVE  Due(x) \in Nat /\ x.got \in Nat /\ Due(x) <= x.got /\ Due(x) >= 0
BY NodeCreateAssumption DEF Counted, Due

\* The accounts stay right when one call changes, and the slots with it.
LEMMA AccountStep ==
  ASSUME SlotInv, NEW i \in Ids, NEW x, Counted(x), call' = [call EXCEPT ![i] = x],
         slots' \in Nat, slots' = 0 \/ slots' - slots <= Due(x) - Due(call[i])
  PROVE  Accounts'
<1>1. call'[i] = x /\ \A k \in Ids \ {i} : call'[k] = call[k]
  BY CallPut DEF SlotInv, Inv
<1>2. /\ \A k \in Ids : Counted(call[k])
      /\ slots \in Nat /\ slots <= SumFunctionOnSet([k \in Ids |-> Due(call[k])], Ids)
  BY DEF SlotInv, Accounts
<1>3. \A k \in Ids : Counted(call'[k])
  BY <1>1, <1>2
<1>4. \A k \in Ids : Due(call[k]) \in Nat /\ Due(call'[k]) \in Nat
  BY <1>2, <1>3, DueBound
<1>5. PICK f : f = [k \in Ids |-> Due(call[k])]
  OBVIOUS
<1>6. PICK e : e = [k \in Ids |-> Due(call'[k])]
  OBVIOUS
<1>7. /\ f \in [Ids -> Nat] /\ e \in [Ids -> Nat]
      /\ f[i] = Due(call[i]) /\ e[i] = Due(x)
      /\ \A k \in Ids \ {i} : e[k] = f[k]
  BY <1>1, <1>4, <1>5, <1>6
<1>8. /\ SumFunctionOnSet(f, Ids) \in Nat /\ SumFunctionOnSet(e, Ids) \in Nat
      /\ SumFunctionOnSet(e, Ids) = SumFunctionOnSet(f, Ids) - f[i] + e[i]
  BY <1>7, SumChanges, NodeCreateAssumption
<1>9. f[i] \in Nat /\ e[i] \in Nat
  BY <1>7
<1>10. slots <= SumFunctionOnSet(f, Ids)
  BY <1>2, <1>5
<1>11. slots' <= SumFunctionOnSet(e, Ids)
  BY <1>2, <1>7, <1>8, <1>9, <1>10
<1>12. slots' <= SumFunctionOnSet([k \in Ids |-> Due(call'[k])], Ids)
  BY <1>6, <1>11
<1> QED
  BY <1>3, <1>12 DEF Accounts

\* What is known of a call at work.
LEMMA CallCounted ==
  ASSUME SlotInv, NEW i \in Ids
  PROVE  IsCall(call[i]) /\ Counted(call[i]) /\ slots \in Nat
BY DEF SlotInv, Inv, Types, Accounts

\* Slots that are given back are no longer reserved.
LEMMA Released ==
  ASSUME NEW n \in Nat, slots \in Nat, Release(n)
  PROVE  slots' \in Nat /\ (slots' = 0 \/ slots' - slots = 0 - n)
BY DEF Release

\* A call goes on to its next step ...
LEMMA GotoAccount ==
  ASSUME SlotInv, NEW i \in Ids, call[i].pc \notin {"cleanup", "done"}, NEW l, l # "cleanup", Goto(i, l),
         l = "insert" => ~call[i].async,
         \/ UNCHANGED slots /\ (HeldAt(call[i].pc, call[i].async) => HeldAt(l, call[i].async))
         \/ Release(call[i].got)
  PROVE  Accounts'
<1>1. IsCall(call[i]) /\ Counted(call[i]) /\ slots \in Nat
  BY CallCounted
<1>2. PICK x : x = [call[i] EXCEPT !.pc = l]
  OBVIOUS
<1>3. call' = [call EXCEPT ![i] = x]
  BY <1>2 DEF Goto
<1>4. /\ x.pc = l /\ x.got = call[i].got /\ x.want = call[i].want /\ x.active = call[i].active
      /\ x.todo = call[i].todo /\ x.async = call[i].async
  BY <1>1, <1>2 DEF IsCall, Fields
<1>5. Counted(x)
  BY <1>1, <1>4 DEF Counted
<1>6. /\ Due(x) \in Nat /\ Due(call[i]) \in Nat /\ call[i].got \in Nat /\ Due(call[i]) <= call[i].got
      /\ Due(x) >= 0
  BY <1>1, <1>5, DueBound
<1>7. CASE UNCHANGED slots /\ (HeldAt(call[i].pc, call[i].async) => HeldAt(l, call[i].async))
  <2>1. Due(call[i]) <= Due(x)
    BY <1>1, <1>4, <1>6, <1>7 DEF Due, Held
  <2>2. slots' \in Nat /\ slots' - slots <= Due(x) - Due(call[i])
    BY <1>1, <1>6, <1>7, <2>1
  <2> QED
    BY <1>3, <1>5, <2>2, AccountStep
<1>8. CASE Release(call[i].got)
  <2>1. slots' \in Nat /\ (slots' = 0 \/ slots' - slots = 0 - call[i].got)
    BY <1>1, <1>6, <1>8, Released
  <2>2. slots' \in Nat /\ (slots' = 0 \/ slots' - slots <= Due(x) - Due(call[i]))
    BY <1>1, <1>6, <2>1
  <2> QED
    BY <1>3, <1>5, <2>2, AccountStep
<1> QED
  BY <1>7, <1>8

\* ... or fails, and gives back what it holds.
LEMMA FailAccount ==
  ASSUME SlotInv, NEW i \in Ids, call[i].pc # "cleanup", NEW s, Cleaning(s), Fail(i, s), UNCHANGED slots,
         HeldAt(call[i].pc, call[i].async) => Freed(s)
  PROVE  Accounts'
<1>1. IsCall(call[i]) /\ Counted(call[i]) /\ slots \in Nat
  BY CallCounted
<1>2. PICK x : x = [call[i] EXCEPT !.pc = "cleanup", !.todo = s]
  OBVIOUS
<1>3. call' = [call EXCEPT ![i] = x]
  BY <1>2 DEF Fail
<1>4. /\ x.pc = "cleanup" /\ x.got = call[i].got /\ x.want = call[i].want /\ x.active = call[i].active
      /\ x.todo = s /\ x.async = call[i].async
  BY <1>1, <1>2 DEF IsCall, Fields
<1>5. s # <<>> /\ \A k \in DOMAIN s : s[k] \in Steps
  BY DEF Cleaning
<1>6. Counted(x)
  BY <1>1, <1>4, <1>5 DEF Counted
<1>7. Due(x) \in Nat /\ Due(call[i]) \in Nat /\ Due(x) >= 0
  BY <1>1, <1>6, DueBound
<1>8. Due(call[i]) <= Due(x)
  BY <1>1, <1>4, <1>7 DEF Due, Held
<1>9. slots' \in Nat /\ slots' - slots <= Due(x) - Due(call[i])
  BY <1>1, <1>7, <1>8
<1> QED
  BY <1>3, <1>6, <1>9, AccountStep

\* The clean-ups that give slots back.
LEMMA Freeing ==
  /\ Freed(<<"release", "stop", "request">>)
  /\ Freed(<<"release", "stop", "remember", "request">>)
  /\ Freed(<<"release", "stop", "mark", "request">>)
  /\ Freed(<<"release", "stop", "release", "stop", "mark", "request">>)
  /\ Freed(<<"release", "stop", "release", "stop", "remember", "request">>)
<1> USE DEF Freed
<1>2. Freed(<<"release", "stop", "request">>)
  <2> DEFINE s == <<"release", "stop", "request">>
  <2>1. 1 \in DOMAIN s /\ s[1] = "release"
    OBVIOUS
  <2> QED
    BY <2>1
<1>3. Freed(<<"release", "stop", "remember", "request">>)
  <2> DEFINE s == <<"release", "stop", "remember", "request">>
  <2>1. 1 \in DOMAIN s /\ s[1] = "release"
    OBVIOUS
  <2> QED
    BY <2>1
<1>4. Freed(<<"release", "stop", "mark", "request">>)
  <2> DEFINE s == <<"release", "stop", "mark", "request">>
  <2>1. 1 \in DOMAIN s /\ s[1] = "release"
    OBVIOUS
  <2> QED
    BY <2>1
<1>5. Freed(<<"release", "stop", "release", "stop", "mark", "request">>)
  <2> DEFINE s == <<"release", "stop", "release", "stop", "mark", "request">>
  <2>1. 1 \in DOMAIN s /\ s[1] = "release"
    OBVIOUS
  <2> QED
    BY <2>1
<1>6. Freed(<<"release", "stop", "release", "stop", "remember", "request">>)
  <2> DEFINE s == <<"release", "stop", "release", "stop", "remember", "request">>
  <2>1. 1 \in DOMAIN s /\ s[1] = "release"
    OBVIOUS
  <2> QED
    BY <2>1
<1> QED
  BY <1>2, <1>3, <1>4, <1>5, <1>6

\* A call that checks, counts and reserves.
LEMMA EarlyAccount ==
  ASSUME SlotInv, NEW i \in Ids,
         \/ CheckName(i) \/ Accept(i) \/ AcceptRequest(i) \/ Start(i) \/ CountActive(i) \/ Reserve(i)
         \/ \E started, ok \in BOOLEAN : Prepare(i, started, ok)
  PROVE  Accounts'
<1>1. call[i].pc \in {"name", "accept", "accepted", "start", "prepare", "active", "reserve"}
  BY DEF CheckName, Accept, AcceptRequest, Start, CountActive, Reserve, Prepare, At
<1>2. IsCall(call[i]) /\ Counted(call[i]) /\ slots \in Nat /\ ~HeldAt(call[i].pc, call[i].async)
  BY <1>1, CallCounted DEF HeldAt
<1>3. ASSUME NEW l \in {"accept", "accepted", "start", "prepare", "active"}, Goto(i, l), UNCHANGED slots
      PROVE  Accounts'
  BY <1>1, <1>2, <1>3, GotoAccount
<1>4. ASSUME NEW s \in {<<"request">>, <<"mark", "request">>, <<"remember", "request">>}, Fail(i, s),
             UNCHANGED slots
      PROVE  Accounts'
  <2>1. Cleaning(s)
    BY <1>4, CleanupPlans
  <2> QED
    BY <1>1, <1>2, <1>4, <2>1, FailAccount
<1>5. CASE CheckName(i) \/ Accept(i) \/ AcceptRequest(i) \/ Start(i)
  BY <1>3, <1>4, <1>5 DEF CheckName, Accept, AcceptRequest, Start
<1>6. ASSUME NEW started \in BOOLEAN, NEW ok \in BOOLEAN, Prepare(i, started, ok)
      PROVE  Accounts'
  BY <1>3, <1>4, <1>6 DEF Prepare
<1>7. CASE CountActive(i)
  <2>1. CASE (call[i].async /\ Cancelled(i)) \/ (~call[i].async /\ ~NameFree(i))
    <3>1. Fail(i, <<"mark", "request">>) \/ Fail(i, <<"request">>)
      BY <1>7, <2>1 DEF CountActive
    <3> QED
      BY <1>4, <1>7, <3>1 DEF CountActive
  <2>2. CASE ~(call[i].async /\ Cancelled(i)) /\ ~(~call[i].async /\ ~NameFree(i))
    <3>1. PICK n : n = ActiveWorkers(i)
      OBVIOUS
    <3>2. n \in Nat
      <4>1. PICK f : f = [k \in Ids |-> res[k].workers]
        OBVIOUS
      <4>2. PICK T : T = {k \in Ids \ {i} : IsLive(k) /\ (call[i].async => res[k].ready)}
        OBVIOUS
      <4>3. f \in [Ids -> Nat] /\ T \subseteq Ids
        BY <4>1, <4>2 DEF SlotInv, ResCounted
      <4>4. IsFiniteSet(T)
        BY <4>3, FS_Subset, NodeCreateAssumption
      <4>5. SumFunctionOnSet(f, T) \in Nat
        BY <4>3, <4>4, SumIsNat
      <4> QED
        BY <3>1, <4>1, <4>2, <4>5 DEF ActiveWorkers
    <3>3. PICK x : x = [call[i] EXCEPT !.pc = "reserve", !.active = n]
      OBVIOUS
    <3>4. call' = [call EXCEPT ![i] = x] /\ UNCHANGED slots
      BY <1>7, <2>2, <3>1, <3>3 DEF CountActive
    <3>5. /\ x.pc = "reserve" /\ x.got = call[i].got /\ x.want = call[i].want /\ x.active = n
          /\ x.todo = call[i].todo /\ x.async = call[i].async
      BY <1>2, <3>3 DEF IsCall, Fields
    <3>6. Counted(x)
      BY <1>1, <1>2, <3>2, <3>5 DEF Counted
    <3>7. Due(x) = 0 /\ Due(call[i]) = 0
      BY <1>1, <1>2, <3>5 DEF Due, Held, HeldAt
    <3>8. slots' \in Nat /\ slots' - slots <= Due(x) - Due(call[i])
      BY <1>2, <3>4, <3>7
    <3> QED
      BY <3>4, <3>6, <3>8, AccountStep
  <2> QED
    BY <2>1, <2>2
<1>8. CASE Reserve(i)
  <2>1. CASE call[i].active + slots >= Capacity
    <3>1. Fail(i, <<"mark", "request">>) \/ Fail(i, <<"request">>)
      BY <1>8, <2>1 DEF Reserve
    <3>2. UNCHANGED slots
      BY <1>8, <2>1 DEF Reserve
    <3> QED
      BY <1>4, <3>1, <3>2
  <2>2. CASE ~(call[i].active + slots >= Capacity)
    <3>1. PICK n : /\ n = IF call[i].want < Capacity - (call[i].active + slots)
                            THEN call[i].want ELSE Capacity - (call[i].active + slots)
                   /\ slots' = slots + n
                   /\ call' = [call EXCEPT ![i] = [call[i] EXCEPT !.pc = "build", !.got = n]]
      BY <1>8, <2>2 DEF Reserve
    <3>2. n \in 0..Capacity
      BY SMTT(40), <1>2, <2>2, <3>1, NodeCreateAssumption DEF Counted
    <3>3. PICK x : x = [call[i] EXCEPT !.pc = "build", !.got = n]
      OBVIOUS
    <3>4. call' = [call EXCEPT ![i] = x]
      BY <3>1, <3>3
    <3>5. /\ x.pc = "build" /\ x.got = n /\ x.want = call[i].want /\ x.active = call[i].active
          /\ x.todo = call[i].todo /\ x.async = call[i].async
      BY <1>2, <3>3 DEF IsCall, Fields
    <3>6. Counted(x)
      BY <1>1, <1>2, <3>2, <3>5 DEF Counted
    <3>7. Due(x) = n /\ Due(call[i]) = 0
      BY <1>1, <1>2, <3>5 DEF Due, Held, HeldAt
    <3>8. slots' \in Nat /\ slots' - slots <= Due(x) - Due(call[i])
      BY <1>2, <3>1, <3>2, <3>7
    <3> QED
      BY <3>4, <3>6, <3>8, AccountStep
  <2> QED
    BY <2>1, <2>2
<1> QED
  BY <1>5, <1>6, <1>7, <1>8

\* A call that builds its executor, warms it, and ends.
LEMMA LateAccount ==
  ASSUME SlotInv, NEW i \in Ids,
         \/ \E ok \in BOOLEAN : Build(i, ok) \/ Warm(i, ok)
         \/ Attach(i) \/ AttachRelease(i) \/ Final(i) \/ Insert(i) \/ Finish(i) \/ Return(i)
  PROVE  Accounts'
<1>1. call[i].pc \in {"build", "attach", "attached", "warm", "final", "insert", "finish", "return"}
  BY DEF Build, Warm, Attach, AttachRelease, Final, Insert, Finish, Return, At
<1>2. IsCall(call[i]) /\ Counted(call[i])
  BY CallCounted
<1>3. ASSUME NEW s, Cleaning(s), Fail(i, s), UNCHANGED slots, HeldAt(call[i].pc, call[i].async) => Freed(s)
      PROVE  Accounts'
  BY <1>1, <1>3, FailAccount
<1>4. ASSUME NEW l, l # "cleanup", Goto(i, l), l = "insert" => ~call[i].async,
             UNCHANGED slots /\ (HeldAt(call[i].pc, call[i].async) => HeldAt(l, call[i].async))
      PROVE  Accounts'
  BY <1>1, <1>4, GotoAccount
<1>5. ASSUME NEW ok \in BOOLEAN, Build(i, ok)
      PROVE  Accounts'
  <2>1. CASE ok
    <3>1. PICK l : l = IF call[i].async THEN "attach" ELSE "warm"
      OBVIOUS
    <3>2. Goto(i, l) /\ HeldAt(l, call[i].async) /\ l # "cleanup" /\ l # "insert" /\ UNCHANGED slots
      BY <1>5, <2>1, <3>1 DEF Build, HeldAt
    <3> QED
      BY <1>4, <3>2
  <2>2. CASE ~ok
    <3>1. Fail(i, BuildFailure(i)) /\ UNCHANGED slots
      BY <1>5, <2>2 DEF Build
    <3>2. Cleaning(BuildFailure(i)) /\ Freed(BuildFailure(i))
      BY CleanupPlans, Freeing DEF BuildFailure
    <3> QED
      BY <1>3, <3>1, <3>2
  <2> QED
    BY <2>1, <2>2
<1>6. ASSUME NEW ok \in BOOLEAN, Warm(i, ok)
      PROVE  Accounts'
  <2>0. At(i, "warm") /\ UNCHANGED slots
    BY <1>6 DEF Warm
  <2>1. CASE ok
    <3>1. PICK l : l = IF call[i].async THEN "final" ELSE "insert"
      OBVIOUS
    <3>2. /\ Goto(i, l) /\ l # "cleanup" /\ (l = "insert" => ~call[i].async)
          /\ HeldAt(call[i].pc, call[i].async) => HeldAt(l, call[i].async)
      BY <1>6, <2>0, <2>1, <3>1 DEF Warm, HeldAt, At
    <3> QED
      BY <1>4, <2>0, <3>2
  <2>2. CASE ~ok
    <3>1. PICK s \in {<<"stop", "mark", "request">>, <<"release", "stop", "remember", "request">>,
                      <<"release", "stop", "request">>} :
            Fail(i, s) /\ (~call[i].async => s # <<"stop", "mark", "request">>)
      <4>1. CASE call[i].async
        BY <1>6, <2>2, <4>1 DEF Warm
      <4>2. CASE ~call[i].async
        <5>1. <<"release", "stop", "remember", "request">> # <<"stop", "mark", "request">>
              /\ <<"release", "stop", "request">> # <<"stop", "mark", "request">>
          OBVIOUS
        <5> QED
          BY <1>6, <2>2, <4>2, <5>1 DEF Warm
      <4> QED
        BY <4>1, <4>2
    <3>2. Cleaning(s)
      BY <3>1, CleanupPlans
    <3>3. HeldAt(call[i].pc, call[i].async) => Freed(s)
      BY <2>0, <3>1, Freeing DEF HeldAt, At
    <3> QED
      BY <1>3, <2>0, <3>1, <3>2, <3>3
  <2> QED
    BY <2>1, <2>2
<1>7. CASE Attach(i)
  <2>1. CASE Cancelled(i)
    BY <1>3, <1>7, <2>1, CleanupPlans, Freeing DEF Attach
  <2>2. CASE ~Cancelled(i)
    BY <1>4, <1>7, <2>2 DEF Attach, HeldAt
  <2> QED
    BY <2>1, <2>2
<1>8. CASE AttachRelease(i) \/ Return(i)
  <2>1. PICK l \in {"warm", "done"} : Goto(i, l) /\ Release(call[i].got)
    BY <1>8 DEF AttachRelease, Return
  <2> QED
    BY <1>1, <2>1, GotoAccount
<1>9. CASE Final(i)
  <2>1. At(i, "final") /\ UNCHANGED slots
    BY <1>9 DEF Final
  <2>2. ~HeldAt(call[i].pc, call[i].async)
    BY <2>1 DEF HeldAt, At
  <2>3. CASE res[i].status = "NONE"
    BY <1>3, <1>9, <2>1, <2>2, <2>3, CleanupPlans DEF Final
  <2>4. CASE res[i].status # "NONE"
    BY <1>4, <1>9, <2>1, <2>2, <2>4 DEF Final
  <2> QED
    BY <2>3, <2>4
<1>10. CASE Insert(i)
  <2>1. At(i, "insert") /\ Goto(i, "finish") /\ UNCHANGED slots
    BY <1>10 DEF Insert
  <2>2. ~call[i].async
    BY <1>2, <2>1 DEF Counted, At
  <2> QED
    BY <1>4, <2>1, <2>2 DEF HeldAt
<1>11. CASE Finish(i)
  <2>1. PICK l : l = IF call[i].async THEN "done" ELSE "return"
    OBVIOUS
  <2>2. At(i, "finish") /\ Goto(i, l) /\ UNCHANGED slots /\ l # "cleanup" /\ l # "insert"
    BY <1>11, <2>1 DEF Finish
  <2>3. HeldAt(call[i].pc, call[i].async) => HeldAt(l, call[i].async)
    BY <2>1, <2>2 DEF HeldAt, At
  <2> QED
    BY <1>4, <2>2, <2>3
<1> QED
  BY <1>5, <1>6, <1>7, <1>8, <1>9, <1>10, <1>11

\* A call that cleans up after itself.
LEMMA CleanAccount ==
  ASSUME SlotInv, NEW i \in Ids,
         CleanRelease(i) \/ CleanStop(i) \/ CleanRemember(i) \/ CleanMark(i) \/ CleanRequest(i)
  PROVE  Accounts'
<1>1. call[i].pc = "cleanup" /\ call[i].todo # <<>>
  BY DEF CleanRelease, CleanStop, CleanRemember, CleanMark, CleanRequest, Next1, At
<1>2. IsCall(call[i]) /\ Counted(call[i]) /\ slots \in Nat
  BY CallCounted
<1>3. Cleaning(call[i].todo)
  BY <1>1, <1>2 DEF IsCall
<1>4. PICK t : t = call[i].todo
  OBVIOUS
<1>5. /\ Cleaning(t) /\ t # <<>> /\ t \in Seq(Steps) /\ Head(t) = t[1]
      /\ Len(t) \in Nat /\ Len(t) >= 1 /\ DOMAIN t = 1..Len(t)
  BY <1>1, <1>3, <1>4 DEF Cleaning
<1>6. CASE CleanRequest(i)
  <2>1. Goto(i, "done") /\ UNCHANGED slots /\ Head(t) = "request"
    BY <1>4, <1>6 DEF CleanRequest, Next1
  <2>2. ~Freed(t)
    <3>0. t[1] = "request" /\ 1 \in 1..Len(t)
      BY <1>5, <2>1
    <3>1. Len(t) = 1
      BY <1>5, <3>0 DEF Cleaning
    <3> QED
      BY <1>5, <2>1, <3>1 DEF Freed
  <2>3. PICK x : x = [call[i] EXCEPT !.pc = "done"]
    OBVIOUS
  <2>4. call' = [call EXCEPT ![i] = x]
    BY <2>1, <2>3 DEF Goto
  <2>5. /\ x.pc = "done" /\ x.got = call[i].got /\ x.want = call[i].want /\ x.active = call[i].active
        /\ x.todo = call[i].todo /\ x.async = call[i].async
    BY <1>2, <2>3 DEF IsCall, Fields
  <2>6. Counted(x)
    BY <1>2, <2>5 DEF Counted
  <2>7. Due(x) = 0 /\ Due(call[i]) = 0
    BY <1>1, <1>4, <2>2, <2>5 DEF Due, Held, HeldAt
  <2>8. slots' \in Nat /\ slots' - slots <= Due(x) - Due(call[i])
    BY <1>2, <2>1, <2>7
  <2> QED
    BY <2>4, <2>6, <2>8, AccountStep
<1>7. CASE CleanRelease(i) \/ CleanStop(i) \/ CleanRemember(i) \/ CleanMark(i)
  <2>1. Popped(i) /\ Head(t) # "request"
    BY <1>4, <1>7 DEF CleanRelease, CleanStop, CleanRemember, CleanMark, Next1
  <2>2. PICK s : s = Tail(t)
    OBVIOUS
  <2>3. Cleaning(s) /\ s # <<>>
    <3>1. Cleaning(s)
      BY <1>5, <2>1, <2>2, CleaningTail
    <3> QED
      BY <3>1 DEF Cleaning
  <2>4. PICK x : x = [call[i] EXCEPT !.todo = s]
    OBVIOUS
  <2>5. call' = [call EXCEPT ![i] = x]
    BY <1>4, <2>1, <2>2, <2>4 DEF Popped
  <2>6. /\ x.pc = "cleanup" /\ x.got = call[i].got /\ x.want = call[i].want /\ x.active = call[i].active
        /\ x.todo = s /\ x.async = call[i].async
    BY <1>1, <1>2, <2>4 DEF IsCall, Fields
  <2>7. \A k \in DOMAIN s : s[k] \in Steps
    BY <2>3 DEF Cleaning
  <2>8. Counted(x)
    BY <1>2, <2>3, <2>6, <2>7 DEF Counted
  <2>9. Due(x) \in Nat /\ Due(call[i]) \in Nat /\ call[i].got \in Nat /\ Due(call[i]) <= call[i].got
    BY <1>2, <2>8, DueBound
  <2>10. CASE CleanRelease(i)
    <3>1. slots' \in Nat /\ (slots' = 0 \/ slots' - slots = 0 - call[i].got)
      BY <1>2, <2>9, <2>10, Released DEF CleanRelease
    <3>2. slots' \in Nat /\ (slots' = 0 \/ slots' - slots <= Due(x) - Due(call[i]))
      BY <1>2, <2>9, <3>1
    <3> QED
      BY <2>5, <2>8, <3>2, AccountStep
  <2>11. CASE ~CleanRelease(i)
    <3>1. UNCHANGED slots /\ Head(t) # "release"
      BY <1>4, <1>7, <2>11 DEF CleanStop, CleanRemember, CleanMark, Next1
    <3>2. Freed(t) => Freed(s)
      <4> SUFFICES ASSUME Freed(t) PROVE Freed(s)
        OBVIOUS
      <4>1. PICK k \in 1..Len(t) : t[k] = "release"
        BY <1>5 DEF Freed
      <4>2. k - 1 \in DOMAIN s /\ s[k - 1] = "release"
        BY <1>5, <2>2, <3>1, <4>1
      <4> QED
        BY <4>2 DEF Freed
    <3>3. Due(call[i]) <= Due(x)
      BY <1>1, <1>4, <2>6, <2>9, <3>2 DEF Due, Held, HeldAt
    <3>4. slots' \in Nat /\ slots' - slots <= Due(x) - Due(call[i])
      BY <1>2, <2>9, <3>1, <3>3
    <3> QED
      BY <2>5, <2>8, <3>4, AccountStep
  <2> QED
    BY <2>10, <2>11
<1> QED
  BY <1>6, <1>7

\* A call that begins holds nothing.
LEMMA BeginAccount ==
  ASSUME SlotInv, NEW i \in Ids, NEW r \in Reqs \cup {None}, NEW n \in Names, NEW w \in Wants,
         NEW async \in BOOLEAN, NEW g \in BOOLEAN, Begin(i, r, n, w, async, g)
  PROVE  Accounts'
<1>1. PICK x : x = [NewCall EXCEPT !.pc = "name", !.async = async, !.req = r, !.name = n, !.want = w,
                                   !.globals = g]
  OBVIOUS
<1>2. call[i].pc = "new" /\ call' = [call EXCEPT ![i] = x] /\ UNCHANGED slots
  BY <1>1 DEF Begin, At
<1>3. /\ x.pc = "name" /\ x.got = 0 /\ x.want = w /\ x.active = 0 /\ x.todo = <<>> /\ w \in Nat
      /\ Capacity \in Nat
  BY <1>1, NodeCreateAssumption DEF NewCall
<1>4. Counted(x)
  BY <1>3 DEF Counted
<1>5. Due(x) = 0 /\ Due(call[i]) = 0 /\ slots \in Nat
  BY <1>2, <1>3, CallCounted DEF Due, Held, HeldAt
<1>6. slots' \in Nat /\ slots' - slots <= Due(x) - Due(call[i])
  BY <1>2, <1>5
<1> QED
  BY <1>2, <1>4, <1>6, AccountStep

\* What the resources and the host processes are, after any step.
LEMMA ResKept ==
  ASSUME SlotInv, Next
  PROVE  ResCounted' /\ Hosts'
<1>1. ASSUME NEW i \in Ids, NEW x, res' = [res EXCEPT ![i] = x], UNCHANGED <<host, stopq>>,
             x.status \in {"NONE", "STARTING", "RUNNING", "STOPPED"},
             x.ready => x.status = "RUNNING", x.workers \in Nat
      PROVE  ResCounted' /\ Hosts'
  <2>1. res'[i] = x /\ \A k \in Ids \ {i} : res'[k] = res[k]
    BY <1>1 DEF SlotInv, Inv, Types, ResTyped
  <2> QED
    BY <1>1, <2>1 DEF SlotInv, ResCounted, Hosts
<1>2. ASSUME UNCHANGED res, Hosts'
      PROVE  ResCounted' /\ Hosts'
  BY <1>2 DEF SlotInv, ResCounted
<1>3. \A i \in Ids : /\ IsCall(call[i]) /\ call[i].got \in Nat /\ call[i].want \in Nat
                     /\ IsResource(res[i]) /\ res[i].workers \in Nat
                     /\ res[i].status \in {"NONE", "STARTING", "RUNNING", "STOPPED"}
  BY NodeCreateAssumption DEF SlotInv, Inv, Types, ResTyped, Accounts, Counted, ResCounted
<1>4. ASSUME NEW i \in Ids, CallStep(i)
      PROVE  ResCounted' /\ Hosts'
  <2>1. CASE Accept(i)
    <3>1. PICK x : x = [status |-> IF Kind = "service" THEN "STARTING" ELSE "RUNNING", ready |-> FALSE,
                     workers |-> call[i].want, name |-> call[i].name]
      OBVIOUS
    <3>2. x.status \in {"STARTING", "RUNNING"} /\ ~x.ready /\ x.workers \in Nat
      BY <1>3, <3>1
    <3>3. res' = [res EXCEPT ![i] = x] /\ UNCHANGED <<host, stopq>>
      BY <2>1, <3>1 DEF Accept
    <3> QED
      BY <1>1, <3>2, <3>3
  <2>2. CASE Attach(i)
    <3>1. CASE Cancelled(i)
      BY <1>2, <2>2, <3>1 DEF Attach, SlotInv, Hosts
    <3>2. CASE ~Cancelled(i)
      <4>1. PICK x : x = [res[i] EXCEPT !.status = "RUNNING", !.ready = TRUE, !.workers = call[i].got]
        OBVIOUS
      <4>2. x.status = "RUNNING" /\ x.workers \in Nat
        BY <1>3, <4>1 DEF IsResource
      <4>3. res' = [res EXCEPT ![i] = x] /\ UNCHANGED <<host, stopq>>
        BY <2>2, <3>2, <4>1 DEF Attach
      <4> QED
        BY <1>1, <4>2, <4>3
    <3> QED
      BY <3>1, <3>2
  <2>3. CASE Final(i)
    <3>1. CASE res[i].status = "NONE"
      BY <1>2, <2>3, <3>1 DEF Final, SlotInv, Hosts
    <3>2. CASE res[i].status # "NONE"
      <4>1. PICK x : x = [res[i] EXCEPT !.status = "RUNNING", !.ready = TRUE]
        OBVIOUS
      <4>2. x.status = "RUNNING" /\ x.workers \in Nat
        BY <1>3, <4>1 DEF IsResource
      <4>3. res' = [res EXCEPT ![i] = x] /\ UNCHANGED <<host, stopq>>
        BY <2>3, <3>2, <4>1 DEF Final
      <4> QED
        BY <1>1, <4>2, <4>3
    <3> QED
      BY <3>1, <3>2
  <2>4. CASE Insert(i)
    <3>1. PICK x : x = [status |-> "RUNNING", ready |-> TRUE, workers |-> call[i].got,
                     name |-> call[i].name]
      OBVIOUS
    <3>2. x.status = "RUNNING" /\ x.workers \in Nat
      BY <1>3, <3>1
    <3>3. res' = [res EXCEPT ![i] = x] /\ UNCHANGED <<host, stopq>>
      BY <2>4, <3>1 DEF Insert
    <3> QED
      BY <1>1, <3>2, <3>3
  <2>5. CASE CleanRemember(i)
    <3>1. PICK x : x = [Absent EXCEPT !.status = "STOPPED", !.name = call[i].name, !.workers = call[i].want]
      OBVIOUS
    <3>2. x.status = "STOPPED" /\ ~x.ready /\ x.workers \in Nat
      BY <1>3, <3>1 DEF Absent
    <3>3. res' = [res EXCEPT ![i] = x] /\ UNCHANGED <<host, stopq>>
      BY <2>5, <3>1 DEF CleanRemember
    <3> QED
      BY <1>1, <3>2, <3>3
  <2>6. CASE CleanMark(i)
    <3>1. CASE res[i].status = "NONE"
      BY <1>2, <2>6, <3>1 DEF CleanMark, SlotInv, Hosts
    <3>2. CASE res[i].status # "NONE"
      <4>1. PICK x : x = [res[i] EXCEPT !.status = "STOPPED", !.ready = FALSE]
        OBVIOUS
      <4>2. x.status = "STOPPED" /\ ~x.ready /\ x.workers \in Nat
        BY <1>3, <4>1 DEF IsResource
      <4>3. res' = [res EXCEPT ![i] = x] /\ UNCHANGED <<host, stopq>>
        BY <2>6, <3>2, <4>1 DEF CleanMark
      <4> QED
        BY <1>1, <4>2, <4>3
    <3> QED
      BY <3>1, <3>2
  <2>7. CASE CheckName(i) \/ AcceptRequest(i) \/ Start(i) \/ CountActive(i) \/ Reserve(i) \/ AttachRelease(i)
             \/ Finish(i) \/ Return(i) \/ CleanRelease(i) \/ CleanRequest(i)
    <3>1. UNCHANGED <<res, host, stopq>>
      BY <2>7 DEF CheckName, AcceptRequest, Start, CountActive, Reserve, AttachRelease, Finish, Return,
                  CleanRelease, CleanRequest
    <3> QED
      BY <1>2, <3>1 DEF SlotInv, Hosts
  <2>8. CASE CleanStop(i) \/ \E ok \in BOOLEAN : (\E started \in BOOLEAN : Prepare(i, started, ok))
                                                  \/ Build(i, ok) \/ Warm(i, ok)
    <3>1. UNCHANGED <<res, stopq>> /\ host' \subseteq host \cup {i}
      BY <2>8 DEF CleanStop, Prepare, Build, Warm
    <3> QED
      BY <1>2, <3>1 DEF SlotInv, Hosts
  <2> QED
    BY <1>4, <2>1, <2>2, <2>3, <2>4, <2>5, <2>6, <2>7, <2>8 DEF CallStep
<1>5. ASSUME NEW i \in Ids, Stop(i) \/ StopHost(i) \/ Forget(i)
      PROVE  ResCounted' /\ Hosts'
  <2>1. CASE Stop(i)
    <3>1. PICK x : x = [res[i] EXCEPT !.status = "STOPPED", !.ready = FALSE]
      OBVIOUS
    <3>2. x.status = "STOPPED" /\ ~x.ready /\ x.workers \in Nat
      BY <1>3, <3>1 DEF IsResource
    <3>3. res' = [res EXCEPT ![i] = x] /\ UNCHANGED host /\ stopq' \subseteq stopq \cup {i}
      BY <2>1, <3>1 DEF Stop
    <3>4. res'[i] = x /\ \A k \in Ids \ {i} : res'[k] = res[k]
      BY <3>3 DEF SlotInv, Inv, Types, ResTyped
    <3> QED
      BY <3>2, <3>3, <3>4 DEF SlotInv, ResCounted, Hosts
  <2>2. CASE StopHost(i)
    BY <1>2, <2>2 DEF StopHost, SlotInv, Hosts
  <2>3. CASE Forget(i)
    <3>1. PICK x : x = Absent
      OBVIOUS
    <3>2. x.status = "NONE" /\ ~x.ready /\ x.workers \in Nat
      BY <1>3, <3>1 DEF Absent
    <3>3. res' = [res EXCEPT ![i] = x] /\ UNCHANGED <<host, stopq>>
      BY <2>3, <3>1 DEF Forget
    <3> QED
      BY <1>1, <3>2, <3>3
  <2> QED
    BY <1>5, <2>1, <2>2, <2>3
<1>6. CASE (\E i \in Ids, r \in Reqs \cup {None}, n \in Names, w \in Wants, async, g \in BOOLEAN :
              Begin(i, r, n, w, async, g)) \/ \E r \in Reqs : Retry(r)
  <2>1. UNCHANGED <<res, host, stopq>>
    BY <1>6 DEF Begin, Retry
  <2> QED
    BY <1>2, <2>1 DEF SlotInv, Hosts
<1> QED
  BY <1>4, <1>5, <1>6 DEF Next

\* The accounts after any step.
LEMMA AccountsKept ==
  ASSUME SlotInv, Next
  PROVE  Accounts'
<1>1. ASSUME NEW i \in Ids, CallStep(i)
      PROVE  Accounts'
  <2>1. CASE \/ CheckName(i) \/ Accept(i) \/ AcceptRequest(i) \/ Start(i) \/ CountActive(i) \/ Reserve(i)
             \/ \E started, ok \in BOOLEAN : Prepare(i, started, ok)
    BY <2>1, EarlyAccount
  <2>2. CASE \/ \E ok \in BOOLEAN : Build(i, ok) \/ Warm(i, ok)
             \/ Attach(i) \/ AttachRelease(i) \/ Final(i) \/ Insert(i) \/ Finish(i) \/ Return(i)
    BY <2>2, LateAccount
  <2>3. CASE CleanRelease(i) \/ CleanStop(i) \/ CleanRemember(i) \/ CleanMark(i) \/ CleanRequest(i)
    BY <2>3, CleanAccount
  <2> QED
    BY <1>1, <2>1, <2>2, <2>3 DEF CallStep
<1>2. CASE \E i \in Ids, r \in Reqs \cup {None}, n \in Names, w \in Wants, async, g \in BOOLEAN :
             Begin(i, r, n, w, async, g)
  BY <1>2, BeginAccount
<1>3. CASE (\E i \in Ids : Stop(i) \/ StopHost(i) \/ Forget(i)) \/ (\E r \in Reqs : Retry(r))
  <2>1. UNCHANGED <<call, slots>>
    BY <1>3 DEF Stop, StopHost, Forget, Retry
  <2> QED
    BY <2>1 DEF SlotInv, Accounts
<1> QED
  BY <1>1, <1>2, <1>3 DEF Next

\* The invariant about the slots is one.
LEMMA SlotInvariant == Spec => []SlotInv
<1>1. Init => SlotInv
  <2> SUFFICES ASSUME Init
               PROVE  SlotInv
    OBVIOUS
  <2>1. \A i \in Ids : call[i] = NewCall /\ res[i] = Absent
    BY DEF Init
  <2>2. Capacity \in Nat
    BY NodeCreateAssumption
  <2>3. \A i \in Ids : Counted(call[i])
    BY <2>1, <2>2 DEF Counted, NewCall
  <2>4. PICK f : f = [i \in Ids |-> Due(call[i])]
    OBVIOUS
  <2>5. f \in [Ids -> Nat]
    BY <2>3, <2>4, DueBound
  <2>6. SumFunctionOnSet(f, Ids) \in Nat
    BY <2>5, SumIsNat, NodeCreateAssumption
  <2>7. Accounts
    BY <2>3, <2>4, <2>6 DEF Accounts, Init
  <2>8. ResCounted /\ Hosts
    BY <2>1 DEF ResCounted, Hosts, Absent, Init
  <2> QED
    BY <2>7, <2>8, InitInv DEF SlotInv
<1>2. SlotInv /\ [Next]_vars => SlotInv'
  <2> SUFFICES ASSUME SlotInv, [Next]_vars
               PROVE  SlotInv'
    OBVIOUS
  <2>1. Inv'
    BY StepInv DEF SlotInv
  <2>2. CASE UNCHANGED vars
    BY <2>1, <2>2 DEF SlotInv, ResCounted, Hosts, Accounts, vars
  <2>3. CASE Next
    <3>4. Accounts'
      BY <2>3, AccountsKept
    <3> QED
      BY <2>1, <2>3, <3>4, ResKept DEF SlotInv
  <2> QED
    BY <2>2, <2>3
<1> QED
  BY <1>1, <1>2, PTL DEF Spec

\* The calls, resources, requests and slots have their types: a resource that is
\* ready is RUNNING, and a call has never reserved more than the capacity.
THEOREM TypeCorrect == Spec => []TypeOK
<1>1. SlotInv => TypeOK
  <2> SUFFICES ASSUME SlotInv
               PROVE  TypeOK
    OBVIOUS
  <2>1. \A i \in Ids : call[i].req \in Reqs \cup {None} /\ Counted(call[i])
    BY DEF SlotInv, Inv, Types, IsCall, Accounts
  <2> QED
    BY <2>1 DEF TypeOK, At, SlotInv, Inv, Types, ResCounted, Hosts, Accounts, Counted
<1> QED
  BY <1>1, SlotInvariant, PTL

\* The slots that are reserved are those of calls that will give them back,
\* whichever step of a create fails and however often its clean-up releases
\* them (_release_reserved_worker_slots).
THEOREM SlotsComeBack == Spec => []SlotsReturned
<1>1. SlotInv => SlotsReturned
  <2> SUFFICES ASSUME SlotInv
               PROVE  SlotsReturned
    OBVIOUS
  <2>1. \A i \in Ids : Due(call[i]) = IF Holding(i) THEN call[i].got ELSE 0
    BY DEF Due, Held, HeldAt, Freed, Holding, At
  <2>2. [i \in Ids |-> Due(call[i])] = [i \in Ids |-> IF Holding(i) THEN call[i].got ELSE 0]
    BY <2>1
  <2> QED
    BY <2>2 DEF SlotsReturned, SlotInv, Accounts
<1> QED
  BY <1>1, SlotInvariant, PTL


-----------------------------------------------------------------------------
(* ManagedGlobals: the invariant. *)

Values    == [GlobalNames -> Nat]
PatchType == UNION {[S -> Nat] : S \in SUBSET GlobalNames}
ItemType  == [call : Calls \cup {0}, snap : Values]
ReplType  == [st : {"ready", "warming", "gone"}, inc : Nat, digest : Values, state : Values,
              cache : Values, vals : Values, queue : Seq(ItemType)]
HandlerPcs == {"none", "sent", "loaded", "wrote", "committed", "over"}
HandType  == [pc : HandlerPcs, inc : Nat, new : Values, batch : Nat, lost : BOOLEAN]
CallType  == [pc : {"new", "built", "queued", "failed", "done"}, node : Nodes \cup {0}, inc : Nat,
              snap : Values, floor : Values, seen : Values]
UpdType   == [pc : {"run", "leave", "over"}, by : {"user", "replay"}, patch : PatchType,
              plan : Seq(SUBSET GlobalNames), to : SUBSET Nodes]

GlobalsTypes ==
  /\ kind \in Kinds /\ mixed \in BOOLEAN /\ sess \subseteq Nodes
  /\ repl \in [Nodes -> ReplType] /\ acked \in [Nodes -> Values] /\ calls \in [Calls -> CallType]
  /\ hand \in [Updates -> [Nodes -> HandType]]
  /\ upds \in Seq(UpdType) /\ Len(upds) <= MaxUpdates
  /\ last \in PatchType /\ wait \in PatchType
  /\ comp \in [pc : {"idle", "created", "added"}, node : Nodes \cup {0}]
  /\ comp.pc # "idle" => comp.node \in Nodes
  /\ \A u \in DOMAIN upds :
       DOMAIN upds[u].patch = UNION {upds[u].plan[i] : i \in 1..Len(upds[u].plan)}

\* A worker has the values of the snapshot it applied last; a call in its queue
\* has the snapshot it was built with.
WorkerRight ==
  /\ \A n \in Nodes, x \in GlobalNames : repl[n].cache[x] # 0 => repl[n].vals[x] = repl[n].cache[x]
  /\ \A n \in Nodes : \A i \in DOMAIN repl[n].queue :
       LET item == repl[n].queue[i] IN
       item.call \in Calls => calls[item.call].pc # "new" /\ calls[item.call].snap = item.snap
  /\ \A n \in sess : repl[n].st = "ready"

\* Handlers belong to updates that were sent to their node, while it was there.
HandlerRight(u, n) ==
  LET h == hand[u][n] IN
  /\ h.inc <= repl[n].inc /\ (repl[n].st = "warming" => h.inc < repl[n].inc)
  /\ h.pc # "none" => u \in DOMAIN upds /\ n \in upds[u].to
  /\ h.lost => h.pc \in {"loaded", "wrote", "over"}
  /\ h.pc \in {"sent", "loaded", "wrote", "committed"} => h.batch \in 1..Len(upds[u].plan)
  /\ u \in DOMAIN upds /\ upds[u].pc # "run" /\ n \in upds[u].to => h.lost \/ h.pc = "over"

\* The handler works on the replica that is there.
Works(u, n) == hand[u][n].inc = repl[n].inc /\ repl[n].st # "gone"

\* What the handlers of the latest update have and have left behind.
HandlerSees(u, n) ==
  LET h == hand[u][n] IN
  /\ u # Len(upds) => h.pc \in {"none", "over"}
  /\ Works(u, n) /\ h.pc \in {"loaded", "wrote", "committed"}
       => /\ \A x \in GlobalNames : acked[n][x] <= h.new[x]
          /\ \A j \in 1..h.batch : \A x \in upds[u].plan[j] : h.new[x] = upds[u].patch[x]
  /\ Works(u, n) /\ h.pc = "sent"
       => \A j \in 1..h.batch : j < h.batch => \A x \in upds[u].plan[j] : repl[n].digest[x] = upds[u].patch[x]
  /\ Works(u, n) /\ h.pc = "committed" => repl[n].digest = h.new
  /\ Works(u, n) /\ h.pc = "wrote" /\ kind = "pool" => repl[n].state = h.new

\* A replica has what it has acknowledged, a new one nothing yet; the state the pools of a client share
\* is its snapshot, but for a handler between its two writes.
ReplicaHas(n) ==
  /\ repl[n].st = "warming" => acked[n] = Unset
  /\ repl[n].st # "gone" =>
     /\ \A x \in GlobalNames : acked[n][x] <= repl[n].digest[x]
     /\ kind = "pool" /\ (\A u \in Updates : ~(Works(u, n) /\ hand[u][n].pc = "wrote"))
          => repl[n].state = repl[n].digest

\* What will be replayed is not older than what a node has acknowledged, apart
\* from the user's update that is under way.
LastIsNew(n) ==
  \A x \in DOMAIN last :
    acked[n][x] <= last[x]
    \/ \E u \in Active : upds[u].by = "user" /\ n \in upds[u].to /\ hand[u][n].pc = "over" /\ ~hand[u][n].lost

InOrder ==
  /\ \A u \in Active : u = Len(upds)
  /\ \A u \in Active, n \in Nodes : \A x \in DOMAIN upds[u].patch : acked[n][x] <= upds[u].patch[x]
  /\ \A u \in Active : upds[u].by = "replay" => upds[u].patch = last
  /\ wait # NoPatch => wait = last /\ \A u \in Active : upds[u].by # "user"
  /\ \A n \in Nodes : LastIsNew(n)
  /\ \A n \in Nodes, x \in GlobalNames : acked[n][x] <= Len(upds) + 1
  /\ \A u \in DOMAIN upds : \A x \in DOMAIN upds[u].patch : upds[u].patch[x] <= Len(upds) + 1
  /\ \A x \in DOMAIN last : last[x] <= Len(upds) + 1

Unmixed ==
  /\ \A u \in Updates, n \in Nodes : HandlerSees(u, n)
  /\ \A n \in Nodes : ReplicaHas(n)
  /\ InOrder
  /\ \A c \in Calls : calls[c].pc # "new" => \A x \in GlobalNames : calls[c].floor[x] <= calls[c].snap[x]

GlobalsInv ==
  /\ GlobalsTypes /\ WorkerRight /\ ReadsOneSnapshot /\ AcknowledgedIsSeen
  /\ \A u \in Updates, n \in Nodes : HandlerRight(u, n)
  /\ ~mixed => Unmixed

\* What a step does to one handler and to one replica; the others stay.
HandGoes(u, n, h) ==
  /\ hand' \in [Updates -> [Nodes -> HandType]] /\ hand'[u][n] = h
  /\ \A v \in Updates, m \in Nodes : v # u \/ m # n => hand'[v][m] = hand[v][m]
ReplGoes(n, r) ==
  /\ repl' \in [Nodes -> ReplType] /\ repl'[n] = r
  /\ \A m \in Nodes : m # n => repl'[m] = repl[m]

\* A step that writes a handler is such a step.
LEMMA HandSet ==
  ASSUME hand \in [Updates -> [Nodes -> HandType]], NEW u \in Updates, NEW n \in Nodes, NEW h \in HandType,
         hand' = [hand EXCEPT ![u][n] = h]
  PROVE  HandGoes(u, n, h)
BY DEF HandGoes

\* A step that writes a replica is such a step.
LEMMA ReplSet ==
  ASSUME repl \in [Nodes -> ReplType], NEW n \in Nodes, NEW r \in ReplType, repl' = [repl EXCEPT ![n] = r]
  PROVE  ReplGoes(n, r)
BY DEF ReplGoes

\* A snapshot takes values over.
LEMMA MergeHas ==
  ASSUME NEW s \in Values, NEW f \in PatchType
  PROVE  /\ Merge(s, f) \in Values
         /\ \A x \in GlobalNames : Merge(s, f)[x] = IF x \in DOMAIN f THEN f[x] ELSE s[x]
<1>1. PICK S \in SUBSET GlobalNames : f \in [S -> Nat]
  BY DEF PatchType
<1> QED
  BY <1>1 DEF Merge, Values

\* The values of a batch are some of the update's.
LEMMA BatchHas ==
  ASSUME NEW f \in PatchType, NEW S \in SUBSET DOMAIN f
  PROVE  /\ [x \in S |-> f[x]] \in PatchType /\ DOMAIN [x \in S |-> f[x]] = S
         /\ \A x \in S : [y \in S |-> f[y]][x] = f[x]
<1>1. PICK T \in SUBSET GlobalNames : f \in [T -> Nat]
  BY DEF PatchType
<1>2. [x \in S |-> f[x]] \in [S -> Nat] /\ S \in SUBSET GlobalNames
  BY <1>1
<1>3. [S -> Nat] \in {[R -> Nat] : R \in SUBSET GlobalNames}
  BY <1>2
<1> QED
  BY <1>2, <1>3 DEF PatchType

\* The names an update sets are names of globals, its values are numbers.
LEMMA PatchHas ==
  ASSUME NEW f \in PatchType
  PROVE  DOMAIN f \in SUBSET GlobalNames /\ f \in [DOMAIN f -> Nat]
<1>1. PICK S \in SUBSET GlobalNames : f \in [S -> Nat]
  BY DEF PatchType
<1>2. DOMAIN f = S
  BY <1>1
<1> QED
  BY <1>1, <1>2

\* The types, for one update and one node.
LEMMA TypesOf ==
  ASSUME GlobalsTypes, NEW u \in DOMAIN upds, NEW n \in Nodes
  PROVE  /\ u \in Updates /\ hand \in [Updates -> [Nodes -> HandType]] /\ hand[u][n] \in HandType
         /\ repl \in [Nodes -> ReplType] /\ repl[n] \in ReplType
         /\ upds[u] \in UpdType /\ upds[u].patch \in PatchType /\ upds[u].plan \in Seq(SUBSET GlobalNames)
         /\ acked \in [Nodes -> Values]
<1> USE ManagedGlobalsAssumption
<1>1. u \in 1..Len(upds) /\ Len(upds) <= MaxUpdates /\ Len(upds) \in Nat
  BY DEF GlobalsTypes
<1>2. u \in Updates
  BY <1>1 DEF Updates
<1>3. upds[u] \in UpdType
  <2> DEFINE U == UpdType
  <2>1. upds \in Seq(U)
    BY DEF GlobalsTypes
  <2> HIDE DEF U
  <2>2. upds[u] \in U
    BY <2>1
  <2> QED
    BY <2>2 DEF U
<1>4. upds[u].patch \in PatchType /\ upds[u].plan \in Seq(SUBSET GlobalNames)
  BY <1>3 DEF UpdType
<1> QED
  BY <1>2, <1>3, <1>4 DEF GlobalsTypes

\* What is replayed stays new when a handler goes on that is not over yet.
LEMMA OrderKept ==
  ASSUME GlobalsTypes, InOrder, NEW u \in Updates, NEW n \in Nodes, NEW h, HandGoes(u, n, h),
         hand[u][n].pc # "over", UNCHANGED <<last, upds, acked, wait>>
  PROVE  InOrder'
<1>1. ASSUME NEW m \in Nodes PROVE LastIsNew(m)'
  <2> SUFFICES ASSUME NEW x \in DOMAIN last, ~(acked[m][x] <= last[x])
               PROVE  \E v \in Active : /\ upds[v].by = "user" /\ m \in upds[v].to
                                        /\ hand'[v][m].pc = "over" /\ ~hand'[v][m].lost
    BY DEF LastIsNew, Active
  <2>1. PICK v \in Active : upds[v].by = "user" /\ m \in upds[v].to /\ hand[v][m].pc = "over" /\ ~hand[v][m].lost
    BY DEF InOrder, LastIsNew
  <2>2. v \in Updates
    BY TypesOf DEF Active
  <2>3. hand'[v][m] = hand[v][m]
    BY <2>1, <2>2 DEF HandGoes
  <2> QED
    BY <2>1, <2>3
<1> QED
  BY <1>1 DEF InOrder, Active

\* The step of a handler that leaves its node as it is.
LEMMA GiveUpKeeps ==
  ASSUME GlobalsInv, NEW u \in DOMAIN upds, NEW n \in Nodes, GiveUp(u, n)
  PROVE  GlobalsInv'
<1>t. GlobalsTypes /\ u \in Updates /\ hand \in [Updates -> [Nodes -> HandType]] /\ hand[u][n] \in HandType
  <2>1. GlobalsTypes
    BY DEF GlobalsInv
  <2> QED
    BY <2>1, TypesOf
<1> DEFINE o == hand[u][n]
           l == IF o.pc \in {"sent", "committed"} THEN "over" ELSE o.pc
           g == [o EXCEPT !.lost = TRUE, !.pc = l]
<1>0. /\ o.pc \in {"sent", "loaded", "wrote", "committed"} /\ ~o.lost /\ u \in Active /\ n \in upds[u].to
      /\ UNCHANGED <<kind, repl, sess, last, upds, wait, comp, calls, acked, mixed>>
  BY DEF GiveUp
<1>1. hand' = [hand EXCEPT ![u][n] = g]
  BY <1>t DEF GiveUp
<1>2. g \in HandType /\ g.pc = l /\ g.inc = o.inc /\ g.new = o.new /\ g.batch = o.batch /\ g.lost = TRUE
  BY <1>0, <1>t DEF HandType, HandlerPcs
<1> HIDE DEF g
<1>3. HandGoes(u, n, g)
  BY <1>1, <1>2, <1>t, HandSet
<1>4. GlobalsTypes'
  BY <1>t, <1>0, <1>3 DEF GlobalsTypes, HandGoes
<1>5. WorkerRight' /\ ReadsOneSnapshot' /\ AcknowledgedIsSeen'
  BY <1>0 DEF GlobalsInv, WorkerRight, ReadsOneSnapshot, AcknowledgedIsSeen
<1>6. ASSUME NEW v \in Updates, NEW m \in Nodes PROVE HandlerRight(v, m)'
  <2>1. HandlerRight(v, m)
    BY DEF GlobalsInv
  <2>2. CASE v = u /\ m = n
    BY <2>1, <2>2, <1>0, <1>2, <1>3 DEF HandlerRight, HandGoes
  <2>3. CASE v # u \/ m # n
    BY <2>1, <2>3, <1>0, <1>3 DEF HandlerRight, HandGoes
  <2> QED
    BY <2>2, <2>3
<1>7. ASSUME ~mixed' PROVE Unmixed'
  <2>0. Unmixed
    BY <1>7, <1>0 DEF GlobalsInv
  <2>1. ASSUME NEW v \in Updates, NEW m \in Nodes PROVE HandlerSees(v, m)'
    <3>1. HandlerSees(v, m)
      BY <2>0 DEF Unmixed
    <3>2. CASE v = u /\ m = n
      BY <3>1, <3>2, <1>0, <1>2, <1>3 DEF HandlerSees, HandGoes, Works
    <3>3. CASE v # u \/ m # n
      BY <3>1, <3>3, <1>0, <1>3 DEF HandlerSees, HandGoes, Works
    <3> QED
      BY <3>2, <3>3
  <2>2. ASSUME NEW m \in Nodes PROVE ReplicaHas(m)'
    <3>1. ReplicaHas(m)
      BY <2>0 DEF Unmixed
    <3>2. \A v \in Updates : (hand'[v][m].pc = "wrote") = (hand[v][m].pc = "wrote") /\ hand'[v][m].inc = hand[v][m].inc
      BY <1>2, <1>3 DEF HandGoes
    <3> QED
      BY <3>1, <3>2, <1>0 DEF ReplicaHas, Works
  <2>3. InOrder'
    BY <2>0, <1>t, <1>0, <1>3, OrderKept DEF Unmixed
  <2> QED
    BY <2>0, <2>1, <2>2, <2>3, <1>0 DEF Unmixed
<1> QED
  BY <1>4, <1>5, <1>6, <1>7 DEF GlobalsInv

\* A handler loads the snapshot and merges its values, or finds nothing to update.
LEMMA LoadKeeps ==
  ASSUME GlobalsInv, NEW u \in DOMAIN upds, NEW n \in Nodes, Load(u, n)
  PROVE  GlobalsInv'
<1>t. GlobalsTypes /\ u \in Updates /\ hand \in [Updates -> [Nodes -> HandType]] /\ hand[u][n] \in HandType
      /\ repl[n] \in ReplType /\ upds[u].patch \in PatchType /\ upds[u].plan \in Seq(SUBSET GlobalNames)
      /\ acked[n] \in Values /\ upds[u] \in UpdType
  <2>1. GlobalsTypes
    BY DEF GlobalsInv
  <2> QED
    BY <2>1, TypesOf
<1> DEFINE o == hand[u][n]
           names == upds[u].plan[o.batch]
           base == IF kind = "service" THEN repl[n].digest ELSE repl[n].state
           some == [x \in names |-> upds[u].patch[x]]
           g == IF Refused(u, n) THEN [o EXCEPT !.pc = "over", !.lost = TRUE]
                ELSE [o EXCEPT !.pc = "loaded", !.new = Merge(base, some)]
<1>0. /\ o.pc = "sent" /\ ~o.lost /\ mixed' = (mixed \/ Busy(n) # {})
      /\ UNCHANGED <<kind, repl, sess, last, upds, wait, comp, calls, faults, acked>>
  BY DEF Load
<1>r. HandlerRight(u, n)
  BY <1>t DEF GlobalsInv
<1>a. u \in Active /\ n \in upds[u].to /\ o.batch \in 1..Len(upds[u].plan)
  BY <1>0, <1>r, <1>t DEF HandlerRight, Active, UpdType
<1>n. names \in SUBSET DOMAIN upds[u].patch
  <2>1. DOMAIN upds[u].patch = UNION {upds[u].plan[i] : i \in 1..Len(upds[u].plan)}
    BY <1>t DEF GlobalsTypes
  <2> QED
    BY <2>1, <1>a
<1>s. some \in PatchType /\ DOMAIN some = names /\ \A x \in names : some[x] = upds[u].patch[x]
  BY <1>n, <1>t, BatchHas
<1>b. base \in Values
  BY <1>t DEF ReplType
<1>m. Merge(base, some) \in Values
      /\ \A x \in GlobalNames : Merge(base, some)[x] = IF x \in names THEN upds[u].patch[x] ELSE base[x]
  <2> HIDE DEF base, some
  <2> QED
    BY <1>s, <1>b, MergeHas
<1>1. hand' = [hand EXCEPT ![u][n] = g]
  BY <1>t DEF Load
<1> HIDE DEF names, base, some
<1>2. /\ g \in HandType /\ g.inc = o.inc /\ g.batch = o.batch
      /\ Refused(u, n) => g.pc = "over" /\ g.lost
      /\ ~Refused(u, n) => g.pc = "loaded" /\ ~g.lost /\ g.new = Merge(base, some)
  <2> HIDE DEF Refused
  <2>1. CASE Refused(u, n)
    BY <2>1, <1>0, <1>t DEF HandType, HandlerPcs
  <2>2. CASE ~Refused(u, n)
    BY <2>2, <1>0, <1>t, <1>m DEF HandType, HandlerPcs
  <2> QED
    BY <2>1, <2>2
<1> HIDE DEF g
<1>3. HandGoes(u, n, g)
  BY <1>1, <1>2, <1>t, HandSet
<1>4. GlobalsTypes'
  BY <1>t, <1>0, <1>3 DEF GlobalsTypes, HandGoes
<1>5. WorkerRight' /\ ReadsOneSnapshot' /\ AcknowledgedIsSeen'
  BY <1>0 DEF GlobalsInv, WorkerRight, ReadsOneSnapshot, AcknowledgedIsSeen
<1>6. ASSUME NEW v \in Updates, NEW m \in Nodes PROVE HandlerRight(v, m)'
  <2>1. HandlerRight(v, m)
    BY DEF GlobalsInv
  <2>2. CASE v = u /\ m = n
    BY <2>1, <2>2, <1>0, <1>a, <1>2, <1>3 DEF HandlerRight, HandGoes, Active
  <2>3. CASE v # u \/ m # n
    BY <2>1, <2>3, <1>0, <1>3 DEF HandlerRight, HandGoes
  <2> QED
    BY <2>2, <2>3
<1>7. ASSUME ~mixed' PROVE Unmixed'
  <2>0. Unmixed /\ Busy(n) = {}
    BY <1>7, <1>0 DEF GlobalsInv
  <2>w. \A v \in Updates : hand[v][n].pc \notin {"loaded", "wrote", "committed"}
    <3> SUFFICES ASSUME NEW v \in Updates, hand[v][n].pc \in {"loaded", "wrote", "committed"} PROVE FALSE
      OBVIOUS
    <3>1. HandlerRight(v, n)
      BY DEF GlobalsInv
    <3>2. v \in DOMAIN upds
      BY <3>1 DEF HandlerRight
    <3> QED
      BY <3>2, <2>0 DEF Busy
  <2>s. HandlerSees(u, n) /\ ReplicaHas(n)
    BY <1>t, <2>0 DEF Unmixed
  <2>b. ~Refused(u, n) => Works(u, n) /\ base = repl[n].digest
    <3> SUFFICES ASSUME ~Refused(u, n) PROVE Works(u, n) /\ base = repl[n].digest
      OBVIOUS
    <3>1. Works(u, n)
      BY DEF Refused, Works
    <3>2. CASE kind = "service"
      BY <3>1, <3>2 DEF base
    <3>3. CASE kind # "service"
      <4>1. kind = "pool"
        BY <3>3, <1>t, ManagedGlobalsAssumption DEF GlobalsTypes
      <4> QED
        BY <4>1, <3>1, <2>w, <2>s DEF base, ReplicaHas, Works
    <3> QED
      BY <3>2, <3>3
  <2>n. ~Refused(u, n) => /\ \A x \in GlobalNames : acked[n][x] <= g.new[x]
                          /\ \A j \in 1..g.batch : \A x \in upds[u].plan[j] : g.new[x] = upds[u].patch[x]
    <3> SUFFICES ASSUME ~Refused(u, n)
                 PROVE  /\ \A x \in GlobalNames : acked[n][x] <= g.new[x]
                        /\ \A j \in 1..g.batch : \A x \in upds[u].plan[j] : g.new[x] = upds[u].patch[x]
      OBVIOUS
    <3>1. \A x \in GlobalNames : g.new[x] = IF x \in names THEN upds[u].patch[x] ELSE repl[n].digest[x]
      BY <1>2, <1>m, <2>b
    <3>2. \A x \in DOMAIN upds[u].patch : acked[n][x] <= upds[u].patch[x]
      BY <2>0, <1>a DEF Unmixed, InOrder
    <3>3. \A x \in GlobalNames : acked[n][x] <= repl[n].digest[x]
      BY <2>s, <2>b DEF ReplicaHas, Works
    <3>4. ASSUME NEW j \in 1..o.batch, NEW x \in upds[u].plan[j] PROVE g.new[x] = upds[u].patch[x]
      <4>1. x \in GlobalNames
        <5>1. j \in 1..Len(upds[u].plan)
          BY <1>a, <1>t DEF HandType
        <5> QED
          BY <5>1, <1>t
      <4>2. CASE x \in names
        BY <4>1, <4>2, <3>1
      <4>3. CASE x \notin names
        <5>1. j < o.batch
          BY <4>3, <1>a, <1>t DEF names, HandType
        <5>2. repl[n].digest[x] = upds[u].patch[x]
          BY <5>1, <2>s, <2>b, <1>0 DEF HandlerSees
        <5> QED
          BY <4>1, <4>3, <5>2, <3>1
      <4> QED
        BY <4>2, <4>3
    <3> QED
      BY <3>1, <3>2, <3>3, <3>4, <1>n, <1>2
  <2>1. ASSUME NEW v \in Updates, NEW m \in Nodes PROVE HandlerSees(v, m)'
    <3>1. HandlerSees(v, m)
      BY <2>0 DEF Unmixed
    <3>2. CASE v = u /\ m = n
      BY <3>1, <3>2, <2>n, <1>0, <1>2, <1>3 DEF HandlerSees, HandGoes, Works
    <3>3. CASE v # u \/ m # n
      BY <3>1, <3>3, <1>0, <1>3 DEF HandlerSees, HandGoes, Works
    <3> QED
      BY <3>2, <3>3
  <2>2. ASSUME NEW m \in Nodes PROVE ReplicaHas(m)'
    <3>1. ReplicaHas(m)
      BY <2>0 DEF Unmixed
    <3>2. \A v \in Updates : (hand'[v][m].pc = "wrote") = (hand[v][m].pc = "wrote") /\ hand'[v][m].inc = hand[v][m].inc
      BY <1>0, <1>2, <1>3 DEF HandGoes
    <3> QED
      BY <3>1, <3>2, <1>0 DEF ReplicaHas, Works
  <2>3. InOrder'
    BY <2>0, <1>t, <1>0, <1>3, OrderKept DEF Unmixed
  <2> QED
    BY <2>0, <2>1, <2>2, <2>3, <1>0 DEF Unmixed
<1> QED
  BY <1>4, <1>5, <1>6, <1>7 DEF GlobalsInv

\* What the workers have stays when a step leaves them and their queues alone.
LEMMA WorkersSame ==
  ASSUME GlobalsInv, UNCHANGED calls, sess' \subseteq sess, mixed => mixed',
         \A n \in Nodes : /\ repl'[n].st = repl[n].st /\ repl'[n].cache = repl[n].cache
                          /\ repl'[n].vals = repl[n].vals /\ repl'[n].queue = repl[n].queue
  PROVE  WorkerRight' /\ ReadsOneSnapshot' /\ AcknowledgedIsSeen'
<1>1. WorkerRight /\ ReadsOneSnapshot /\ AcknowledgedIsSeen /\ sess \subseteq Nodes
  BY DEF GlobalsInv, GlobalsTypes
<1>2. ReadsOneSnapshot' /\ AcknowledgedIsSeen'
  BY <1>1 DEF ReadsOneSnapshot, AcknowledgedIsSeen
<1>3. \A n \in Nodes, x \in GlobalNames : repl'[n].cache[x] # 0 => repl'[n].vals[x] = repl'[n].cache[x]
  BY <1>1 DEF WorkerRight
<1>4. ASSUME NEW n \in Nodes, NEW i \in DOMAIN repl'[n].queue, repl'[n].queue[i].call \in Calls
      PROVE  calls'[repl'[n].queue[i].call].pc # "new"
             /\ calls'[repl'[n].queue[i].call].snap = repl'[n].queue[i].snap
  <2>1. i \in DOMAIN repl[n].queue /\ repl'[n].queue[i] = repl[n].queue[i]
    OBVIOUS
  <2> QED
    BY <1>1, <1>4, <2>1 DEF WorkerRight
<1>5. \A n \in sess' : repl'[n].st = "ready"
  BY <1>1 DEF WorkerRight
<1> QED
  BY <1>2, <1>3, <1>4, <1>5 DEF WorkerRight

\* A handler writes the snapshot: the pools of a client share it from here on.
LEMMA WriteKeeps ==
  ASSUME GlobalsInv, NEW u \in DOMAIN upds, NEW n \in Nodes, Write(u, n)
  PROVE  GlobalsInv'
<1>t. GlobalsTypes /\ u \in Updates /\ hand \in [Updates -> [Nodes -> HandType]] /\ hand[u][n] \in HandType
      /\ repl \in [Nodes -> ReplType] /\ repl[n] \in ReplType
  <2>1. GlobalsTypes
    BY DEF GlobalsInv
  <2> QED
    BY <2>1, TypesOf
<1> DEFINE o == hand[u][n]
           g == [o EXCEPT !.pc = "wrote"]
           s == IF kind = "pool" /\ repl[n].inc = o.inc THEN o.new ELSE repl[n].state
           r == [repl[n] EXCEPT !.state = s]
<1>0. o.pc = "loaded" /\ UNCHANGED <<kind, sess, last, upds, wait, comp, calls, faults, acked, mixed>>
  BY DEF Write
<1>1. hand' = [hand EXCEPT ![u][n] = g] /\ repl' = [repl EXCEPT ![n] = r]
  BY <1>t DEF Write
<1>2. g \in HandType /\ g.pc = "wrote" /\ g.inc = o.inc /\ g.batch = o.batch /\ g.new = o.new /\ g.lost = o.lost
  BY <1>t DEF HandType, HandlerPcs
<1>s. s \in Values
  BY <1>t DEF ReplType, HandType
<1> HIDE DEF g
<1>r. /\ r \in ReplType /\ r.st = repl[n].st /\ r.inc = repl[n].inc /\ r.digest = repl[n].digest /\ r.state = s
      /\ r.cache = repl[n].cache /\ r.vals = repl[n].vals /\ r.queue = repl[n].queue
  <2> HIDE DEF s
  <2> QED
    BY <1>s, <1>t DEF ReplType
<1> HIDE DEF r
<1>3. HandGoes(u, n, g) /\ ReplGoes(n, r)
  BY <1>1, <1>2, <1>r, <1>t, HandSet, ReplSet
<1>4. GlobalsTypes'
  BY <1>t, <1>0, <1>3 DEF GlobalsTypes, HandGoes, ReplGoes
<1>e. \A m \in Nodes : /\ repl'[m].st = repl[m].st /\ repl'[m].inc = repl[m].inc /\ repl'[m].digest = repl[m].digest
                       /\ repl'[m].cache = repl[m].cache /\ repl'[m].vals = repl[m].vals
                       /\ repl'[m].queue = repl[m].queue
  BY <1>3, <1>r DEF ReplGoes
<1>5. WorkerRight' /\ ReadsOneSnapshot' /\ AcknowledgedIsSeen'
  BY <1>0, <1>e, WorkersSame
<1>6. ASSUME NEW v \in Updates, NEW m \in Nodes PROVE HandlerRight(v, m)'
  <2>1. HandlerRight(v, m)
    BY DEF GlobalsInv
  <2>2. CASE v = u /\ m = n
    BY <2>1, <2>2, <1>0, <1>2, <1>3, <1>e DEF HandlerRight, HandGoes
  <2>3. CASE v # u \/ m # n
    BY <2>1, <2>3, <1>0, <1>3, <1>e DEF HandlerRight, HandGoes
  <2> QED
    BY <2>2, <2>3
<1>7. ASSUME ~mixed' PROVE Unmixed'
  <2>0. Unmixed
    BY <1>7, <1>0 DEF GlobalsInv
  <2>s. \A v \in Updates, m \in Nodes : HandlerSees(v, m)
    BY <2>0 DEF Unmixed
  <2>o. \A v \in Updates : v # u => hand[v][n].pc \in {"none", "over"} /\ hand'[v][n] = hand[v][n]
    BY SMTT(40), <2>s, <1>t, <1>0, <1>3 DEF HandlerSees, HandGoes
  <2>1. ASSUME NEW v \in Updates, NEW m \in Nodes PROVE HandlerSees(v, m)'
    <3>2. CASE v = u /\ m = n
      <4>1. Works(u, n)' /\ kind = "pool" => repl'[n].state = g.new
        BY <1>e, <1>0, <1>2, <1>3, <1>r DEF Works, HandGoes, ReplGoes, s
      <4> QED
        BY <4>1, <2>s, <3>2, <1>0, <1>2, <1>3, <1>e DEF HandlerSees, HandGoes, Works
    <3>3. CASE v # u /\ m = n
      BY <2>s, <2>o, <3>3, <1>0 DEF HandlerSees
    <3>4. CASE m # n
      <4>1. hand'[v][m] = hand[v][m] /\ repl'[m] = repl[m] /\ HandlerSees(v, m)
        BY <2>s, <3>4, <1>3 DEF HandGoes, ReplGoes
      <4> QED
        BY <4>1, <1>0 DEF HandlerSees, Works
    <3> QED
      BY <3>2, <3>3, <3>4
  <2>2. ASSUME NEW m \in Nodes PROVE ReplicaHas(m)'
    <3>1. ReplicaHas(m)
      BY <2>0 DEF Unmixed
    <3>2. CASE m # n
      <4>1. repl'[m] = repl[m] /\ \A v \in Updates : hand'[v][m] = hand[v][m]
        BY <3>2, <1>3 DEF HandGoes, ReplGoes
      <4> QED
        BY <4>1, <3>1, <1>0 DEF ReplicaHas, Works
    <3>3. CASE m = n
      <4> SUFFICES ASSUME repl'[n].st # "gone", kind = "pool",
                          \A v \in Updates : ~(Works(v, n)' /\ hand'[v][n].pc = "wrote")
                   PROVE  repl'[n].state = repl'[n].digest
        BY <3>1, <3>3, <1>e, <1>0 DEF ReplicaHas
      <4>1. ~Works(u, n)
        BY <1>t, <1>e, <1>2, <1>3 DEF Works, HandGoes
      <4>2. repl[n].inc # o.inc
        BY <4>1, <1>e DEF Works
      <4>3. repl'[n].state = repl[n].state
        BY <4>2, <1>r, <1>3 DEF ReplGoes, s
      <4>4. \A v \in Updates : ~(Works(v, n) /\ hand[v][n].pc = "wrote")
        BY <4>1, <2>o
      <4> QED
        BY <3>1, <3>3, <4>3, <4>4, <1>e DEF ReplicaHas
    <3> QED
      BY <3>2, <3>3
  <2>3. InOrder'
    BY <2>0, <1>t, <1>0, <1>3, OrderKept DEF Unmixed
  <2> QED
    BY <2>0, <2>1, <2>2, <2>3, <1>0 DEF Unmixed
<1> QED
  BY <1>4, <1>5, <1>6, <1>7 DEF GlobalsInv

\* The digest of the replica moves on, if it is still the same replica.
LEMMA CommitKeeps ==
  ASSUME GlobalsInv, NEW u \in DOMAIN upds, NEW n \in Nodes, Commit(u, n)
  PROVE  GlobalsInv'
<1>t. GlobalsTypes /\ u \in Updates /\ hand \in [Updates -> [Nodes -> HandType]] /\ hand[u][n] \in HandType
      /\ repl \in [Nodes -> ReplType] /\ repl[n] \in ReplType
  <2>1. GlobalsTypes
    BY DEF GlobalsInv
  <2> QED
    BY <2>1, TypesOf
<1> DEFINE o == hand[u][n]
           l == IF o.lost THEN "over" ELSE "committed"
           g == [o EXCEPT !.pc = l]
           s == IF repl[n].st # "gone" /\ repl[n].inc = o.inc THEN o.new ELSE repl[n].digest
           r == [repl[n] EXCEPT !.digest = s]
<1>0. o.pc = "wrote" /\ UNCHANGED <<kind, sess, last, upds, wait, comp, calls, faults, acked, mixed>>
  BY DEF Commit
<1>1. hand' = [hand EXCEPT ![u][n] = g] /\ repl' = [repl EXCEPT ![n] = r]
  BY <1>t DEF Commit
<1>2. g \in HandType /\ g.pc = l /\ g.inc = o.inc /\ g.batch = o.batch /\ g.new = o.new /\ g.lost = o.lost
  BY <1>t DEF HandType, HandlerPcs
<1>s. s \in Values
  BY <1>t DEF ReplType, HandType
<1> HIDE DEF g
<1>r. /\ r \in ReplType /\ r.st = repl[n].st /\ r.inc = repl[n].inc /\ r.digest = s /\ r.state = repl[n].state
      /\ r.cache = repl[n].cache /\ r.vals = repl[n].vals /\ r.queue = repl[n].queue
  <2> HIDE DEF s
  <2> QED
    BY <1>s, <1>t DEF ReplType
<1> HIDE DEF r
<1>3. HandGoes(u, n, g) /\ ReplGoes(n, r)
  BY <1>1, <1>2, <1>r, <1>t, HandSet, ReplSet
<1>4. GlobalsTypes'
  BY <1>t, <1>0, <1>3 DEF GlobalsTypes, HandGoes, ReplGoes
<1>e. \A m \in Nodes : /\ repl'[m].st = repl[m].st /\ repl'[m].inc = repl[m].inc /\ repl'[m].state = repl[m].state
                       /\ repl'[m].cache = repl[m].cache /\ repl'[m].vals = repl[m].vals
                       /\ repl'[m].queue = repl[m].queue
  BY <1>3, <1>r DEF ReplGoes
<1>d. repl'[n].digest = IF Works(u, n) THEN o.new ELSE repl[n].digest
  BY <1>3, <1>r DEF ReplGoes, s, Works
<1>5. WorkerRight' /\ ReadsOneSnapshot' /\ AcknowledgedIsSeen'
  BY <1>0, <1>e, WorkersSame
<1>6. ASSUME NEW v \in Updates, NEW m \in Nodes PROVE HandlerRight(v, m)'
  <2>1. HandlerRight(v, m)
    BY DEF GlobalsInv
  <2>2. CASE v = u /\ m = n
    BY <2>1, <2>2, <1>0, <1>2, <1>3, <1>e DEF HandlerRight, HandGoes
  <2>3. CASE v # u \/ m # n
    BY <2>1, <2>3, <1>0, <1>3, <1>e DEF HandlerRight, HandGoes
  <2> QED
    BY <2>2, <2>3
<1>7. ASSUME ~mixed' PROVE Unmixed'
  <2>0. Unmixed
    BY <1>7, <1>0 DEF GlobalsInv
  <2>s. \A v \in Updates, m \in Nodes : HandlerSees(v, m)
    BY <2>0 DEF Unmixed
  <2>o. \A v \in Updates : v # u => hand[v][n].pc \in {"none", "over"} /\ hand'[v][n] = hand[v][n]
    BY SMTT(40), <2>s, <1>t, <1>0, <1>3 DEF HandlerSees, HandGoes
  <2>1. ASSUME NEW v \in Updates, NEW m \in Nodes PROVE HandlerSees(v, m)'
    <3>2. CASE v = u /\ m = n
      BY <2>s, <3>2, <1>0, <1>2, <1>3, <1>e, <1>d DEF HandlerSees, HandGoes, Works
    <3>3. CASE v # u /\ m = n
      BY <2>s, <2>o, <3>3, <1>0 DEF HandlerSees
    <3>4. CASE m # n
      <4>1. hand'[v][m] = hand[v][m] /\ repl'[m] = repl[m] /\ HandlerSees(v, m)
        BY <2>s, <3>4, <1>3 DEF HandGoes, ReplGoes
      <4> QED
        BY <4>1, <1>0 DEF HandlerSees, Works
    <3> QED
      BY <3>2, <3>3, <3>4
  <2>2. ASSUME NEW m \in Nodes PROVE ReplicaHas(m)'
    <3>1. ReplicaHas(m)
      BY <2>0 DEF Unmixed
    <3>2. CASE m # n
      <4>1. repl'[m] = repl[m] /\ \A v \in Updates : hand'[v][m] = hand[v][m]
        BY <3>2, <1>3 DEF HandGoes, ReplGoes
      <4> QED
        BY <4>1, <3>1, <1>0 DEF ReplicaHas, Works
    <3>3. CASE m = n /\ Works(u, n)
      <4>1. HandlerSees(u, n)
        BY <2>s, <1>t
      <4>2. \A x \in GlobalNames : acked[n][x] <= repl'[n].digest[x]
        BY <4>1, <3>3, <1>0, <1>d DEF HandlerSees
      <4>3. kind = "pool" => repl'[n].state = repl'[n].digest
        BY <4>1, <3>3, <1>0, <1>d, <1>e DEF HandlerSees
      <4> QED
        BY <4>2, <4>3, <3>1, <3>3, <1>0, <1>e DEF ReplicaHas
    <3>4. CASE m = n /\ ~Works(u, n)
      <4>1. \A v \in Updates : ~(Works(v, n) /\ hand[v][n].pc = "wrote")
        BY <2>o, <3>4
      <4> QED
        BY <3>1, <3>4, <4>1, <1>0, <1>d, <1>e DEF ReplicaHas
    <3> QED
      BY <3>2, <3>3, <3>4
  <2>3. InOrder'
    BY <2>0, <1>t, <1>0, <1>3, OrderKept DEF Unmixed
  <2> QED
    BY <2>0, <2>1, <2>2, <2>3, <1>0 DEF Unmixed
<1> QED
  BY <1>4, <1>5, <1>6, <1>7 DEF GlobalsInv

\* A warmup at the end of the queue of a replica is no call.
LEMMA WarmupKeeps ==
  ASSUME GlobalsInv, NEW n \in Nodes, NEW r \in ReplType, ReplGoes(n, r), NEW s \in Values,
         r.queue = repl[n].queue \/ r.queue = Append(repl[n].queue, [call |-> 0, snap |-> s]),
         r.cache = repl[n].cache, r.vals = repl[n].vals, repl[n].st = "ready" => r.st = "ready",
         UNCHANGED <<sess, calls>>, mixed => mixed'
  PROVE  WorkerRight' /\ ReadsOneSnapshot' /\ AcknowledgedIsSeen'
<1>1. WorkerRight /\ ReadsOneSnapshot /\ AcknowledgedIsSeen /\ repl \in [Nodes -> ReplType] /\ 0 \notin Calls
      /\ sess \subseteq Nodes
  BY ManagedGlobalsAssumption DEF GlobalsInv, GlobalsTypes
<1>2. ReadsOneSnapshot' /\ AcknowledgedIsSeen'
  BY <1>1 DEF ReadsOneSnapshot, AcknowledgedIsSeen
<1>3. \A m \in Nodes, x \in GlobalNames : repl'[m].cache[x] # 0 => repl'[m].vals[x] = repl'[m].cache[x]
  BY <1>1 DEF WorkerRight, ReplGoes
<1>4. ASSUME NEW m \in Nodes, NEW i \in DOMAIN repl'[m].queue, repl'[m].queue[i].call \in Calls
      PROVE  calls'[repl'[m].queue[i].call].pc # "new"
             /\ calls'[repl'[m].queue[i].call].snap = repl'[m].queue[i].snap
  <2>1. i \in DOMAIN repl[m].queue /\ repl'[m].queue[i] = repl[m].queue[i]
    <3>1. CASE m # n \/ r.queue = repl[n].queue
      BY <3>1 DEF ReplGoes
    <3>2. CASE m = n /\ r.queue = Append(repl[n].queue, [call |-> 0, snap |-> s])
      <4> DEFINE q == repl[n].queue
                 e == [call |-> 0, snap |-> s]
      <4>1. q \in Seq(ItemType) /\ e.call = 0 /\ e \in ItemType
        BY <1>1 DEF ReplType, ItemType
      <4>2. repl'[m].queue = Append(q, e)
        BY <3>2 DEF ReplGoes
      <4> HIDE DEF q, e
      <4>3. Append(q, e)[Len(q) + 1] = e /\ \A j \in 1..Len(q) : Append(q, e)[j] = q[j]
        BY <4>1
      <4>4. i \in 1..(Len(q) + 1) /\ Len(q) \in Nat
        BY <4>1, <4>2
      <4>5. i # Len(q) + 1
        BY <4>1, <4>2, <4>3, <1>1, <1>4
      <4>6. i \in 1..Len(q) /\ DOMAIN q = 1..Len(q)
        BY <4>1, <4>4, <4>5
      <4> QED
        BY <4>2, <4>3, <4>6, <3>2 DEF q
    <3> QED
      BY <3>1, <3>2
  <2> QED
    BY <1>1, <1>4, <2>1 DEF WorkerRight
<1>5. \A m \in sess' : repl'[m].st = "ready"
  BY <1>1 DEF WorkerRight, ReplGoes
<1> QED
  BY <1>2, <1>3, <1>4, <1>5 DEF WorkerRight

\* The answer: the next batch, or the acknowledgement of the update.
LEMMA AnswerKeeps ==
  ASSUME GlobalsInv, NEW u \in DOMAIN upds, NEW n \in Nodes, Answer(u, n)
  PROVE  GlobalsInv'
<1>t. GlobalsTypes /\ u \in Updates /\ hand \in [Updates -> [Nodes -> HandType]] /\ hand[u][n] \in HandType
      /\ repl \in [Nodes -> ReplType] /\ repl[n] \in ReplType /\ upds[u] \in UpdType
      /\ upds[u].patch \in PatchType /\ upds[u].plan \in Seq(SUBSET GlobalNames) /\ acked \in [Nodes -> Values]
  <2>1. GlobalsTypes
    BY DEF GlobalsInv
  <2> QED
    BY <2>1, TypesOf
<1> DEFINE o == hand[u][n]
           more == o.batch < Len(upds[u].plan)
           l == IF more THEN "sent" ELSE "over"
           b == IF more THEN o.batch + 1 ELSE o.batch
           g == [o EXCEPT !.pc = l, !.batch = b]
           q == IF repl[n].inc = o.inc /\ repl[n].st # "gone"
                  THEN Append(repl[n].queue, [call |-> 0, snap |-> o.new]) ELSE repl[n].queue
           r == [repl[n] EXCEPT !.queue = q]
           a == IF ~more /\ repl[n].inc = o.inc THEN Merge(acked[n], upds[u].patch) ELSE acked[n]
<1>0. o.pc = "committed" /\ UNCHANGED <<kind, sess, last, upds, wait, comp, calls, faults, mixed>>
  BY DEF Answer
<1>1. hand' = [hand EXCEPT ![u][n] = g] /\ repl' = [repl EXCEPT ![n] = r] /\ acked' = [acked EXCEPT ![n] = a]
  BY <1>t DEF Answer
<1>n. HandlerRight(u, n) /\ Len(upds[u].plan) \in Nat /\ o.batch \in Nat
  BY <1>t DEF GlobalsInv, HandType
<1>b. o.batch \in 1..Len(upds[u].plan) /\ ~o.lost /\ n \in upds[u].to /\ u \in Active
  BY <1>0, <1>n, <1>t DEF HandlerRight, Active, UpdType
<1>2. /\ g \in HandType /\ g.inc = o.inc /\ g.new = o.new /\ g.lost = o.lost
      /\ more => g.pc = "sent" /\ g.batch = o.batch + 1
      /\ ~more => g.pc = "over" /\ g.batch = o.batch
  <2>1. l \in {"sent", "over"} /\ b \in Nat
    BY <1>n
  <2> HIDE DEF l, b
  <2>2. g \in HandType /\ g.pc = l /\ g.batch = b /\ g.inc = o.inc /\ g.new = o.new /\ g.lost = o.lost
    BY <2>1, <1>t DEF HandType, HandlerPcs
  <2> QED
    BY <2>2 DEF l, b
<1> HIDE DEF g
<1>q. q \in Seq(ItemType) /\ o.new \in Values
      /\ (q = repl[n].queue \/ q = Append(repl[n].queue, [call |-> 0, snap |-> o.new]))
  <2>1. o.new \in Values /\ [call |-> 0, snap |-> o.new] \in ItemType /\ repl[n].queue \in Seq(ItemType)
    BY <1>t DEF HandType, ItemType, ReplType
  <2> DEFINE e == [call |-> 0, snap |-> o.new]
             I == ItemType
  <2>2. e \in I /\ repl[n].queue \in Seq(I)
    BY <2>1
  <2> HIDE DEF e, I
  <2>3. Append(repl[n].queue, e) \in Seq(I)
    BY <2>2
  <2> QED
    BY <2>1, <2>2, <2>3 DEF e, I
<1>r. /\ r \in ReplType /\ r.st = repl[n].st /\ r.inc = repl[n].inc /\ r.digest = repl[n].digest
      /\ r.state = repl[n].state /\ r.cache = repl[n].cache /\ r.vals = repl[n].vals /\ r.queue = q
  <2> HIDE DEF q
  <2> DEFINE I == Seq(ItemType)
  <2>1. ReplType = [st : {"ready", "warming", "gone"}, inc : Nat, digest : Values, state : Values,
              cache : Values, vals : Values, queue : I] /\ q \in I
    BY <1>q DEF ReplType
  <2> HIDE DEF I
  <2> QED
    BY <2>1, <1>t
<1> HIDE DEF r
<1>a. a \in Values /\ acked' \in [Nodes -> Values] /\ acked'[n] = a
      /\ \A m \in Nodes : m # n => acked'[m] = acked[m]
  <2>1. a \in Values
    BY <1>t, MergeHas
  <2> HIDE DEF a
  <2> QED
    BY <2>1, <1>1, <1>t
<1>m. \A x \in GlobalNames :
        a[x] = IF ~more /\ repl[n].inc = o.inc /\ x \in DOMAIN upds[u].patch THEN upds[u].patch[x] ELSE acked[n][x]
  BY <1>t, MergeHas
<1> HIDE DEF a
<1>3. HandGoes(u, n, g) /\ ReplGoes(n, r)
  BY <1>1, <1>2, <1>r, <1>t, HandSet, ReplSet
<1>4. GlobalsTypes'
  BY <1>t, <1>0, <1>3, <1>a DEF GlobalsTypes, HandGoes, ReplGoes
<1>e. \A m \in Nodes : /\ repl'[m].st = repl[m].st /\ repl'[m].inc = repl[m].inc /\ repl'[m].digest = repl[m].digest
                       /\ repl'[m].state = repl[m].state
  BY <1>3, <1>r DEF ReplGoes
<1>5. WorkerRight' /\ ReadsOneSnapshot' /\ AcknowledgedIsSeen'
  BY <1>0, <1>3, <1>q, <1>r, WarmupKeeps
<1>6. ASSUME NEW v \in Updates, NEW m \in Nodes PROVE HandlerRight(v, m)'
  <2>1. HandlerRight(v, m)
    BY DEF GlobalsInv
  <2>2. CASE v = u /\ m = n
    <3>1. CASE more
      BY <2>1, <2>2, <3>1, <1>0, <1>b, <1>n, <1>2, <1>3, <1>e DEF HandlerRight, HandGoes, Active
    <3>2. CASE ~more
      BY <2>1, <2>2, <3>2, <1>0, <1>b, <1>n, <1>2, <1>3, <1>e DEF HandlerRight, HandGoes, Active
    <3> QED
      BY <3>1, <3>2
  <2>3. CASE v # u \/ m # n
    BY <2>1, <2>3, <1>0, <1>3, <1>e DEF HandlerRight, HandGoes
  <2> QED
    BY <2>2, <2>3
<1>7. ASSUME ~mixed' PROVE Unmixed'
  <2>0. Unmixed /\ InOrder
    BY <1>7, <1>0 DEF GlobalsInv, Unmixed
  <2>s. \A v \in Updates, m \in Nodes : HandlerSees(v, m)
    BY <2>0 DEF Unmixed
  <2>o. \A v \in Updates : v # u => hand[v][n].pc \in {"none", "over"} /\ hand'[v][n] = hand[v][n]
    BY SMTT(40), <2>s, <1>t, <1>0, <1>3 DEF HandlerSees, HandGoes
  <2>d. Works(u, n) => /\ repl[n].digest = o.new
                       /\ \A j \in 1..o.batch : \A x \in upds[u].plan[j] : repl[n].digest[x] = upds[u].patch[x]
    BY <2>s, <1>t, <1>0 DEF HandlerSees
  <2>p. DOMAIN upds[u].patch \in SUBSET GlobalNames /\ \A x \in DOMAIN upds[u].patch : acked[n][x] <= upds[u].patch[x]
    BY <2>0, <1>t, <1>b, PatchHas DEF InOrder
  <2>1. ASSUME NEW v \in Updates, NEW m \in Nodes PROVE HandlerSees(v, m)'
    <3>2. CASE v = u /\ m = n
      <4>1. CASE more
        <5>1. Works(u, n)' => \A j \in 1..g.batch : j < g.batch
                                 => \A x \in upds[u].plan[j] : repl[n].digest[x] = upds[u].patch[x]
          <6> SUFFICES ASSUME Works(u, n)', NEW j \in 1..g.batch, j < g.batch, NEW x \in upds[u].plan[j]
                       PROVE  repl[n].digest[x] = upds[u].patch[x]
            OBVIOUS
          <6>1. j \in 1..o.batch
            BY <4>1, <1>2, <1>n
          <6>2. Works(u, n)
            BY <1>e, <1>2, <1>3 DEF Works, HandGoes
          <6> QED
            BY <6>1, <6>2, <2>d
        <5>2. u = Len(upds)
          BY <2>s, <1>t, <1>0 DEF HandlerSees
        <5> QED
          BY <5>1, <5>2, <4>1, <3>2, <1>0, <1>2, <1>3, <1>e DEF HandlerSees, HandGoes
      <4>2. CASE ~more
        BY <4>2, <3>2, <1>2, <1>3 DEF HandlerSees, HandGoes
      <4> QED
        BY <4>1, <4>2
    <3>3. CASE v # u /\ m = n
      BY <2>s, <2>o, <3>3, <1>0 DEF HandlerSees
    <3>4. CASE m # n
      <4>1. hand'[v][m] = hand[v][m] /\ repl'[m] = repl[m] /\ acked'[m] = acked[m] /\ HandlerSees(v, m)
        BY <2>s, <3>4, <1>3, <1>a DEF HandGoes, ReplGoes
      <4> QED
        BY <4>1, <1>0 DEF HandlerSees, Works
    <3> QED
      BY <3>2, <3>3, <3>4
  <2>2. ASSUME NEW m \in Nodes PROVE ReplicaHas(m)'
    <3>1. ReplicaHas(m)
      BY <2>0 DEF Unmixed
    <3>2. CASE m # n
      <4>1. repl'[m] = repl[m] /\ acked'[m] = acked[m] /\ \A v \in Updates : hand'[v][m] = hand[v][m]
        BY <3>2, <1>3, <1>a DEF HandGoes, ReplGoes
      <4> QED
        BY <4>1, <3>1, <1>0 DEF ReplicaHas, Works
    <3>3. CASE m = n
      <4> SUFFICES ASSUME repl[n].st # "gone"
                   PROVE  /\ \A x \in GlobalNames : acked'[n][x] <= repl[n].digest[x]
                          /\ kind = "pool" => repl[n].state = repl[n].digest
        <5>1. repl[n].st = "warming" => acked'[n] = acked[n]
          BY <1>n, <1>1, <1>t DEF HandlerRight, HandType, ReplType, a
        <5> QED
          BY <5>1, <3>1, <3>3, <1>0, <1>e DEF ReplicaHas
      <4>1. kind = "pool" => repl[n].state = repl[n].digest
        BY <3>1, <3>3, <2>o, <1>0 DEF ReplicaHas
      <4>2. ASSUME NEW x \in GlobalNames PROVE acked'[n][x] <= repl[n].digest[x]
        <5>1. CASE ~more /\ repl[n].inc = o.inc /\ x \in DOMAIN upds[u].patch
          <6>1. acked'[n][x] = upds[u].patch[x] /\ o.batch = Len(upds[u].plan)
            BY <5>1, <1>m, <1>a, <1>b, <1>n
          <6>2. PICK j \in 1..o.batch : x \in upds[u].plan[j]
            BY <6>1, <5>1, <1>t DEF GlobalsTypes
          <6>3. repl[n].digest[x] = upds[u].patch[x]
            BY <6>2, <5>1, <2>d DEF Works
          <6>4. repl[n].digest[x] \in Nat
            BY <1>t DEF ReplType, Values
          <6> QED
            BY <6>1, <6>3, <6>4
        <5>2. CASE ~(~more /\ repl[n].inc = o.inc /\ x \in DOMAIN upds[u].patch)
          BY <5>2, <1>m, <1>a, <3>1, <3>3 DEF ReplicaHas
        <5> QED
          BY <5>1, <5>2
      <4> QED
        BY <4>1, <4>2
    <3> QED
      BY <3>2, <3>3
  <2>c. \A x \in GlobalNames : acked'[n][x] = acked[n][x]
          \/ (~more /\ x \in DOMAIN upds[u].patch /\ acked'[n][x] = upds[u].patch[x])
    BY <1>m, <1>a
  <2>l. ASSUME NEW m \in Nodes PROVE LastIsNew(m)'
    <3>1. DOMAIN last \in SUBSET GlobalNames /\ last \in [DOMAIN last -> Nat]
      BY <1>t, PatchHas DEF GlobalsTypes
    <3> SUFFICES ASSUME NEW x \in DOMAIN last, ~(acked'[m][x] <= last[x])
                 PROVE  \E v \in Active : /\ upds[v].by = "user" /\ m \in upds[v].to
                                          /\ hand'[v][m].pc = "over" /\ ~hand'[v][m].lost
      BY <1>0 DEF LastIsNew, Active
    <3>2. CASE acked'[m][x] = acked[m][x]
      <4>1. PICK v \in Active : upds[v].by = "user" /\ m \in upds[v].to /\ hand[v][m].pc = "over" /\ ~hand[v][m].lost
        BY <3>2, <2>0 DEF InOrder, LastIsNew
      <4>2. v \in Updates
        BY <1>t, TypesOf DEF Active
      <4>3. hand'[v][m] = hand[v][m]
        BY <4>1, <4>2, <1>0, <1>3 DEF HandGoes
      <4> QED
        BY <4>1, <4>3
    <3>3. CASE acked'[m][x] # acked[m][x]
      <4>1. m = n /\ ~more /\ x \in DOMAIN upds[u].patch /\ acked'[n][x] = upds[u].patch[x]
        BY <3>1, <3>3, <2>c, <1>a
      <4>2. upds[u].by = "user"
        <5>1. upds[u].by = "replay" => upds[u].patch = last
          BY <2>0, <1>b DEF InOrder
        <5>2. last[x] \in Nat
          BY <3>1
        <5> QED
          BY <4>1, <5>1, <5>2, <1>t DEF UpdType
      <4>3. hand'[u][n].pc = "over" /\ ~hand'[u][n].lost
        BY <4>1, <1>b, <1>2, <1>3 DEF HandGoes
      <4> QED
        BY <4>1, <4>2, <4>3, <1>b
    <3> QED
      BY <3>2, <3>3
  <2>3. InOrder'
    <3>1. ASSUME NEW v \in Active, NEW m \in Nodes, NEW x \in DOMAIN upds[v].patch PROVE acked'[m][x] <= upds[v].patch[x]
      <4>1. v = u
        BY <2>0, <1>b DEF InOrder
      <4>2. acked[m][x] <= upds[v].patch[x] /\ x \in GlobalNames /\ upds[u].patch[x] \in Nat
        BY <2>0, <2>p, <4>1, <1>t, PatchHas DEF InOrder
      <4>3. acked'[m][x] = acked[m][x] \/ acked'[m][x] = upds[u].patch[x]
        BY <2>c, <4>2, <1>a
      <4> QED
        BY <4>1, <4>2, <4>3
    <3>2. ASSUME NEW m \in Nodes, NEW x \in GlobalNames PROVE acked'[m][x] <= Len(upds) + 1
      <4>1. acked'[m][x] = acked[m][x] \/ (x \in DOMAIN upds[u].patch /\ acked'[m][x] = upds[u].patch[x])
        BY <2>c, <1>a
      <4> QED
        BY <4>1, <2>0 DEF InOrder
    <3> QED
      BY <3>1, <3>2, <2>l, <2>0, <1>0 DEF InOrder, Active
  <2> QED
    BY <2>0, <2>1, <2>2, <2>3, <1>0 DEF Unmixed
<1> QED
  BY <1>4, <1>5, <1>6, <1>7 DEF GlobalsInv

\* A step that changes the workers and their queues only.
LEMMA ReplicasSame ==
  ASSUME Unmixed, UNCHANGED <<kind, last, upds, hand, wait, acked>>,
         \A n \in Nodes : /\ repl'[n].st = repl[n].st /\ repl'[n].inc = repl[n].inc
                          /\ repl'[n].digest = repl[n].digest /\ repl'[n].state = repl[n].state
  PROVE  /\ \A u \in Updates, n \in Nodes : HandlerSees(u, n)'
         /\ \A n \in Nodes : ReplicaHas(n)'
         /\ InOrder'
<1>1. ASSUME NEW u \in Updates, NEW n \in Nodes PROVE HandlerSees(u, n)'
  <2>1. HandlerSees(u, n)
    BY DEF Unmixed
  <2> QED
    BY <2>1 DEF HandlerSees, Works
<1>2. ASSUME NEW n \in Nodes PROVE ReplicaHas(n)'
  <2>1. ReplicaHas(n)
    BY DEF Unmixed
  <2> QED
    BY <2>1 DEF ReplicaHas, Works
<1>3. InOrder'
  BY DEF Unmixed, InOrder, LastIsNew, Active
<1> QED
  BY <1>1, <1>2, <1>3

\* A replica that no handler works on takes the place of another.
LEMMA FreshReplica ==
  ASSUME GlobalsInv, NEW n \in Nodes, NEW r \in ReplType, ReplGoes(n, r), mixed => mixed', ~mixed',
         UNCHANGED <<kind, last, upds, hand, wait, calls>>,
         acked' \in [Nodes -> Values], \A m \in Nodes : m # n => acked'[m] = acked[m],
         acked'[n] = acked[n] \/ acked'[n] = Unset,
         \A v \in Updates : r.st # "gone" => hand[v][n].inc < r.inc,
         r.st = "warming" => acked'[n] = Unset,
         r.st # "gone" => (\A x \in GlobalNames : acked'[n][x] <= r.digest[x]) /\ r.state = r.digest
  PROVE  Unmixed'
<1>0. Unmixed /\ GlobalsTypes
  BY DEF GlobalsInv
<1>w. ASSUME NEW v \in Updates PROVE ~Works(v, n)'
  <2>1. hand[v][n].inc \in Nat
    BY <1>0 DEF GlobalsTypes, HandType
  <2> QED
    BY <2>1 DEF Works, ReplGoes
<1>1. ASSUME NEW v \in Updates, NEW m \in Nodes PROVE HandlerSees(v, m)'
  <2>1. HandlerSees(v, m)
    BY <1>0 DEF Unmixed
  <2>2. CASE m = n
    <3>1. v # Len(upds) => hand[v][m].pc \in {"none", "over"}
      BY <2>1 DEF HandlerSees
    <3> QED
      BY <3>1, <2>2, <1>w DEF HandlerSees
  <2>3. CASE m # n
    BY <2>1, <2>3 DEF HandlerSees, Works, ReplGoes
  <2> QED
    BY <2>2, <2>3
<1>2. ASSUME NEW m \in Nodes PROVE ReplicaHas(m)'
  <2>1. ReplicaHas(m)
    BY <1>0 DEF Unmixed
  <2>2. CASE m = n
    BY <2>2 DEF ReplicaHas, ReplGoes
  <2>3. CASE m # n
    BY <2>1, <2>3 DEF ReplicaHas, Works, ReplGoes
  <2> QED
    BY <2>2, <2>3
<1>3. InOrder'
  <2>0. InOrder
    BY <1>0 DEF Unmixed
  <2>a. ASSUME NEW m \in Nodes, NEW x \in GlobalNames PROVE acked'[m][x] = acked[m][x] \/ acked'[m][x] = 0
    BY DEF Unset
  <2>l. Len(upds) \in Nat
    <3> DEFINE U == UpdType
    <3>1. upds \in Seq(U)
      BY <1>0 DEF GlobalsTypes
    <3> HIDE DEF U
    <3> QED
      BY <3>1
  <2>1. ASSUME NEW v \in Active, NEW m \in Nodes, NEW x \in DOMAIN upds[v].patch PROVE acked'[m][x] <= upds[v].patch[x]
    <3>1. upds[v].patch \in PatchType
      BY <1>0, TypesOf DEF Active
    <3>2. x \in GlobalNames /\ upds[v].patch[x] \in Nat
      BY <3>1, PatchHas
    <3>3. acked[m][x] <= upds[v].patch[x]
      BY <2>0 DEF InOrder
    <3> QED
      BY <3>2, <3>3, <2>a
  <2>2. ASSUME NEW m \in Nodes PROVE LastIsNew(m)'
    <3>1. DOMAIN last \in SUBSET GlobalNames /\ last \in [DOMAIN last -> Nat]
      BY <1>0, PatchHas DEF GlobalsTypes
    <3>2. LastIsNew(m)
      BY <2>0 DEF InOrder
    <3> SUFFICES ASSUME NEW x \in DOMAIN last, ~(acked'[m][x] <= last[x])
                 PROVE  \E v \in Active : /\ upds[v].by = "user" /\ m \in upds[v].to
                                          /\ hand[v][m].pc = "over" /\ ~hand[v][m].lost
      BY DEF LastIsNew, Active
    <3>3. last[x] \in Nat /\ x \in GlobalNames
      BY <3>1
    <3>4. ~(acked[m][x] <= last[x])
      BY <3>3, <2>a
    <3> QED
      BY <3>2, <3>4 DEF LastIsNew
  <2>3. ASSUME NEW m \in Nodes, NEW x \in GlobalNames PROVE acked'[m][x] <= Len(upds) + 1
    <3>1. acked[m][x] <= Len(upds) + 1
      BY <2>0 DEF InOrder
    <3> QED
      BY <3>1, <2>a, <2>l
  <2> QED
    BY <2>0, <2>1, <2>2, <2>3 DEF InOrder, Active
<1> QED
  BY <1>0, <1>1, <1>2, <1>3 DEF Unmixed

\* Snapshots without a value, and with the initial globals.
LEMMA FirstValues == Unset \in Values /\ Initial \in Values
BY DEF Unset, Initial, Values

\* The initial globals reach a new replica.
LEMMA InitialGlobalsKeeps ==
  ASSUME GlobalsInv, NEW n \in Nodes, InitialGlobals(n)
  PROVE  GlobalsInv'
<1>t. GlobalsTypes /\ repl \in [Nodes -> ReplType] /\ repl[n] \in ReplType /\ acked \in [Nodes -> Values]
      /\ hand \in [Updates -> [Nodes -> HandType]]
  BY DEF GlobalsInv, GlobalsTypes
<1> DEFINE e == [call |-> 0, snap |-> Initial]
           q == Append(repl[n].queue, e)
           r == [repl[n] EXCEPT !.st = "ready", !.digest = Initial, !.state = Initial, !.queue = q]
<1>0. repl[n].st = "warming" /\ UNCHANGED <<kind, sess, last, upds, hand, wait, comp, calls, faults, acked, mixed>>
  BY DEF InitialGlobals
<1>1. repl' = [repl EXCEPT ![n] = r]
  BY <1>t DEF InitialGlobals
<1>q. q \in Seq(ItemType)
  <2> DEFINE I == ItemType
  <2>1. e \in I /\ repl[n].queue \in Seq(I)
    BY <1>t, FirstValues DEF ItemType, ReplType
  <2> HIDE DEF I, e
  <2>2. Append(repl[n].queue, e) \in Seq(I)
    BY <2>1
  <2> QED
    BY <2>2 DEF I
<1>r. /\ r \in ReplType /\ r.st = "ready" /\ r.inc = repl[n].inc /\ r.digest = Initial
      /\ r.state = Initial /\ r.cache = repl[n].cache /\ r.vals = repl[n].vals /\ r.queue = q
  <2> HIDE DEF q
  <2> DEFINE I == Seq(ItemType)
  <2>1. ReplType = [st : {"ready", "warming", "gone"}, inc : Nat, digest : Values, state : Values,
              cache : Values, vals : Values, queue : I] /\ q \in I
    BY <1>q DEF ReplType
  <2> HIDE DEF I
  <2> QED
    BY <2>1, <1>t, FirstValues
<1> HIDE DEF r
<1>3. ReplGoes(n, r)
  BY <1>1, <1>r, <1>t, ReplSet
<1>4. GlobalsTypes'
  BY <1>t, <1>0, <1>3 DEF GlobalsTypes, ReplGoes
<1>5. WorkerRight' /\ ReadsOneSnapshot' /\ AcknowledgedIsSeen'
  BY <1>0, <1>3, <1>r, FirstValues, WarmupKeeps DEF q, e
<1>h. \A v \in Updates, m \in Nodes : HandlerRight(v, m)
  BY DEF GlobalsInv
<1>6. ASSUME NEW v \in Updates, NEW m \in Nodes PROVE HandlerRight(v, m)'
  <2>1. repl'[m].inc = repl[m].inc /\ (repl'[m].st = "warming" => repl[m].st = "warming")
    BY <1>3, <1>r DEF ReplGoes
  <2> QED
    BY <2>1, <1>h, <1>0 DEF HandlerRight
<1>7. ASSUME ~mixed' PROVE Unmixed'
  <2>1. \A v \in Updates : hand[v][n].inc < r.inc
    BY <1>h, <1>0, <1>r DEF HandlerRight
  <2>2. ReplicaHas(n)
    BY <1>7, <1>0 DEF GlobalsInv, Unmixed
  <2>3. \A x \in GlobalNames : acked[n][x] <= r.digest[x]
    BY <2>2, <1>0, <1>r DEF ReplicaHas, Unset, Initial
  <2> QED
    BY <2>1, <2>3, <1>7, <1>0, <1>3, <1>r, <1>t, FreshReplica
<1> QED
  BY <1>4, <1>5, <1>6, <1>7 DEF GlobalsInv

\* A replica whose worker is new, and has nothing to do.
LEMMA NewReplica ==
  ASSUME NEW i \in Nat, NEW s \in {"ready", "warming", "gone"}
  PROVE  LET r == Replica(s, i) IN
         /\ r \in ReplType /\ r.st = s /\ r.inc = i /\ r.cache = Unset /\ r.vals = Unset /\ r.queue = <<>>
         /\ r.digest = Initial /\ r.state = Initial
<1> DEFINE I == Seq(ItemType)
<1>1. ReplType = [st : {"ready", "warming", "gone"}, inc : Nat, digest : Values, state : Values,
              cache : Values, vals : Values, queue : I] /\ <<>> \in I
  BY DEF ReplType
<1> HIDE DEF I
<1> QED
  BY <1>1, FirstValues DEF Replica

\* A worker that is new has applied nothing, and no call waits for it.
LEMMA FreshWorker ==
  ASSUME GlobalsInv, NEW n \in Nodes, NEW r, ReplGoes(n, r), r.cache = Unset, r.vals = Unset, r.queue = <<>>,
         UNCHANGED calls, sess' \subseteq sess, n \notin sess', mixed => mixed'
  PROVE  WorkerRight' /\ ReadsOneSnapshot' /\ AcknowledgedIsSeen'
<1>1. WorkerRight /\ ReadsOneSnapshot /\ AcknowledgedIsSeen /\ sess \subseteq Nodes
  BY DEF GlobalsInv, GlobalsTypes
<1>2. ReadsOneSnapshot' /\ AcknowledgedIsSeen'
  BY <1>1 DEF ReadsOneSnapshot, AcknowledgedIsSeen
<1>3. \A m \in Nodes, x \in GlobalNames : repl'[m].cache[x] # 0 => repl'[m].vals[x] = repl'[m].cache[x]
  BY <1>1 DEF WorkerRight, ReplGoes
<1>4. ASSUME NEW m \in Nodes, NEW i \in DOMAIN repl'[m].queue, repl'[m].queue[i].call \in Calls
      PROVE  calls'[repl'[m].queue[i].call].pc # "new"
             /\ calls'[repl'[m].queue[i].call].snap = repl'[m].queue[i].snap
  <2>1. m # n
    BY <1>4 DEF ReplGoes
  <2>2. repl'[m] = repl[m]
    BY <2>1 DEF ReplGoes
  <2> QED
    BY <2>2, <1>1, <1>4 DEF WorkerRight
<1>5. \A m \in sess' : repl'[m].st = "ready"
  BY <1>1 DEF WorkerRight, ReplGoes
<1> QED
  BY <1>2, <1>3, <1>4, <1>5 DEF WorkerRight

\* A replica is lost.
LEMMA LoseKeeps ==
  ASSUME GlobalsInv, NEW n \in Nodes, Lose(n)
  PROVE  GlobalsInv'
<1>t. GlobalsTypes /\ repl \in [Nodes -> ReplType] /\ repl[n] \in ReplType /\ acked \in [Nodes -> Values]
  BY DEF GlobalsInv, GlobalsTypes
<1> DEFINE R == Replica("gone", repl[n].inc)
           r == [R EXCEPT !.digest = Unset]
<1>0. sess' = sess \ {n} /\ (mixed => mixed') /\ mixed' \in BOOLEAN
      /\ UNCHANGED <<kind, last, upds, hand, wait, comp, calls, acked>>
  BY <1>t DEF Lose, GlobalsTypes
<1>1. repl' = [repl EXCEPT ![n] = r]
  BY <1>t DEF Lose
<1>r. r \in ReplType /\ r.st = "gone" /\ r.inc = repl[n].inc /\ r.cache = Unset /\ r.vals = Unset /\ r.queue = <<>>
  <2>1. repl[n].inc \in Nat
    BY <1>t DEF ReplType
  <2>2. R \in ReplType /\ R.st = "gone" /\ R.inc = repl[n].inc /\ R.cache = Unset /\ R.vals = Unset /\ R.queue = <<>>
    BY <2>1, NewReplica
  <2> HIDE DEF R
  <2> QED
    BY <2>2, FirstValues DEF ReplType
<1> HIDE DEF r
<1>3. ReplGoes(n, r)
  BY <1>1, <1>r, <1>t, ReplSet
<1>4. GlobalsTypes'
  BY <1>t, <1>0, <1>3 DEF GlobalsTypes, ReplGoes
<1>5. WorkerRight' /\ ReadsOneSnapshot' /\ AcknowledgedIsSeen'
  BY <1>0, <1>3, <1>r, FreshWorker
<1>6. ASSUME NEW v \in Updates, NEW m \in Nodes PROVE HandlerRight(v, m)'
  <2>1. repl'[m].inc = repl[m].inc /\ (repl'[m].st = "warming" => repl[m].st = "warming")
    BY <1>3, <1>r DEF ReplGoes
  <2>2. HandlerRight(v, m)
    BY DEF GlobalsInv
  <2> QED
    BY <2>1, <2>2, <1>0 DEF HandlerRight
<1>7. ASSUME ~mixed' PROVE Unmixed'
  BY <1>7, <1>0, <1>3, <1>r, <1>t, FreshReplica
<1> QED
  BY <1>4, <1>5, <1>6, <1>7 DEF GlobalsInv

\* A replica is created in its place.
LEMMA CreateKeeps ==
  ASSUME GlobalsInv, NEW n \in Nodes, Create(n)
  PROVE  GlobalsInv'
<1>t. GlobalsTypes /\ repl \in [Nodes -> ReplType] /\ repl[n] \in ReplType /\ acked \in [Nodes -> Values]
      /\ repl[n].inc \in Nat /\ hand \in [Updates -> [Nodes -> HandType]]
  <2>1. repl \in [Nodes -> ReplType]
    BY DEF GlobalsInv, GlobalsTypes
  <2> QED
    BY <2>1 DEF GlobalsInv, GlobalsTypes, ReplType
<1> DEFINE R == Replica("warming", repl[n].inc + 1)
           r == [R EXCEPT !.digest = Unset, !.state = Unset]
<1>0. n \notin sess /\ (mixed => mixed') /\ mixed' \in BOOLEAN /\ UNCHANGED <<kind, sess, last, upds, hand, wait, calls>>
      /\ comp' = [pc |-> "created", node |-> n] /\ acked' = [acked EXCEPT ![n] = Unset]
  BY <1>t DEF Create, GlobalsTypes
<1>1. repl' = [repl EXCEPT ![n] = r]
  BY <1>t DEF Create
<1>r. /\ r \in ReplType /\ r.st = "warming" /\ r.inc = repl[n].inc + 1 /\ r.cache = Unset /\ r.vals = Unset
      /\ r.queue = <<>> /\ r.digest = Unset /\ r.state = Unset
  <2>2. R \in ReplType /\ R.st = "warming" /\ R.inc = repl[n].inc + 1 /\ R.cache = Unset /\ R.vals = Unset /\ R.queue = <<>>
    BY <1>t, NewReplica
  <2> HIDE DEF R
  <2> QED
    BY <2>2, FirstValues DEF ReplType
<1> HIDE DEF r
<1>3. ReplGoes(n, r)
  BY <1>1, <1>r, <1>t, ReplSet
<1>a. acked' \in [Nodes -> Values] /\ acked'[n] = Unset /\ \A m \in Nodes : m # n => acked'[m] = acked[m]
  BY <1>0, <1>t, FirstValues
<1>4. GlobalsTypes'
  BY <1>t, <1>0, <1>3, <1>a DEF GlobalsTypes, ReplGoes
<1>5. WorkerRight' /\ ReadsOneSnapshot' /\ AcknowledgedIsSeen'
  BY <1>0, <1>3, <1>r, FreshWorker
<1>h. \A v \in Updates : hand[v][n].inc < r.inc
  <2> SUFFICES ASSUME NEW v \in Updates PROVE hand[v][n].inc < r.inc
    OBVIOUS
  <2>1. hand[v][n].inc \in Nat /\ HandlerRight(v, n)
    BY <1>t DEF GlobalsInv, HandType
  <2> QED
    BY <2>1, <1>r, <1>t DEF HandlerRight
<1>6. ASSUME NEW v \in Updates, NEW m \in Nodes PROVE HandlerRight(v, m)'
  <2>1. HandlerRight(v, m) /\ hand[v][m].inc \in Nat
    BY <1>t DEF GlobalsInv, HandType
  <2>2. CASE m = n
    BY <2>1, <2>2, <1>h, <1>0, <1>3, <1>r, <1>t DEF HandlerRight, ReplGoes
  <2>3. CASE m # n
    BY <2>1, <2>3, <1>0, <1>3 DEF HandlerRight, ReplGoes
  <2> QED
    BY <2>2, <2>3
<1>7. ASSUME ~mixed' PROVE Unmixed'
  <2>1. \A x \in GlobalNames : acked'[n][x] <= r.digest[x]
    BY <1>a, <1>r DEF Unset
  <2> QED
    BY <2>1, <1>7, <1>0, <1>3, <1>a, <1>h, <1>r, FreshReplica
<1> QED
  BY <1>4, <1>5, <1>6, <1>7 DEF GlobalsInv

\* The new replica joins the session.
LEMMA JoinKeeps ==
  ASSUME GlobalsInv, Join
  PROVE  GlobalsInv'
<1>0. /\ comp.pc = "created" /\ repl[comp.node].st = "ready" /\ sess' = sess \cup {comp.node}
      /\ comp' = [comp EXCEPT !.pc = "added"] /\ (mixed => mixed') /\ mixed' \in BOOLEAN
      /\ UNCHANGED <<kind, repl, last, upds, hand, wait, calls, acked>>
  BY DEF Join, GlobalsInv, GlobalsTypes
<1>1. comp.node \in Nodes /\ GlobalsTypes
  BY <1>0 DEF GlobalsInv, GlobalsTypes
<1>2. GlobalsTypes'
  BY <1>0, <1>1 DEF GlobalsTypes
<1>3. WorkerRight' /\ ReadsOneSnapshot' /\ AcknowledgedIsSeen'
  BY <1>0, <1>1 DEF GlobalsInv, WorkerRight, ReadsOneSnapshot, AcknowledgedIsSeen
<1>4. ASSUME NEW v \in Updates, NEW m \in Nodes PROVE HandlerRight(v, m)'
  <2>1. HandlerRight(v, m)
    BY DEF GlobalsInv
  <2> QED
    BY <2>1, <1>0 DEF HandlerRight
<1>5. ASSUME ~mixed' PROVE Unmixed'
  <2>1. Unmixed
    BY <1>0, <1>5 DEF GlobalsInv
  <2> QED
    BY <2>1, <1>0, ReplicasSame DEF Unmixed
<1> QED
  BY <1>2, <1>3, <1>4, <1>5 DEF GlobalsInv

\* What a step does to one call.
CallGoes(c, k) ==
  /\ calls' \in [Calls -> CallType] /\ calls'[c] = k
  /\ \A d \in Calls : d # c => calls'[d] = calls[d]

\* A call is built with the snapshot of the moment.
LEMMA CallKeeps ==
  ASSUME GlobalsInv, NEW c \in Calls, NEW n \in Nodes, Call(c, n)
  PROVE  GlobalsInv'
<1>t. GlobalsTypes /\ repl[n] \in ReplType /\ acked[n] \in Values /\ calls \in [Calls -> CallType]
      /\ WorkerRight /\ ReadsOneSnapshot /\ AcknowledgedIsSeen
  BY DEF GlobalsInv, GlobalsTypes
<1> DEFINE k == [NoCall EXCEPT !.pc = "built", !.node = n, !.inc = repl[n].inc, !.snap = repl[n].digest, !.floor = acked[n]]
<1>0. calls[c].pc = "new" /\ repl[n].st # "gone" /\ calls' = [calls EXCEPT ![c] = k]
      /\ UNCHANGED <<kind, repl, sess, last, upds, hand, wait, comp, faults, acked, mixed>>
  BY DEF Call
<1>1. k \in CallType /\ k.pc = "built" /\ k.snap = repl[n].digest /\ k.floor = acked[n]
  BY <1>t, FirstValues DEF CallType, ReplType, NoCall
<1> HIDE DEF k
<1>2. CallGoes(c, k)
  BY <1>0, <1>1, <1>t DEF CallGoes
<1>3. GlobalsTypes'
  BY <1>t, <1>0, <1>2 DEF GlobalsTypes, CallGoes
<1>4. WorkerRight'
  BY <1>t, <1>0, <1>1, <1>2 DEF WorkerRight, CallGoes
<1>5. ReadsOneSnapshot' /\ AcknowledgedIsSeen'
  BY <1>t, <1>0, <1>1, <1>2 DEF ReadsOneSnapshot, AcknowledgedIsSeen, CallGoes
<1>6. ASSUME NEW v \in Updates, NEW m \in Nodes PROVE HandlerRight(v, m)'
  <2>1. HandlerRight(v, m)
    BY DEF GlobalsInv
  <2> QED
    BY <2>1, <1>0 DEF HandlerRight
<1>7. ASSUME ~mixed' PROVE Unmixed'
  <2>1. Unmixed
    BY <1>0, <1>7 DEF GlobalsInv
  <2>2. \A x \in GlobalNames : acked[n][x] <= repl[n].digest[x]
    BY <2>1, <1>0 DEF Unmixed, ReplicaHas
  <2>3. \A d \in Calls : calls'[d].pc # "new" => \A x \in GlobalNames : calls'[d].floor[x] <= calls'[d].snap[x]
    BY <2>1, <2>2, <1>1, <1>2 DEF Unmixed, CallGoes
  <2> QED
    BY <2>1, <2>3, <1>0, ReplicasSame DEF Unmixed
<1> QED
  BY <1>3, <1>4, <1>5, <1>6, <1>7 DEF GlobalsInv

\* A call is put into the queue of the worker, or its replica is gone.
LEMMA SubmittedKeeps ==
  ASSUME GlobalsInv, NEW c \in Calls, Submitted(c)
  PROVE  GlobalsInv'
<1>t. GlobalsTypes /\ repl \in [Nodes -> ReplType] /\ calls \in [Calls -> CallType] /\ calls[c] \in CallType
      /\ WorkerRight /\ ReadsOneSnapshot /\ AcknowledgedIsSeen
  BY DEF GlobalsInv, GlobalsTypes
<1> DEFINE n == calls[c].node
           here == repl[n].inc = calls[c].inc /\ repl[n].st # "gone"
           l == IF here THEN "queued" ELSE "failed"
           k == [calls[c] EXCEPT !.pc = l]
           e == [call |-> c, snap |-> calls[c].snap]
           q == Append(repl[n].queue, e)
           r == [repl[n] EXCEPT !.queue = q]
<1>0. calls[c].pc = "built" /\ UNCHANGED <<kind, sess, last, upds, hand, wait, comp, faults, acked, mixed>>
      /\ calls' = [calls EXCEPT ![c] = k]
      /\ repl' = IF here THEN [repl EXCEPT ![n] = r] ELSE repl
  BY <1>t DEF Submitted
<1>1. k \in CallType /\ k.pc \in {"queued", "failed"} /\ k.snap = calls[c].snap /\ k.floor = calls[c].floor
  BY <1>t DEF CallType
<1> HIDE DEF k
<1>2. CallGoes(c, k)
  BY <1>0, <1>1, <1>t DEF CallGoes
<1>c. \A d \in Calls : /\ calls'[d].snap = calls[d].snap /\ calls'[d].floor = calls[d].floor
                       /\ (calls'[d].pc = "new") = (calls[d].pc = "new")
                       /\ calls'[d].pc = "done" => calls'[d] = calls[d]
  BY <1>0, <1>1, <1>2 DEF CallGoes
<1>r. ASSUME here, n \in Nodes
      PROVE /\ ReplGoes(n, r) /\ r.queue = q /\ r.st = repl[n].st /\ r.inc = repl[n].inc /\ r.digest = repl[n].digest
            /\ r.state = repl[n].state /\ r.cache = repl[n].cache /\ r.vals = repl[n].vals
            /\ \A i \in DOMAIN q : q[i] = e \/ (i \in DOMAIN repl[n].queue /\ q[i] = repl[n].queue[i])
  <2> DEFINE I == ItemType
             Q == Seq(I)
  <2>1. e \in I /\ repl[n].queue \in Seq(I)
    BY <1>t, <1>r DEF CallType, ItemType, ReplType
  <2> HIDE DEF e, I
  <2>2. q \in Q /\ \A i \in DOMAIN q : q[i] = e \/ (i \in DOMAIN repl[n].queue /\ q[i] = repl[n].queue[i])
    BY <2>1
  <2>3. ReplType = [st : {"ready", "warming", "gone"}, inc : Nat, digest : Values, state : Values,
              cache : Values, vals : Values, queue : Q]
    BY DEF ReplType, I
  <2> HIDE DEF q, Q, n
  <2>4. /\ r \in ReplType /\ r.queue = q /\ r.st = repl[n].st /\ r.inc = repl[n].inc /\ r.digest = repl[n].digest
        /\ r.state = repl[n].state /\ r.cache = repl[n].cache /\ r.vals = repl[n].vals
    BY <2>2, <2>3, <1>r, <1>t
  <2> HIDE DEF r
  <2>5. ReplGoes(n, r)
    BY <2>4, <1>0, <1>r, <1>t, ReplSet
  <2> QED
    BY <2>2, <2>4, <2>5
<1> HIDE DEF r, q
<1>n. repl' = repl \/ (here /\ n \in Nodes)
  <2>1. CASE here /\ n \notin Nodes
    BY <2>1, <1>0, <1>t
  <2>2. CASE ~here
    BY <2>2, <1>0
  <2> QED
    BY <2>1, <2>2
<1>e. \A m \in Nodes : /\ repl'[m].st = repl[m].st /\ repl'[m].inc = repl[m].inc /\ repl'[m].digest = repl[m].digest
                       /\ repl'[m].state = repl[m].state /\ repl'[m].cache = repl[m].cache /\ repl'[m].vals = repl[m].vals
                       /\ \A i \in DOMAIN repl'[m].queue :
                            repl'[m].queue[i] = e \/ (i \in DOMAIN repl[m].queue /\ repl'[m].queue[i] = repl[m].queue[i])
  <2>1. CASE repl' = repl
    BY <2>1
  <2>2. CASE here /\ n \in Nodes
    <3>1. ReplGoes(n, r)
      BY <2>2, <1>r
    <3>2. ASSUME NEW m \in Nodes
          PROVE /\ repl'[m].st = repl[m].st /\ repl'[m].inc = repl[m].inc /\ repl'[m].digest = repl[m].digest
                /\ repl'[m].state = repl[m].state /\ repl'[m].cache = repl[m].cache /\ repl'[m].vals = repl[m].vals
                /\ \A i \in DOMAIN repl'[m].queue :
                     repl'[m].queue[i] = e \/ (i \in DOMAIN repl[m].queue /\ repl'[m].queue[i] = repl[m].queue[i])
      <4>1. CASE m = n
        <5>1. repl'[m] = r
          BY <4>1, <3>1 DEF ReplGoes
        <5> HIDE DEF n, e
        <5> QED
          BY <4>1, <5>1, <2>2, <1>r
      <4>2. CASE m # n
        <5>1. repl'[m] = repl[m]
          BY <4>2, <3>1 DEF ReplGoes
        <5> QED
          BY <5>1
      <4> QED
        BY <4>1, <4>2
    <3> QED
      BY <3>2
  <2> QED
    BY <2>1, <2>2, <1>n
<1>3. GlobalsTypes'
  <2>1. repl' \in [Nodes -> ReplType]
    BY <1>n, <1>r, <1>t DEF ReplGoes
  <2> QED
    BY <2>1, <1>t, <1>0, <1>2 DEF GlobalsTypes, CallGoes
<1>4. WorkerRight'
  <2>1. ASSUME NEW m \in Nodes, NEW i \in DOMAIN repl'[m].queue, repl'[m].queue[i].call \in Calls
        PROVE  calls'[repl'[m].queue[i].call].pc # "new"
               /\ calls'[repl'[m].queue[i].call].snap = repl'[m].queue[i].snap
    <3>1. CASE repl'[m].queue[i] = e
      <4>1. repl'[m].queue[i].call = c /\ repl'[m].queue[i].snap = calls[c].snap
        BY <3>1
      <4> QED
        BY <4>1, <1>0, <1>c
    <3>2. CASE i \in DOMAIN repl[m].queue /\ repl'[m].queue[i] = repl[m].queue[i]
      BY <3>2, <2>1, <1>t, <1>c DEF WorkerRight
    <3> QED
      BY <3>1, <3>2, <1>e
  <2>2. sess \subseteq Nodes
    BY <1>t DEF GlobalsTypes
  <2>3. \A m \in sess' : repl'[m].st = "ready"
    BY <2>2, <1>t, <1>0, <1>e DEF WorkerRight
  <2>4. \A m \in Nodes, x \in GlobalNames : repl'[m].cache[x] # 0 => repl'[m].vals[x] = repl'[m].cache[x]
    BY <1>t, <1>e DEF WorkerRight
  <2> QED
    BY <2>1, <2>3, <2>4 DEF WorkerRight
<1>5. ReadsOneSnapshot' /\ AcknowledgedIsSeen'
  BY <1>t, <1>0, <1>c DEF ReadsOneSnapshot, AcknowledgedIsSeen
<1>6. ASSUME NEW v \in Updates, NEW m \in Nodes PROVE HandlerRight(v, m)'
  <2>1. HandlerRight(v, m)
    BY DEF GlobalsInv
  <2> QED
    BY <2>1, <1>0, <1>e DEF HandlerRight
<1>7. ASSUME ~mixed' PROVE Unmixed'
  <2>1. Unmixed
    BY <1>0, <1>7 DEF GlobalsInv
  <2>3. \A d \in Calls : calls'[d].pc # "new" => \A x \in GlobalNames : calls'[d].floor[x] <= calls'[d].snap[x]
    BY <2>1, <1>c DEF Unmixed
  <2> QED
    BY <2>1, <2>3, <1>0, <1>e, ReplicasSame DEF Unmixed
<1> QED
  BY <1>3, <1>4, <1>5, <1>6, <1>7 DEF GlobalsInv

\* A worker that has applied a snapshot has its values.
LEMMA AppliedHas ==
  ASSUME NEW w \in ReplType, NEW s \in Values,
         \A x \in GlobalNames : w.cache[x] # 0 => w.vals[x] = w.cache[x]
  PROVE  LET a == Applied(w, s) IN
         /\ a \in ReplType /\ a.st = w.st /\ a.inc = w.inc /\ a.digest = w.digest /\ a.state = w.state
         /\ a.queue = w.queue /\ a.cache = s /\ \A x \in GlobalNames : s[x] # 0 => a.vals[x] = s[x]
<1> DEFINE I == Seq(ItemType)
           f == [x \in GlobalNames |-> IF s[x] # 0 THEN s[x] ELSE w.vals[x]]
<1>1. ReplType = [st : {"ready", "warming", "gone"}, inc : Nat, digest : Values, state : Values,
              cache : Values, vals : Values, queue : I]
  BY DEF ReplType
<1> HIDE DEF I
<1>2. f \in Values /\ \A x \in GlobalNames : s[x] # 0 => f[x] = s[x]
  BY <1>1 DEF Values
<1>3. CASE w.cache = s
  BY <1>1, <1>3 DEF Applied
<1>4. CASE w.cache # s
  <2>1. Applied(w, s) = [w EXCEPT !.cache = s, !.vals = f]
    BY <1>1, <1>4 DEF Applied
  <2> HIDE DEF f
  <2> QED
    BY <2>1, <1>1, <1>2
<1> QED
  BY <1>3, <1>4

\* The worker takes the next item of its queue.
LEMMA RunKeeps ==
  ASSUME GlobalsInv, NEW n \in Nodes, Run(n)
  PROVE  GlobalsInv'
<1>t. GlobalsTypes /\ repl \in [Nodes -> ReplType] /\ repl[n] \in ReplType /\ calls \in [Calls -> CallType]
      /\ WorkerRight /\ ReadsOneSnapshot /\ AcknowledgedIsSeen
  BY DEF GlobalsInv, GlobalsTypes
<1> DEFINE old == repl[n].queue
           item == Head(old)
           c == item.call
           w == Applied(repl[n], item.snap)
           q == Tail(old)
           r == [w EXCEPT !.queue = q]
           k == [calls[c] EXCEPT !.pc = "done", !.seen = w.vals]
<1>0. old # <<>> /\ UNCHANGED <<kind, sess, last, upds, hand, wait, comp, faults, acked, mixed>>
  BY DEF Run
<1>i. item \in ItemType /\ q \in Seq(ItemType) /\ item = old[1] /\ 1 \in DOMAIN old
      /\ \A i \in DOMAIN q : i + 1 \in DOMAIN old /\ q[i] = old[i + 1]
  <2> DEFINE I == ItemType
  <2>1. old \in Seq(I)
    BY <1>t DEF ReplType
  <2> HIDE DEF I, old
  <2>2. item \in I /\ q \in Seq(I) /\ item = old[1] /\ 1 \in DOMAIN old
        /\ \A i \in DOMAIN q : i + 1 \in DOMAIN old /\ q[i] = old[i + 1]
    BY <2>1, <1>0
  <2> QED
    BY <2>2 DEF I
<1>s. item.snap \in Values /\ c \in Calls \cup {0}
  BY <1>i DEF ItemType
<1>w. /\ w \in ReplType /\ w.st = repl[n].st /\ w.inc = repl[n].inc /\ w.digest = repl[n].digest /\ w.state = repl[n].state
      /\ w.cache = item.snap /\ \A x \in GlobalNames : item.snap[x] # 0 => w.vals[x] = item.snap[x]
  <2>1. \A x \in GlobalNames : repl[n].cache[x] # 0 => repl[n].vals[x] = repl[n].cache[x]
    BY <1>t DEF WorkerRight
  <2> HIDE DEF item
  <2> QED
    BY <2>1, <1>s, <1>t, AppliedHas
<1>1. repl' = [repl EXCEPT ![n] = r]
  <2>1. w.queue = old
    <3>1. \A x \in GlobalNames : repl[n].cache[x] # 0 => repl[n].vals[x] = repl[n].cache[x]
      BY <1>t DEF WorkerRight
    <3> HIDE DEF item
    <3> QED
      BY <3>1, <1>s, <1>t, AppliedHas
  <2>2. repl' = [repl EXCEPT ![n] = [w EXCEPT !.queue = Tail(w.queue)]]
    BY DEF Run
  <2> HIDE DEF w
  <2> QED
    BY <2>1, <2>2
<1>c. calls' = IF c \notin Calls THEN calls ELSE [calls EXCEPT ![c] = k]
  <2>1. calls' = IF c \notin Calls THEN calls ELSE [calls EXCEPT ![c].pc = "done", ![c].seen = w.vals]
    BY DEF Run
  <2> HIDE DEF w, c
  <2> QED
    BY <2>1, <1>t
<1> HIDE DEF w, q, item
<1>r. /\ r \in ReplType /\ r.st = repl[n].st /\ r.inc = repl[n].inc /\ r.digest = repl[n].digest /\ r.state = repl[n].state
      /\ r.cache = item.snap /\ r.vals = w.vals /\ r.queue = q
  <2> DEFINE I == Seq(ItemType)
  <2>1. ReplType = [st : {"ready", "warming", "gone"}, inc : Nat, digest : Values, state : Values,
              cache : Values, vals : Values, queue : I] /\ q \in I
    BY <1>i DEF ReplType
  <2> HIDE DEF I
  <2> QED
    BY <2>1, <1>w
<1> HIDE DEF r
<1>3. ReplGoes(n, r)
  BY <1>1, <1>r, <1>t, ReplSet
<1>e. \A m \in Nodes : /\ repl'[m].st = repl[m].st /\ repl'[m].inc = repl[m].inc /\ repl'[m].digest = repl[m].digest
                       /\ repl'[m].state = repl[m].state
  BY <1>3, <1>r DEF ReplGoes
<1>k. c \in Calls => /\ CallGoes(c, k) /\ k.pc = "done" /\ k.snap = calls[c].snap /\ k.floor = calls[c].floor
                     /\ k.seen = w.vals /\ calls[c].pc # "new" /\ calls[c].snap = item.snap /\ calls[c] \in CallType
  <2> SUFFICES ASSUME c \in Calls
               PROVE  /\ CallGoes(c, k) /\ k.pc = "done" /\ k.snap = calls[c].snap /\ k.floor = calls[c].floor
                      /\ k.seen = w.vals /\ calls[c].pc # "new" /\ calls[c].snap = item.snap /\ calls[c] \in CallType
    OBVIOUS
  <2>1. calls[c] \in CallType /\ w.vals \in Values
    BY <1>t, <1>w DEF ReplType
  <2>2. k \in CallType /\ k.pc = "done" /\ k.snap = calls[c].snap /\ k.floor = calls[c].floor /\ k.seen = w.vals
    BY <2>1 DEF CallType
  <2> HIDE DEF k
  <2>3. CallGoes(c, k)
    BY <2>2, <1>c, <1>t DEF CallGoes
  <2>4. calls[c].pc # "new" /\ calls[c].snap = item.snap
    BY <1>i, <1>t DEF WorkerRight
  <2> QED
    BY <2>1, <2>2, <2>3, <2>4
<1> HIDE DEF k
<1>d. \A d \in Calls : /\ calls'[d].snap = calls[d].snap /\ calls'[d].floor = calls[d].floor
                       /\ (calls'[d].pc = "new") = (calls[d].pc = "new")
  <2>1. CASE c \in Calls
    BY <2>1, <1>k DEF CallGoes
  <2>2. CASE c \notin Calls
    BY <2>2, <1>c
  <2> QED
    BY <2>1, <2>2
<1>g. \A d \in Calls : d # c => calls'[d] = calls[d]
  BY <1>k, <1>c DEF CallGoes
<1>4. GlobalsTypes'
  <2>1. calls' \in [Calls -> CallType]
    BY <1>k, <1>c, <1>t DEF CallGoes
  <2> QED
    BY <2>1, <1>t, <1>0, <1>3 DEF GlobalsTypes, ReplGoes
<1>5. WorkerRight'
  <2>1. ASSUME NEW m \in Nodes, NEW i \in DOMAIN repl'[m].queue, repl'[m].queue[i].call \in Calls
        PROVE  calls'[repl'[m].queue[i].call].pc # "new"
               /\ calls'[repl'[m].queue[i].call].snap = repl'[m].queue[i].snap
    <3>1. PICK j \in DOMAIN repl[m].queue : repl'[m].queue[i] = repl[m].queue[j]
      <4>1. CASE m = n
        <5>1. repl'[m].queue = q
          BY <4>1, <1>3, <1>r DEF ReplGoes
        <5> QED
          BY <4>1, <5>1, <1>i
      <4>2. CASE m # n
        <5>1. repl'[m] = repl[m]
          BY <4>2, <1>3 DEF ReplGoes
        <5> QED
          BY <5>1
      <4> QED
        BY <4>1, <4>2
    <3> QED
      BY <3>1, <2>1, <1>t, <1>d DEF WorkerRight
  <2>2. sess \subseteq Nodes
    BY <1>t DEF GlobalsTypes
  <2>3. \A m \in sess' : repl'[m].st = "ready"
    BY <2>2, <1>t, <1>0, <1>e DEF WorkerRight
  <2>4. \A m \in Nodes, x \in GlobalNames : repl'[m].cache[x] # 0 => repl'[m].vals[x] = repl'[m].cache[x]
    BY <1>t, <1>3, <1>r, <1>w DEF WorkerRight, ReplGoes
  <2> QED
    BY <2>1, <2>3, <2>4 DEF WorkerRight
<1>6. ReadsOneSnapshot'
  <2> SUFFICES ASSUME NEW d \in Calls, calls'[d].pc = "done", NEW x \in GlobalNames, calls'[d].snap[x] # 0
               PROVE  calls'[d].seen[x] = calls'[d].snap[x]
    BY DEF ReadsOneSnapshot
  <2>1. CASE d = c
    BY <2>1, <1>k, <1>w DEF CallGoes
  <2>2. CASE d # c
    BY <2>2, <1>g, <1>t DEF ReadsOneSnapshot
  <2> QED
    BY <2>1, <2>2
<1>7. AcknowledgedIsSeen'
  <2> SUFFICES ASSUME ~mixed, NEW d \in Calls, calls'[d].pc = "done", NEW x \in GlobalNames
               PROVE  calls'[d].seen[x] >= calls'[d].floor[x]
    BY <1>0 DEF AcknowledgedIsSeen
  <2>1. CASE d = c
    <3>1. calls[d].floor[x] <= calls[d].snap[x]
      BY <2>1, <1>k DEF GlobalsInv, Unmixed
    <3>2. calls'[d].seen = w.vals /\ calls'[d].floor = calls[d].floor /\ calls[d].snap = item.snap
      BY <2>1, <1>k DEF CallGoes
    <3>3. calls[d].floor[x] \in Nat /\ item.snap[x] \in Nat /\ w.vals[x] \in Nat
      BY <2>1, <1>k, <1>s, <1>w DEF CallType, ReplType, Values
    <3> QED
      BY <3>1, <3>2, <3>3, <1>w
  <2>2. CASE d # c
    BY <2>2, <1>g, <1>t DEF AcknowledgedIsSeen
  <2> QED
    BY <2>1, <2>2
<1>8. ASSUME NEW v \in Updates, NEW m \in Nodes PROVE HandlerRight(v, m)'
  <2>1. HandlerRight(v, m)
    BY DEF GlobalsInv
  <2> QED
    BY <2>1, <1>0, <1>e DEF HandlerRight
<1>9. ASSUME ~mixed' PROVE Unmixed'
  <2>1. Unmixed
    BY <1>0, <1>9 DEF GlobalsInv
  <2>3. \A d \in Calls : calls'[d].pc # "new" => \A x \in GlobalNames : calls'[d].floor[x] <= calls'[d].snap[x]
    BY <2>1, <1>d DEF Unmixed
  <2> QED
    BY <2>1, <2>3, <1>0, <1>e, ReplicasSame DEF Unmixed
<1> QED
  BY <1>4, <1>5, <1>6, <1>7, <1>8, <1>9 DEF GlobalsInv

\* The updates a step leaves, but for where they stand.
SameUpdates(before) ==
  /\ before \in Seq(UpdType) /\ Len(before) = Len(upds) /\ DOMAIN before = DOMAIN upds
  /\ \A u \in DOMAIN upds :
       /\ before[u].by = upds[u].by /\ before[u].patch = upds[u].patch /\ before[u].plan = upds[u].plan
       /\ before[u].to = upds[u].to

\* The type of an update.
LEMMA UpdateOf ==
  ASSUME GlobalsTypes, NEW u \in DOMAIN upds
  PROVE  upds[u] \in UpdType /\ upds[u].patch \in PatchType
<1> DEFINE U == UpdType
<1>1. upds \in Seq(U)
  BY DEF GlobalsTypes
<1> HIDE DEF U
<1>2. upds[u] \in U
  BY <1>1
<1> QED
  BY <1>2 DEF U, UpdType

\* One update goes on.
LEMMA UpdateSet ==
  ASSUME GlobalsTypes, NEW u \in DOMAIN upds, NEW l \in {"run", "leave", "over"},
         NEW before, before = [upds EXCEPT ![u].pc = l]
  PROVE  /\ SameUpdates(before) /\ before[u].pc = l
         /\ \A v \in DOMAIN upds : v # u => before[v] = upds[v]
<1> DEFINE U == UpdType
           b == [upds[u] EXCEPT !.pc = l]
<1>1. upds \in Seq(U) /\ upds[u] \in U
  BY TypesOf DEF GlobalsTypes
<1>2. /\ b \in U /\ b.pc = l /\ b.by = upds[u].by /\ b.patch = upds[u].patch /\ b.plan = upds[u].plan
      /\ b.to = upds[u].to
  BY <1>1 DEF UpdType
<1>3. before = [upds EXCEPT ![u] = b]
  BY <1>1
<1> HIDE DEF U, b
<1>4. before \in Seq(U) /\ Len(before) = Len(upds) /\ DOMAIN before = DOMAIN upds /\ before[u] = b
      /\ \A v \in DOMAIN upds : v # u => before[v] = upds[v]
  BY <1>1, <1>2, <1>3
<1>5. before \in Seq(UpdType)
  BY <1>4 DEF U
<1> QED
  BY <1>2, <1>4, <1>5 DEF SameUpdates

\* The end of an update.
LEMMA FinishKeeps ==
  ASSUME GlobalsInv, NEW u \in DOMAIN upds, FinishUpdate(u)
  PROVE  GlobalsInv'
<1> DEFINE l == IF upds[u].by = "replay" THEN "leave" ELSE "over"
<1>t. GlobalsTypes /\ upds[u].patch \in PatchType
  <2>1. GlobalsTypes
    BY DEF GlobalsInv
  <2> QED
    BY <2>1, UpdateOf
<1>0. /\ u \in Active /\ Ended(u) /\ upds' = [upds EXCEPT ![u].pc = l] /\ sess' \subseteq sess
      /\ last' = IF Failed(u) = upds[u].to THEN last ELSE upds[u].patch
      /\ UNCHANGED <<kind, repl, hand, wait, comp, calls, faults, acked, mixed>>
  BY DEF FinishUpdate, EndWith
<1>1. SameUpdates(upds') /\ upds'[u].pc = l /\ \A v \in DOMAIN upds : v # u => upds'[v] = upds[v]
  <2>1. l \in {"run", "leave", "over"}
    OBVIOUS
  <2>2. upds' = [upds EXCEPT ![u].pc = l] /\ GlobalsTypes
    BY <1>0, <1>t
  <2> HIDE DEF l
  <2> QED
    BY <2>1, <2>2, UpdateSet
<1>2. GlobalsTypes'
  <2>1. last' \in PatchType /\ sess' \subseteq Nodes
    BY <1>t, <1>0 DEF GlobalsTypes
  <2>2. upds' \in Seq(UpdType) /\ Len(upds') <= MaxUpdates
    BY <1>t, <1>1 DEF GlobalsTypes, SameUpdates
  <2>3. ASSUME NEW v \in DOMAIN upds'
        PROVE  DOMAIN upds'[v].patch = UNION {upds'[v].plan[i] : i \in 1..Len(upds'[v].plan)}
    <3>1. v \in DOMAIN upds /\ upds'[v].patch = upds[v].patch /\ upds'[v].plan = upds[v].plan
      BY <1>1 DEF SameUpdates
    <3> QED
      BY <3>1, <1>t DEF GlobalsTypes
  <2> QED
    BY <1>t, <1>0, <2>1, <2>2, <2>3 DEF GlobalsTypes
<1>3. WorkerRight' /\ ReadsOneSnapshot' /\ AcknowledgedIsSeen'
  BY <1>0, WorkersSame
<1>4. ASSUME NEW v \in Updates, NEW m \in Nodes PROVE HandlerRight(v, m)'
  <2>1. HandlerRight(v, m)
    BY DEF GlobalsInv
  <2>2. v \in DOMAIN upds => upds'[v].to = upds[v].to /\ upds'[v].plan = upds[v].plan
    BY <1>1 DEF SameUpdates
  <2>3. v \in DOMAIN upds /\ upds'[v].pc # "run" /\ m \in upds[v].to => hand[v][m].lost \/ hand[v][m].pc = "over"
    <3>1. CASE v = u
      BY <3>1, <1>0 DEF Ended, Failed
    <3>2. CASE v # u
      BY <3>2, <2>1, <1>1 DEF HandlerRight
    <3> QED
      BY <3>1, <3>2
  <2>4. DOMAIN upds' = DOMAIN upds
    BY <1>1 DEF SameUpdates
  <2>5. hand'[v][m].pc # "none" => v \in DOMAIN upds' /\ m \in upds'[v].to
    BY <2>1, <2>2, <2>4, <1>0 DEF HandlerRight
  <2>6. hand'[v][m].pc \in {"sent", "loaded", "wrote", "committed"} => hand'[v][m].batch \in 1..Len(upds'[v].plan)
    BY <2>1, <2>2, <1>0 DEF HandlerRight
  <2> QED
    BY <2>1, <2>2, <2>3, <2>4, <2>5, <2>6, <1>0 DEF HandlerRight
<1>5. ASSUME ~mixed' PROVE Unmixed'
  <2>0. Unmixed /\ InOrder
    BY <1>5, <1>0 DEF GlobalsInv, Unmixed
  <2>a. Active' = {}
    <3>1. \A v \in Active : v = u
      BY <2>0, <1>0 DEF InOrder
    <3>2. l # "run"
      OBVIOUS
    <3> QED
      BY <3>1, <3>2, <1>1 DEF Active, SameUpdates
  <2>1. ASSUME NEW v \in Updates, NEW m \in Nodes PROVE HandlerSees(v, m)'
    <3>1. HandlerSees(v, m) /\ HandlerRight(v, m)
      BY <2>0 DEF GlobalsInv, Unmixed
    <3>2. hand[v][m].pc # "none" => upds'[v].plan = upds[v].plan /\ upds'[v].patch = upds[v].patch
      BY <3>1, <1>1 DEF HandlerRight, SameUpdates
    <3>3. Len(upds') = Len(upds)
      BY <1>1 DEF SameUpdates
    <3> QED
      BY <3>1, <3>2, <3>3, <1>0 DEF HandlerSees, Works
  <2>2. ASSUME NEW m \in Nodes PROVE ReplicaHas(m)'
    <3>1. ReplicaHas(m)
      BY <2>0 DEF Unmixed
    <3> QED
      BY <3>1, <1>0 DEF ReplicaHas, Works
  <2>3. ASSUME NEW m \in Nodes, NEW x \in DOMAIN last' PROVE acked[m][x] <= last'[x]
    <3>1. CASE Failed(u) = upds[u].to
      <4>1. last' = last /\ \A v \in Active : v = u
        BY <3>1, <2>0, <1>0 DEF InOrder
      <4>2. LastIsNew(m)
        BY <2>0 DEF InOrder
      <4> QED
        BY <4>1, <4>2, <3>1 DEF LastIsNew, Failed
    <3>2. CASE Failed(u) # upds[u].to
      BY <3>2, <2>0, <1>0 DEF InOrder
    <3> QED
      BY <3>1, <3>2
  <2>4. \A x \in DOMAIN last' : last'[x] <= Len(upds) + 1
    BY <2>0, <1>0 DEF InOrder
  <2>5. wait' # NoPatch => wait' = last'
    <3> SUFFICES ASSUME wait # NoPatch PROVE wait = last'
      BY <1>0
    <3>1. wait = last /\ upds[u].by # "user"
      BY <2>0, <1>0 DEF InOrder
    <3>2. upds[u] \in UpdType
      BY <1>t, UpdateOf
    <3>3. upds[u].by = "replay"
      BY <3>1, <3>2 DEF UpdType
    <3>4. upds[u].patch = last
      BY <3>3, <2>0, <1>0 DEF InOrder
    <3> QED
      BY <3>1, <3>4, <1>0
  <2>6. InOrder'
    <3>1. \A v \in DOMAIN upds' : \A x \in DOMAIN upds'[v].patch : upds'[v].patch[x] <= Len(upds') + 1
      BY <2>0, <1>1 DEF InOrder, SameUpdates
    <3>2. \A m \in Nodes, x \in GlobalNames : acked'[m][x] <= Len(upds') + 1
      BY <2>0, <1>0, <1>1 DEF InOrder, SameUpdates
    <3>3. \A m \in Nodes : LastIsNew(m)'
      BY <2>3, <1>0 DEF LastIsNew
    <3>4. \A x \in DOMAIN last' : last'[x] <= Len(upds') + 1
      BY <2>4, <1>1 DEF SameUpdates
    <3> QED
      BY <2>a, <2>5, <3>1, <3>2, <3>3, <3>4 DEF InOrder
  <2> QED
    BY <2>0, <2>1, <2>2, <2>6, <1>0 DEF Unmixed
<1> QED
  BY <1>2, <1>3, <1>4, <1>5 DEF GlobalsInv

\* A handler that a new update has on a node.
FirstHandler(n) == IF n \in sess THEN [NoHandler EXCEPT !.pc = "sent", !.inc = repl[n].inc] ELSE NoHandler

\* The handler of a new update is about to work, on the nodes of the session only.
LEMMA FirstHandlerHas ==
  ASSUME GlobalsTypes, NEW n \in Nodes
  PROVE  LET h == FirstHandler(n) IN
         /\ h \in HandType /\ h.batch = 1 /\ h.lost = FALSE
         /\ n \in sess => h.pc = "sent" /\ h.inc = repl[n].inc
         /\ n \notin sess => h.pc = "none" /\ h.inc = 0
<1>1. repl[n].inc \in Nat
  <2>1. repl[n] \in ReplType
    BY DEF GlobalsTypes
  <2> QED
    BY <2>1 DEF ReplType
<1> QED
  BY <1>1, FirstValues DEF FirstHandler, NoHandler, HandType, HandlerPcs

\* A new update starts when its predecessors are over; one that meets another
\* update or a change of the replicas is of no concern to Unmixed.
LEMMA LaunchKeeps ==
  ASSUME GlobalsInv, NEW before, SameUpdates(before), NEW by \in {"user", "replay"}, NEW patch \in PatchType,
         \A u \in DOMAIN upds : before[u].pc = upds[u].pc \/ (upds[u].pc # "run" /\ before[u].pc # "run"),
         NEW plan \in Seq(SUBSET GlobalNames), Len(plan) > 0,
         DOMAIN patch = UNION {plan[i] : i \in 1..Len(plan)},
         Launch(before, by, patch, plan), UNCHANGED <<kind, repl, sess, last, calls, acked>>,
         comp' \in [pc : {"idle", "created", "added"}, node : Nodes \cup {0}], comp'.pc # "idle" => comp'.node \in Nodes,
         wait' \in {wait, NoPatch},
         by = "user" => \A x \in DOMAIN patch : patch[x] = Len(upds) + 2,
         by = "replay" => patch = wait \/ patch = last, by = "replay" => patch # NoPatch
  PROVE  GlobalsInv'
<1> DEFINE e == [pc |-> "run", by |-> by, patch |-> patch, plan |-> plan, to |-> sess]
           u == Len(upds) + 1
<1>t. GlobalsTypes /\ hand \in [Updates -> [Nodes -> HandType]] /\ repl \in [Nodes -> ReplType]
      /\ acked \in [Nodes -> Values] /\ wait \in PatchType /\ last \in PatchType
  BY DEF GlobalsInv, GlobalsTypes
<1>l. Len(upds) \in Nat /\ DOMAIN upds = 1..Len(upds) /\ MaxUpdates \in Nat
  <2> DEFINE U == UpdType
  <2>1. upds \in Seq(U)
    BY <1>t DEF GlobalsTypes
  <2> HIDE DEF U
  <2> QED
    BY <2>1, ManagedGlobalsAssumption
<1>0. /\ u <= MaxUpdates /\ upds' = Append(before, e) /\ (mixed => mixed') /\ mixed' \in BOOLEAN
      /\ hand' = [hand EXCEPT ![u] = [n \in Nodes |-> FirstHandler(n)]]
      /\ ~mixed' => Active = {} /\ (\A n \in Nodes : Busy(n) = {}) /\ (by = "user" => wait = NoPatch)
  <2>1. Len(before) = Len(upds)
    BY DEF SameUpdates
  <2> QED
    BY <2>1, <1>t DEF Launch, FirstHandler, GlobalsTypes
<1>u. u \in Updates /\ u \notin DOMAIN upds /\ u \in Nat
  BY <1>0, <1>l DEF Updates
<1>e. e \in UpdType
  <2>1. sess \in SUBSET Nodes
    BY <1>t DEF GlobalsTypes
  <2> QED
    BY <2>1 DEF UpdType
<1>1. /\ upds' \in Seq(UpdType) /\ Len(upds') = u /\ DOMAIN upds' = DOMAIN upds \cup {u} /\ upds'[u] = e
      /\ \A v \in DOMAIN upds : upds'[v] = before[v]
  <2> DEFINE U == UpdType
  <2>1. before \in Seq(U) /\ e \in U /\ Len(before) = Len(upds)
    BY <1>e DEF SameUpdates
  <2> HIDE DEF U, e
  <2>2. /\ Append(before, e) \in Seq(U) /\ Len(Append(before, e)) = u /\ Append(before, e)[u] = e
        /\ DOMAIN Append(before, e) = 1..u /\ \A v \in 1..Len(upds) : Append(before, e)[v] = before[v]
    BY <2>1, <1>l
  <2>3. 1..u = (1..Len(upds)) \cup {u}
    BY <1>l
  <2> QED
    BY <2>2, <2>3, <1>0, <1>l DEF U
<1>f. e.pc = "run" /\ e.by = by /\ e.patch = patch /\ e.plan = plan /\ e.to = sess
  OBVIOUS
<1> HIDE DEF e
<1>s. \A v \in DOMAIN upds : /\ upds'[v].by = upds[v].by /\ upds'[v].patch = upds[v].patch
                             /\ upds'[v].plan = upds[v].plan /\ upds'[v].to = upds[v].to
                             /\ upds'[v].pc = "run" <=> upds[v].pc = "run"
  BY <1>1 DEF SameUpdates
<1>h. /\ hand' \in [Updates -> [Nodes -> HandType]] /\ \A n \in Nodes : hand'[u][n] = FirstHandler(n)
      /\ \A v \in Updates, n \in Nodes : v # u => hand'[v][n] = hand[v][n]
  <2> DEFINE H == [n \in Nodes |-> FirstHandler(n)]
  <2>1. H \in [Nodes -> HandType] /\ \A n \in Nodes : H[n] = FirstHandler(n)
    BY <1>t, FirstHandlerHas
  <2> HIDE DEF H
  <2>2. hand' = [hand EXCEPT ![u] = H]
    BY <1>0 DEF H
  <2> QED
    BY <2>1, <2>2, <1>t, <1>u
<1>w. wait' \in PatchType
  <2>1. NoPatch \in [{} -> Nat]
    BY DEF NoPatch
  <2>2. [{} -> Nat] \in {[R -> Nat] : R \in SUBSET GlobalNames}
    OBVIOUS
  <2>3. NoPatch \in PatchType
    BY <2>1, <2>2 DEF PatchType
  <2> QED
    BY <2>3, <1>t
<1>2. GlobalsTypes'
  <2>1. ASSUME NEW v \in DOMAIN upds'
        PROVE  DOMAIN upds'[v].patch = UNION {upds'[v].plan[i] : i \in 1..Len(upds'[v].plan)}
    <3>1. CASE v = u
      <4>1. upds'[v].patch = patch /\ upds'[v].plan = plan
        BY <3>1, <1>1, <1>f
      <4> QED
        BY <4>1
    <3>2. CASE v # u
      <4>1. v \in DOMAIN upds
        BY <3>2, <1>1
      <4>2. upds'[v].patch = upds[v].patch /\ upds'[v].plan = upds[v].plan
        BY <4>1, <1>s
      <4> QED
        BY <4>1, <4>2, <1>t DEF GlobalsTypes
    <3> QED
      BY <3>1, <3>2
  <2> QED
    BY <2>1, <1>0, <1>1, <1>h, <1>w, <1>t DEF GlobalsTypes
<1>3. WorkerRight' /\ ReadsOneSnapshot' /\ AcknowledgedIsSeen'
  BY <1>0, WorkersSame
<1>r. \A n \in sess : repl[n].st = "ready"
  BY DEF GlobalsInv, WorkerRight
<1>a. \A v \in Updates, n \in Nodes : HandlerRight(v, n)
  BY DEF GlobalsInv
<1>4. ASSUME NEW v \in Updates, NEW m \in Nodes PROVE HandlerRight(v, m)'
  <2>1. HandlerRight(v, m)
    BY <1>a
  <2>2. CASE v = u
    <3> DEFINE h == FirstHandler(m)
    <3>1. /\ h \in HandType /\ h.batch = 1 /\ h.lost = FALSE
          /\ m \in sess => h.pc = "sent" /\ h.inc = repl[m].inc
          /\ m \notin sess => h.pc = "none" /\ h.inc = 0
      BY <1>t, FirstHandlerHas
    <3>2. hand'[v][m] = h
      BY <2>2, <1>h
    <3>3. hand[v][m].inc \in Nat /\ repl[m].inc \in Nat
      BY <1>t DEF HandType, ReplType
    <3> HIDE DEF h
    <3>4. h.inc <= repl[m].inc /\ (repl[m].st = "warming" => h.inc < repl[m].inc)
      BY <3>1, <3>3, <2>1, <1>r DEF HandlerRight
    <3>5. v \in DOMAIN upds' /\ upds'[v] = e
      BY <2>2, <1>1
    <3>6. 1 \in 1..Len(plan)
      OBVIOUS
    <3> QED
      BY <3>1, <3>2, <3>4, <3>5, <3>6, <1>f DEF HandlerRight
  <2>3. CASE v # u
    <3>1. hand'[v][m] = hand[v][m] /\ (v \in DOMAIN upds' <=> v \in DOMAIN upds)
      BY <2>3, <1>1, <1>h
    <3> QED
      BY <3>1, <2>1, <1>s DEF HandlerRight
  <2> QED
    BY <2>2, <2>3
<1>5. ASSUME ~mixed' PROVE Unmixed'
  <2>0. Unmixed /\ InOrder /\ Active = {} /\ (\A n \in Nodes : Busy(n) = {})
    BY <1>5, <1>0 DEF GlobalsInv, Unmixed
  <2>o. ASSUME NEW v \in Updates, NEW m \in Nodes, v # u PROVE hand'[v][m].pc \in {"none", "over"} /\ hand[v][m].pc \in {"none", "over"}
    <3>1. hand[v][m].pc # "none" => v \in DOMAIN upds /\ m \in upds[v].to
      BY <1>a DEF HandlerRight
    <3>2. hand[v][m].pc # "none" => hand[v][m].lost \/ hand[v][m].pc = "over"
      BY <3>1, <2>0, <1>a DEF HandlerRight, Active
    <3>3. hand[v][m].lost => hand[v][m].pc \in {"loaded", "wrote", "over"}
      BY <1>a DEF HandlerRight
    <3>4. hand[v][m].pc \notin {"loaded", "wrote"}
      BY <3>1, <2>0 DEF Busy
    <3> QED
      BY <3>2, <3>3, <3>4, <2>o, <1>h
  <2>p. ASSUME NEW m \in Nodes PROVE hand'[u][m].pc \in {"none", "sent"} /\ hand'[u][m].batch = 1
    <3> DEFINE h == FirstHandler(m)
    <3>1. h.batch = 1 /\ (m \in sess => h.pc = "sent") /\ (m \notin sess => h.pc = "none")
      BY <1>t, FirstHandlerHas
    <3> HIDE DEF h
    <3> QED
      BY <3>1, <1>h DEF h
  <2>1. ASSUME NEW v \in Updates, NEW m \in Nodes PROVE HandlerSees(v, m)'
    <3>1. CASE v = u
      BY <3>1, <2>p, <1>1 DEF HandlerSees
    <3>2. CASE v # u
      BY <3>2, <2>o DEF HandlerSees
    <3> QED
      BY <3>1, <3>2
  <2>2. ASSUME NEW m \in Nodes PROVE ReplicaHas(m)'
    <3>1. ReplicaHas(m)
      BY <2>0 DEF Unmixed
    <3>2. \A v \in Updates : hand[v][m].pc # "wrote"
      <4>1. hand[u][m].pc = "none"
        BY <1>a, <1>u DEF HandlerRight
      <4> QED
        BY <4>1, <2>o
    <3> QED
      BY <3>1, <3>2 DEF ReplicaHas, Works
  <2>l. \A m \in Nodes, x \in DOMAIN last : acked[m][x] <= last[x]
    BY <2>0 DEF InOrder, LastIsNew
  <2>w. by = "replay" => patch = last
    BY <2>0 DEF InOrder
  <2>x. DOMAIN patch \in SUBSET GlobalNames /\ patch \in [DOMAIN patch -> Nat]
    BY PatchHas
  <2>k. /\ \A m \in Nodes, x \in GlobalNames : acked[m][x] <= Len(upds) + 1 /\ acked[m][x] \in Nat
        /\ \A x \in DOMAIN last : last[x] <= Len(upds) + 1
    BY <2>0, <1>t DEF InOrder, Values
  <2>3. ASSUME NEW m \in Nodes, NEW x \in DOMAIN patch PROVE acked[m][x] <= patch[x] /\ patch[x] <= Len(upds) + 2
    <3>1. CASE by = "user"
      <4>1. patch[x] = Len(upds) + 2 /\ x \in GlobalNames
        BY <3>1, <2>x
      <4>2. acked[m][x] <= Len(upds) + 1 /\ acked[m][x] \in Nat
        BY <4>1, <2>k
      <4> QED
        BY <4>1, <4>2, <1>l
    <3>2. CASE by = "replay"
      BY SMTT(40), <3>2, <2>w, <2>l, <2>k, <2>x, <1>l
    <3> QED
      BY <3>1, <3>2
  <2>q. ASSUME NEW x \in DOMAIN patch PROVE patch[x] <= u + 1
    <3>1. CASE by = "user"
      BY <3>1, <1>l
    <3>2. CASE by = "replay"
      <4>1. patch[x] <= Len(upds) + 1 /\ patch[x] \in Nat
        BY <3>2, <2>w, <2>k, <2>x
      <4> QED
        BY <4>1, <1>l
    <3> QED
      BY <3>1, <3>2
  <2>a. Active' = {u}
    BY <2>0, <1>1, <1>s, <1>f DEF Active
  <2>4. InOrder'
    <3>1. \A v \in Active', m \in Nodes : \A x \in DOMAIN upds'[v].patch : acked'[m][x] <= upds'[v].patch[x]
      BY <2>a, <2>3, <1>1, <1>f
    <3>2. \A v \in Active' : v = Len(upds') /\ (upds'[v].by = "replay" => upds'[v].patch = last')
      BY <2>a, <2>w, <1>1, <1>f
    <3>3. wait' # NoPatch => wait' = last' /\ \A v \in Active' : upds'[v].by # "user"
      BY <2>a, <2>0, <1>5, <1>0, <1>1, <1>f DEF InOrder
    <3>4. \A m \in Nodes : LastIsNew(m)'
      BY <2>l DEF LastIsNew
    <3>5. ASSUME NEW m \in Nodes, NEW x \in GlobalNames PROVE acked'[m][x] <= Len(upds') + 1
      <4>1. acked[m][x] <= Len(upds) + 1 /\ acked[m][x] \in Nat
        BY <2>k
      <4> QED
        BY <4>1, <1>1, <1>l
    <3>6. ASSUME NEW v \in DOMAIN upds', NEW x \in DOMAIN upds'[v].patch PROVE upds'[v].patch[x] <= Len(upds') + 1
      <4>1. CASE v = u
        BY <4>1, <2>q, <1>1, <1>f
      <4>2. CASE v # u
        <5>1. v \in DOMAIN upds /\ upds'[v].patch = upds[v].patch
          BY <4>2, <1>1, <1>s
        <5>2. upds[v].patch[x] <= Len(upds) + 1
          BY <5>1, <2>0 DEF InOrder
        <5>3. upds[v].patch[x] \in Nat
          BY <5>1, <1>t, UpdateOf, PatchHas
        <5> QED
          BY <5>1, <5>2, <5>3, <1>1, <1>l
      <4> QED
        BY <4>1, <4>2
    <3>7. ASSUME NEW x \in DOMAIN last' PROVE last'[x] <= Len(upds') + 1
      <4>1. last[x] <= Len(upds) + 1 /\ last[x] \in Nat
        BY <2>k, <1>t, PatchHas
      <4> QED
        BY <4>1, <1>1, <1>l
    <3> QED
      BY <3>1, <3>2, <3>3, <3>4, <3>5, <3>6, <3>7 DEF InOrder
  <2> QED
    BY <2>0, <2>1, <2>2, <2>4 DEF Unmixed
<1> QED
  BY <1>2, <1>3, <1>4, <1>5 DEF GlobalsInv

\* The updates as they are, and a plan of one batch.
LEMMA AsTheyAre ==
  ASSUME GlobalsTypes
  PROVE  SameUpdates(upds)
BY DEF GlobalsTypes, SameUpdates

\* A replay goes out in one batch.
LEMMA OneBatch ==
  ASSUME NEW patch \in PatchType
  PROVE  LET plan == <<DOMAIN patch>> IN
         /\ plan \in Seq(SUBSET GlobalNames) /\ Len(plan) > 0
         /\ DOMAIN patch = UNION {plan[i] : i \in 1..Len(plan)}
<1>1. DOMAIN patch \in SUBSET GlobalNames
  BY PatchHas
<1> DEFINE D == DOMAIN patch
           plan == <<D>>
<1> HIDE DEF D
<1>2. D \in SUBSET GlobalNames
  BY <1>1 DEF D
<1>3. plan \in Seq(SUBSET GlobalNames) /\ Len(plan) = 1 /\ plan[1] = D
  BY <1>2
<1>4. {plan[i] : i \in 1..Len(plan)} = {D}
  BY <1>3
<1> QED
  BY <1>3, <1>4 DEF D

\* The user updates the globals.
LEMMA UserUpdateKeeps ==
  ASSUME GlobalsInv, UserUpdate
  PROVE  GlobalsInv'
<1>t. GlobalsTypes
  BY DEF GlobalsInv
<1>1. PICK P \in Patches : \E plan \in Cuts(P) : Launch(upds, "user", [x \in P |-> Len(upds) + 2], plan)
  BY DEF UserUpdate
<1>2. PICK plan \in Cuts(P) : Launch(upds, "user", [x \in P |-> Len(upds) + 2], plan)
  BY <1>1
<1> DEFINE patch == [x \in P |-> Len(upds) + 2]
<1>3. plan \in Seq(SUBSET GlobalNames) /\ UNION {plan[i] : i \in 1..Len(plan)} = P /\ P \in SUBSET GlobalNames /\ P # {}
  BY ManagedGlobalsAssumption DEF Cuts
<1>4. Len(upds) \in Nat
  <2> DEFINE U == UpdType
  <2>1. upds \in Seq(U)
    BY <1>t DEF GlobalsTypes
  <2> HIDE DEF U
  <2> QED
    BY <2>1
<1>5. patch \in PatchType /\ DOMAIN patch = P /\ \A x \in DOMAIN patch : patch[x] = Len(upds) + 2
  <2>1. patch \in [P -> Nat]
    BY <1>4
  <2>2. [P -> Nat] \in {[R -> Nat] : R \in SUBSET GlobalNames}
    BY <1>3
  <2> QED
    BY <2>1, <2>2 DEF PatchType
<1> HIDE DEF patch
<1>6. Launch(upds, "user", patch, plan)
  BY <1>2 DEF patch
<1>7. Len(plan) > 0
  <2>1. Len(plan) \in Nat /\ (Len(plan) = 0 => {plan[i] : i \in 1..Len(plan)} = {})
    BY <1>3
  <2> QED
    BY <2>1, <1>3
<1>8. UNCHANGED <<kind, repl, sess, last, wait, comp, calls, faults, acked>>
  BY DEF UserUpdate
<1>9. comp' \in [pc : {"idle", "created", "added"}, node : Nodes \cup {0}] /\ (comp'.pc # "idle" => comp'.node \in Nodes)
  BY <1>8, <1>t DEF GlobalsTypes
<1> QED
  BY <1>t, <1>3, <1>5, <1>6, <1>7, <1>8, <1>9, AsTheyAre, LaunchKeeps

\* A replay ends, and the one that waits starts.
LEMMA LeaveKeeps ==
  ASSUME GlobalsInv, NEW u \in DOMAIN upds, Leave(u)
  PROVE  GlobalsInv'
<1>t. GlobalsTypes /\ wait \in PatchType
  BY DEF GlobalsInv, GlobalsTypes
<1>b. PICK before : before = [upds EXCEPT ![u].pc = "over"]
  OBVIOUS
<1>0. upds[u].pc = "leave" /\ wait' = NoPatch /\ UNCHANGED <<kind, repl, sess, last, comp, calls, faults, acked>>
  BY DEF Leave
<1>1. /\ SameUpdates(before)
      /\ \A v \in DOMAIN upds : before[v].pc = upds[v].pc \/ (upds[v].pc # "run" /\ before[v].pc # "run")
  BY <1>b, <1>0, <1>t, UpdateSet
<1>c. comp' \in [pc : {"idle", "created", "added"}, node : Nodes \cup {0}] /\ (comp'.pc # "idle" => comp'.node \in Nodes)
  BY <1>0, <1>t DEF GlobalsTypes
<1>2. CASE wait = NoPatch \/ sess = {}
  <2>1. upds' = before /\ UNCHANGED <<hand, mixed>>
    BY <1>2, <1>b DEF Leave
  <2>2. GlobalsTypes'
    <3>1. wait' \in PatchType
      <4>1. NoPatch \in [{} -> Nat]
        BY DEF NoPatch
      <4>2. [{} -> Nat] \in {[R -> Nat] : R \in SUBSET GlobalNames}
        OBVIOUS
      <4> QED
        BY <4>1, <4>2, <1>0 DEF PatchType
    <3>2. upds' \in Seq(UpdType) /\ Len(upds') <= MaxUpdates
      BY <1>t, <1>1, <2>1 DEF GlobalsTypes, SameUpdates
    <3>3. ASSUME NEW v \in DOMAIN upds'
          PROVE  DOMAIN upds'[v].patch = UNION {upds'[v].plan[i] : i \in 1..Len(upds'[v].plan)}
      <4>1. v \in DOMAIN upds /\ upds'[v].patch = upds[v].patch /\ upds'[v].plan = upds[v].plan
        BY <1>1, <2>1 DEF SameUpdates
      <4> QED
        BY <4>1, <1>t DEF GlobalsTypes
    <3> QED
      BY <1>t, <1>0, <2>1, <3>1, <3>2, <3>3 DEF GlobalsTypes
  <2>3. WorkerRight' /\ ReadsOneSnapshot' /\ AcknowledgedIsSeen'
    BY <1>0, <2>1, WorkersSame
  <2>s. DOMAIN upds' = DOMAIN upds /\ Len(upds') = Len(upds)
        /\ \A v \in DOMAIN upds : /\ upds'[v].to = upds[v].to /\ upds'[v].plan = upds[v].plan /\ upds'[v].by = upds[v].by
                                  /\ upds'[v].patch = upds[v].patch /\ (upds'[v].pc = "run" <=> upds[v].pc = "run")
    BY <1>1, <2>1 DEF SameUpdates
  <2>4. ASSUME NEW v \in Updates, NEW m \in Nodes PROVE HandlerRight(v, m)'
    <3>1. HandlerRight(v, m)
      BY DEF GlobalsInv
    <3> QED
      BY <3>1, <2>1, <2>s, <1>0 DEF HandlerRight
  <2>5. ASSUME ~mixed' PROVE Unmixed'
    <3>0. Unmixed /\ InOrder
      BY <2>5, <2>1 DEF GlobalsInv, Unmixed
    <3>1. ASSUME NEW v \in Updates, NEW m \in Nodes PROVE HandlerSees(v, m)'
      <4>1. HandlerSees(v, m) /\ (hand[v][m].pc # "none" => v \in DOMAIN upds)
        BY <3>0 DEF GlobalsInv, Unmixed, HandlerRight
      <4> QED
        BY <4>1, <2>1, <2>s, <1>0 DEF HandlerSees, Works
    <3>2. ASSUME NEW m \in Nodes PROVE ReplicaHas(m)'
      <4>1. ReplicaHas(m)
        BY <3>0 DEF Unmixed
      <4> QED
        BY <4>1, <2>1, <1>0 DEF ReplicaHas, Works
    <3>a. Active' = Active
      BY <2>s DEF Active
    <3>3. InOrder'
      <4>1. \A m \in Nodes : LastIsNew(m)'
        BY <3>0, <3>a, <2>1, <2>s, <1>0 DEF InOrder, LastIsNew, Active
      <4> QED
        BY <4>1, <3>0, <3>a, <2>1, <2>s, <1>0 DEF InOrder, Active
    <3> QED
      BY <3>0, <3>1, <3>2, <3>3, <2>1, <1>0 DEF Unmixed
  <2> QED
    BY <2>2, <2>3, <2>4, <2>5 DEF GlobalsInv
<1>3. CASE ~(wait = NoPatch \/ sess = {})
  <2> DEFINE plan == <<DOMAIN wait>>
  <2>1. Launch(before, "replay", wait, plan) /\ wait # NoPatch
    BY <1>3, <1>b DEF Leave
  <2>2. plan \in Seq(SUBSET GlobalNames) /\ Len(plan) > 0 /\ DOMAIN wait = UNION {plan[i] : i \in 1..Len(plan)}
    BY <1>t, OneBatch
  <2> HIDE DEF plan
  <2> QED
    BY <2>1, <2>2, <1>0, <1>1, <1>c, <1>t, LaunchKeeps
<1> QED
  BY <1>2, <1>3

\* The compensation replays the last values.
LEMMA ReplayKeeps ==
  ASSUME GlobalsInv, Replay
  PROVE  GlobalsInv'
<1>t. GlobalsTypes /\ last \in PatchType
  BY DEF GlobalsInv, GlobalsTypes
<1>0. comp' = [comp EXCEPT !.pc = "idle"] /\ UNCHANGED <<kind, repl, sess, last, calls, faults, acked>>
  BY DEF Replay
<1>c. comp' \in [pc : {"idle", "created", "added"}, node : Nodes \cup {0}] /\ (comp'.pc # "idle" => comp'.node \in Nodes)
  BY <1>0, <1>t DEF GlobalsTypes
<1> DEFINE busy == \E v \in DOMAIN upds : upds[v].by = "replay" /\ upds[v].pc # "over"
<1>1. CASE last # NoPatch /\ sess # {} /\ ~busy
  <2> DEFINE plan == <<DOMAIN last>>
  <2>1. Launch(upds, "replay", last, plan) /\ UNCHANGED wait
    BY <1>1 DEF Replay, Submit
  <2>2. plan \in Seq(SUBSET GlobalNames) /\ Len(plan) > 0 /\ DOMAIN last = UNION {plan[i] : i \in 1..Len(plan)}
    BY <1>t, OneBatch
  <2> HIDE DEF plan, busy
  <2> QED
    BY <2>1, <2>2, <1>0, <1>1, <1>c, <1>t, AsTheyAre, LaunchKeeps
<1>2. CASE ~(last # NoPatch /\ sess # {} /\ ~busy)
  <2>1. /\ UNCHANGED <<upds, hand>> /\ (mixed => mixed') /\ mixed' \in BOOLEAN
        /\ wait' = wait \/ (wait' = last /\ (~mixed' => \A v \in Active : upds[v].by # "user"))
    BY <1>2, <1>t DEF Replay, Submit, GlobalsTypes
  <2>2. GlobalsTypes'
    BY <2>1, <1>0, <1>c, <1>t DEF GlobalsTypes
  <2>3. WorkerRight' /\ ReadsOneSnapshot' /\ AcknowledgedIsSeen'
    BY <1>0, <2>1, WorkersSame
  <2>4. ASSUME NEW v \in Updates, NEW m \in Nodes PROVE HandlerRight(v, m)'
    <3>1. HandlerRight(v, m)
      BY DEF GlobalsInv
    <3> QED
      BY <3>1, <2>1, <1>0 DEF HandlerRight
  <2>5. ASSUME ~mixed' PROVE Unmixed'
    <3>0. Unmixed
      BY <2>5, <2>1 DEF GlobalsInv
    <3>1. ASSUME NEW v \in Updates, NEW m \in Nodes PROVE HandlerSees(v, m)'
      <4>1. HandlerSees(v, m)
        BY <3>0 DEF Unmixed
      <4> QED
        BY <4>1, <2>1, <1>0 DEF HandlerSees, Works
    <3>2. ASSUME NEW m \in Nodes PROVE ReplicaHas(m)'
      <4>1. ReplicaHas(m)
        BY <3>0 DEF Unmixed
      <4> QED
        BY <4>1, <2>1, <1>0 DEF ReplicaHas, Works
    <3>3. InOrder'
      BY <3>0, <2>1, <2>5, <1>0 DEF Unmixed, InOrder, LastIsNew, Active
    <3> QED
      BY <3>0, <3>1, <3>2, <3>3, <2>1, <1>0 DEF Unmixed
  <2> QED
    BY <2>2, <2>3, <2>4, <2>5 DEF GlobalsInv
<1> QED
  BY <1>1, <1>2

\* The invariant holds at first.
LEMMA GlobalsInitHolds == GlobalsInit => GlobalsInv
<1> SUFFICES ASSUME GlobalsInit PROVE GlobalsInv
  OBVIOUS
<1>r. \A n \in Nodes : /\ repl[n] \in ReplType /\ repl[n].st = "ready" /\ repl[n].inc = 1 /\ repl[n].cache = Unset
                       /\ repl[n].queue = <<>> /\ repl[n].digest = Initial /\ repl[n].state = Initial
  BY NewReplica DEF GlobalsInit
<1>h. NoHandler \in HandType /\ NoHandler.pc = "none" /\ NoHandler.inc = 0 /\ NoHandler.lost = FALSE
  BY FirstValues DEF NoHandler, HandType, HandlerPcs
<1>c. NoCall \in CallType /\ NoCall.pc = "new"
  BY FirstValues DEF NoCall, CallType
<1>n. NoPatch \in PatchType
  <2>1. NoPatch \in [{} -> Nat]
    BY DEF NoPatch
  <2>2. [{} -> Nat] \in {[R -> Nat] : R \in SUBSET GlobalNames}
    OBVIOUS
  <2> QED
    BY <2>1, <2>2 DEF PatchType
<1>u. upds = <<>> /\ DOMAIN upds = {} /\ Len(upds) = 0 /\ Active = {}
  BY DEF GlobalsInit, Active
<1>1. GlobalsTypes
  <2>1. repl \in [Nodes -> ReplType] /\ hand \in [Updates -> [Nodes -> HandType]] /\ calls \in [Calls -> CallType]
        /\ acked \in [Nodes -> Values]
    <3> HIDE DEF Replica
    <3>1. repl \in [Nodes -> ReplType]
      BY <1>r DEF GlobalsInit
    <3>2. hand \in [Updates -> [Nodes -> HandType]]
      BY <1>h DEF GlobalsInit
    <3> QED
      BY <3>1, <3>2, <1>c, FirstValues DEF GlobalsInit
  <2>2. upds \in Seq(UpdType) /\ Len(upds) <= MaxUpdates
    BY <1>u, ManagedGlobalsAssumption
  <2> QED
    BY <2>1, <2>2, <1>n, <1>u DEF GlobalsTypes, GlobalsInit
<1>2. WorkerRight
  BY <1>r DEF WorkerRight, GlobalsInit, Unset
<1>3. ReadsOneSnapshot /\ AcknowledgedIsSeen
  BY <1>c DEF ReadsOneSnapshot, AcknowledgedIsSeen, GlobalsInit
<1>4. ASSUME NEW v \in Updates, NEW m \in Nodes PROVE HandlerRight(v, m)
  <2>1. hand[v][m] = NoHandler
    BY DEF GlobalsInit
  <2> QED
    BY <2>1, <1>h, <1>r, <1>u DEF HandlerRight
<1>5. Unmixed
  <2>1. ASSUME NEW v \in Updates, NEW m \in Nodes PROVE HandlerSees(v, m)
    <3>1. hand[v][m] = NoHandler
      BY DEF GlobalsInit
    <3> QED
      BY <3>1, <1>h DEF HandlerSees
  <2>2. ASSUME NEW m \in Nodes PROVE ReplicaHas(m)
    BY <1>r DEF ReplicaHas, GlobalsInit, Unset, Initial
  <2>3. InOrder
    BY <1>u DEF InOrder, LastIsNew, GlobalsInit, NoPatch, Unset
  <2> QED
    BY <2>1, <2>2, <2>3, <1>c DEF Unmixed, GlobalsInit
<1> QED
  BY <1>1, <1>2, <1>3, <1>4, <1>5 DEF GlobalsInv

\* Every step keeps it.
LEMMA GlobalsStepHolds == GlobalsInv /\ [GlobalsNext]_globalsVars => GlobalsInv'
<1> SUFFICES ASSUME GlobalsInv, [GlobalsNext]_globalsVars PROVE GlobalsInv'
  OBVIOUS
<1>1. CASE UserUpdate \/ Join \/ Replay
  BY <1>1, UserUpdateKeeps, JoinKeeps, ReplayKeeps
<1>2. CASE \E u \in DOMAIN upds : FinishUpdate(u) \/ Leave(u)
  BY <1>2, FinishKeeps, LeaveKeeps
<1>3. CASE \E n \in Nodes : NodeStep(n)
  <2>1. PICK n \in Nodes : NodeStep(n)
    BY <1>3
  <2>2. CASE Lose(n) \/ Create(n) \/ InitialGlobals(n) \/ Run(n)
    BY <2>2, LoseKeeps, CreateKeeps, InitialGlobalsKeeps, RunKeeps
  <2>3. CASE \E u \in DOMAIN upds : GiveUp(u, n) \/ Load(u, n) \/ Write(u, n) \/ Commit(u, n) \/ Answer(u, n)
    BY <2>3, GiveUpKeeps, LoadKeeps, WriteKeeps, CommitKeeps, AnswerKeeps
  <2> QED
    BY <2>1, <2>2, <2>3 DEF NodeStep
<1>4. CASE \E c \in Calls : Submitted(c) \/ \E n \in Nodes : Call(c, n)
  BY <1>4, SubmittedKeeps, CallKeeps
<1>5. CASE UNCHANGED globalsVars
  <2>0. UNCHANGED <<kind, repl, sess, last, upds, hand, wait, comp, calls, faults, acked, mixed>>
    BY <1>5 DEF globalsVars
  <2>1. GlobalsTypes'
    BY <2>0 DEF GlobalsInv, GlobalsTypes
  <2>2. WorkerRight' /\ ReadsOneSnapshot' /\ AcknowledgedIsSeen'
    BY <2>0, WorkersSame
  <2>3. \A u \in Updates, n \in Nodes : HandlerRight(u, n)'
    BY <2>0 DEF GlobalsInv, HandlerRight
  <2>4. ASSUME ~mixed' PROVE Unmixed'
    <3>1. Unmixed
      BY <2>0, <2>4 DEF GlobalsInv
    <3> QED
      BY <3>1, <2>0, ReplicasSame DEF Unmixed
  <2> QED
    BY <2>1, <2>2, <2>3, <2>4 DEF GlobalsInv
<1> QED
  BY <1>1, <1>2, <1>3, <1>4, <1>5 DEF GlobalsNext

\* A call reads what it was meant to read: the values of the snapshot it was
\* built with, and, as long as nothing met, no older ones than its node had
\* acknowledged.  (update_service_globals, update_runtime_globals,
\* controlplane/nodecontrol_state.py; _apply_managed_globals_to_router,
\* node/execution.py)
THEOREM GlobalsSeen == GlobalsSpec => []CallsSeeGlobals
<1>1. GlobalsInv => CallsSeeGlobals
  BY DEF GlobalsInv, CallsSeeGlobals
<1> QED
  BY <1>1, GlobalsInitHolds, GlobalsStepHolds, PTL DEF GlobalsSpec

-----------------------------------------------------------------------------
(* ManagedGlobals: why the replicas agree. *)

\* The names the updates so far have set.
NamesSet  == UNION {DOMAIN upds[u].patch : u \in DOMAIN upds}
SameNames == \A u \in DOMAIN upds : DOMAIN upds[u].patch = NamesSet
Replaced  == \E n \in Nodes : repl[n].inc > 1
NoLoss    == kind = "pool" => \A u \in DOMAIN upds : Failed(u) = {}

\* A replica that is to join has the initial globals once it is ready, and no
\* handler was ever sent to it.
JoinerNew ==
  comp.pc = "created" =>
    /\ comp.node \notin sess /\ repl[comp.node].inc > 1
    /\ \A u \in Updates : hand[u][comp.node].inc < repl[comp.node].inc
    /\ repl[comp.node].st = "ready" => repl[comp.node].digest = Initial

\* The update under way goes to the session as it is; one that is over has left
\* no replica in it that it did not reach.
Reaches ==
  /\ \A u \in Active : upds[u].to = sess /\ \A n \in sess : hand[u][n].inc = repl[n].inc
  /\ \A u \in DOMAIN upds \ Active : \A n \in sess : Works(u, n) => ~hand[u][n].lost

\* What a handler has written, and what it leaves as it was.
Writes(u, n) ==
  /\ u \in Active /\ n \in sess /\ hand[u][n].pc = "over" /\ ~hand[u][n].lost
       => \A x \in DOMAIN upds[u].patch : repl[n].digest[x] = upds[u].patch[x]
  /\ Works(u, n) /\ hand[u][n].pc \in {"loaded", "wrote"}
       => \A x \in GlobalNames \ DOMAIN upds[u].patch : hand[u][n].new[x] = repl[n].digest[x]

\* A name no update has set has its initial value; before the first update that
\* reached a replica all have.
AtFirst ==
  /\ \A n \in sess : \A x \in GlobalNames \ NamesSet : repl[n].digest[x] = 1
  /\ last = NoPatch /\ Active = {} => \A n \in sess : \A x \in GlobalNames : repl[n].digest[x] = 1

\* The replicas of the session agree on the names that are not being set, unless
\* one that has joined waits for the last values.
Settled == Replaced => SameNames /\ comp.pc # "added" /\ wait = NoPatch
Free(x) == \A u \in Active : x \notin DOMAIN upds[u].patch
Even ==
  Settled => \A x \in GlobalNames : Free(x) => \A m, n \in sess : repl[m].digest[x] = repl[n].digest[x]

AgreeInv ==
  /\ \A n \in Nodes : repl[n].inc >= 1
  /\ \A u \in DOMAIN upds : upds[u].patch # NoPatch
  /\ JoinerNew
  /\ ~mixed /\ NoLoss => Reaches /\ AtFirst /\ Even /\ \A u \in DOMAIN upds, n \in Nodes : Writes(u, n)

\* Nothing failed at a pool yet if nothing has when a step is over that keeps
\* the updates.
LEMMA LossStays ==
  ASSUME GlobalsTypes, NoLoss', UNCHANGED kind, DOMAIN upds \subseteq DOMAIN upds',
         \A u \in DOMAIN upds : upds'[u].to = upds[u].to,
         \A u \in DOMAIN upds, n \in Nodes : hand[u][n].lost => hand'[u][n].lost
  PROVE  NoLoss
<1> SUFFICES ASSUME kind = "pool", NEW u \in DOMAIN upds, NEW n \in upds[u].to, hand[u][n].lost PROVE FALSE
  BY DEF NoLoss, Failed
<1>1. upds[u] \in UpdType
  BY UpdateOf
<1>2. n \in Nodes
  BY <1>1 DEF UpdType
<1>3. n \in Failed(u)'
  BY <1>2 DEF Failed
<1> QED
  BY <1>3 DEF NoLoss

\* A step of something else.
LEMMA AgreeSame ==
  ASSUME GlobalsInv, AgreeInv, UNCHANGED <<kind, sess, last, upds, hand, wait, comp, mixed>>,
         \A n \in Nodes : repl'[n].st = repl[n].st /\ repl'[n].inc = repl[n].inc /\ repl'[n].digest = repl[n].digest
  PROVE  AgreeInv'
<1>0. sess \subseteq Nodes /\ (comp.pc = "created" => comp.node \in Nodes)
  BY DEF GlobalsInv, GlobalsTypes
<1>1. (\A n \in Nodes : repl[n].inc >= 1)' /\ (\A u \in DOMAIN upds : upds[u].patch # NoPatch)'
  BY DEF AgreeInv
<1>2. JoinerNew'
  BY <1>0 DEF AgreeInv, JoinerNew
<1>3. ASSUME ~mixed', NoLoss' PROVE Reaches' /\ AtFirst' /\ Even' /\ \A u \in DOMAIN upds', n \in Nodes : Writes(u, n)'
  <2>0. Reaches /\ AtFirst /\ Even /\ \A u \in DOMAIN upds, n \in Nodes : Writes(u, n)
    BY <1>3 DEF AgreeInv, NoLoss, Failed
  <2>1. Reaches'
    BY <2>0, <1>0 DEF Reaches, Active, Works
  <2>2. AtFirst'
    BY <2>0, <1>0 DEF AtFirst, Active, NamesSet
  <2>3. Even'
    <3>1. Settled' => Settled
      BY DEF Settled, Replaced, SameNames, NamesSet
    <3> QED
      BY <3>1, <2>0, <1>0 DEF Even, Free, Active
  <2>4. \A u \in DOMAIN upds, n \in Nodes : Writes(u, n)'
    BY <2>0, <1>0 DEF Writes, Active, Works
  <2> QED
    BY <2>1, <2>2, <2>3, <2>4
<1> QED
  BY <1>1, <1>2, <1>3 DEF AgreeInv

\* The step of a handler h changes only the names its update sets, if it works on
\* the replica that is there.
StepRight(u, n, h) ==
  /\ \A x \in GlobalNames : n \in sess /\ (u \notin Active \/ x \notin DOMAIN upds[u].patch)
                              => repl'[n].digest[x] = repl[n].digest[x]
  /\ u \in Active /\ n \in sess /\ h.pc = "over" /\ ~h.lost
       => \A x \in DOMAIN upds[u].patch : repl'[n].digest[x] = upds[u].patch[x]
  /\ Works(u, n) /\ h.pc \in {"loaded", "wrote"}
       => \A x \in GlobalNames \ DOMAIN upds[u].patch : h.new[x] = repl'[n].digest[x]

\* Such a step, which loses nothing unless its update is under way, keeps the
\* agreement of the replicas.
LEMMA HandlerAgrees ==
  ASSUME GlobalsInv, AgreeInv, NEW u \in DOMAIN upds, NEW n \in Nodes, NEW h, HandGoes(u, n, h),
         UNCHANGED <<kind, sess, last, upds, wait, comp>>, mixed => mixed',
         \A m \in Nodes : repl'[m].st = repl[m].st /\ repl'[m].inc = repl[m].inc,
         \A m \in Nodes : m # n => repl'[m].digest = repl[m].digest,
         ~Works(u, n) => repl'[n].digest = repl[n].digest,
         hand[u][n].pc \in {"sent", "loaded", "wrote", "committed"},
         h.inc = hand[u][n].inc, hand[u][n].lost => h.lost, h.lost => hand[u][n].lost \/ u \in Active,
         ~mixed' /\ NoLoss => StepRight(u, n, h)
  PROVE  AgreeInv'
<1>0. sess \subseteq Nodes /\ (comp.pc = "created" => comp.node \in Nodes) /\ GlobalsTypes /\ u \in Updates
      /\ DOMAIN upds \subseteq Updates
  BY TypesOf DEF GlobalsInv, GlobalsTypes
<1>h. \A v \in Updates, m \in Nodes : hand'[v][m].inc = hand[v][m].inc /\ (v # u \/ m # n => hand'[v][m] = hand[v][m])
  BY DEF HandGoes
<1>1. (\A m \in Nodes : repl[m].inc >= 1)' /\ (\A v \in DOMAIN upds : upds[v].patch # NoPatch)'
  BY DEF AgreeInv
<1>2. JoinerNew'
  <2> SUFFICES ASSUME comp.pc = "created"
               PROVE  /\ comp.node \notin sess /\ repl[comp.node].inc > 1
                      /\ \A v \in Updates : hand'[v][comp.node].inc < repl[comp.node].inc
                      /\ repl[comp.node].st = "ready" => repl'[comp.node].digest = Initial
    BY <1>0 DEF JoinerNew
  <2>1. JoinerNew /\ comp.node \in Nodes
    BY <1>0 DEF AgreeInv
  <2>2. \A v \in Updates : hand'[v][comp.node].inc < repl[comp.node].inc
    BY <2>1, <1>h DEF JoinerNew
  <2>3. ~Works(u, n) \/ n # comp.node
    <3>1. hand[u][n].inc \in Nat
      BY <1>0 DEF GlobalsTypes, HandType
    <3> QED
      BY <2>1, <3>1, <1>0 DEF JoinerNew, Works
  <2>4. repl'[comp.node].digest = repl[comp.node].digest
    BY <2>1, <2>3
  <2> QED
    BY <2>1, <2>2, <2>4 DEF JoinerNew
<1>3. ASSUME ~mixed', NoLoss' PROVE Reaches' /\ AtFirst' /\ Even' /\ \A v \in DOMAIN upds', m \in Nodes : Writes(v, m)'
  <2>n. NoLoss
    <3>1. \A v \in DOMAIN upds, m \in Nodes : hand[v][m].lost => hand'[v][m].lost
      <4> SUFFICES ASSUME NEW v \in DOMAIN upds, NEW m \in Nodes, hand[v][m].lost PROVE hand'[v][m].lost
        OBVIOUS
      <4>1. v \in Updates
        BY <1>0
      <4>2. CASE v = u /\ m = n
        BY <4>2 DEF HandGoes
      <4>3. CASE v # u \/ m # n
        BY <4>1, <4>3, <1>h
      <4> QED
        BY <4>2, <4>3
    <3> QED
      BY <3>1, <1>0, <1>3, LossStays
  <2>0. Reaches /\ AtFirst /\ Even /\ (\A v \in DOMAIN upds, m \in Nodes : Writes(v, m)) /\ StepRight(u, n, h) /\ Unmixed
    BY <2>n, <1>3 DEF AgreeInv, GlobalsInv
  <2>a. Active' = Active /\ NamesSet' = NamesSet
    BY DEF Active, NamesSet
  <2>w. \A v \in Updates, m \in Nodes : Works(v, m)' <=> Works(v, m)
    BY <1>h DEF Works
  <2>o. \A v \in Updates : v # u => hand[v][n].pc \in {"none", "over"} /\ v \notin Active
    <3>1. u = Len(upds)
      BY <2>0, <1>0 DEF Unmixed, HandlerSees
    <3>2. \A v \in Updates : v # Len(upds) => hand[v][n].pc \in {"none", "over"}
      BY <2>0 DEF Unmixed, HandlerSees
    <3> QED
      BY <3>1, <3>2, <2>0 DEF Unmixed, InOrder
  <2>d. ASSUME NEW m \in sess, NEW x \in GlobalNames, u \notin Active \/ x \notin DOMAIN upds[u].patch
        PROVE  repl'[m].digest[x] = repl[m].digest[x]
    BY <2>0, <2>d, <1>0 DEF StepRight
  <2>1. Reaches'
    <3>1. \A v \in Active : upds[v].to = sess /\ \A m \in sess : hand'[v][m].inc = repl'[m].inc
      BY <2>0, <1>h, <1>0 DEF Reaches, Active
    <3>2. ASSUME NEW v \in DOMAIN upds \ Active, NEW m \in sess, Works(v, m) PROVE ~hand'[v][m].lost
      <4>1. ~hand[v][m].lost /\ v \in Updates /\ m \in Nodes
        BY <2>0, <3>2, <1>0 DEF Reaches
      <4>2. CASE v = u /\ m = n
        BY <4>1, <4>2, <3>2 DEF HandGoes
      <4>3. CASE v # u \/ m # n
        BY <4>1, <4>3, <1>h
      <4> QED
        BY <4>2, <4>3
    <3> QED
      BY <3>1, <3>2, <2>a, <2>w, <1>0 DEF Reaches
  <2>x. \A x \in GlobalNames : x \notin NamesSet => x \notin DOMAIN upds[u].patch
    BY DEF NamesSet
  <2>2. AtFirst'
    <3>1. \A m \in sess : \A x \in GlobalNames \ NamesSet : repl'[m].digest[x] = 1
      BY <2>0, <2>d, <2>x DEF AtFirst
    <3>2. last = NoPatch /\ Active = {} => \A m \in sess : \A x \in GlobalNames : repl'[m].digest[x] = 1
      BY <2>0, <2>d DEF AtFirst
    <3> QED
      BY <3>1, <3>2, <2>a DEF AtFirst
  <2>3. Even'
    <3>1. Settled' => Settled
      BY DEF Settled, Replaced, SameNames, NamesSet
    <3>2. \A x \in GlobalNames : Free(x)' => Free(x) /\ (u \notin Active \/ x \notin DOMAIN upds[u].patch)
      BY <2>a DEF Free
    <3> QED
      BY <3>1, <3>2, <2>0, <2>d DEF Even
  <2>4. ASSUME NEW v \in DOMAIN upds, NEW m \in Nodes PROVE Writes(v, m)'
    <3>1. Writes(v, m) /\ v \in Updates
      BY <2>0, <1>0
    <3>2. CASE v = u /\ m = n
      <4>1. hand'[u][n] = h
        BY DEF HandGoes
      <4> QED
        BY <4>1, <3>2, <2>0, <2>a, <2>w, <1>0 DEF Writes, StepRight
    <3>3. CASE v # u /\ m = n
      <4>1. hand'[v][n].pc \in {"none", "over"} /\ v \notin Active
        BY <3>1, <3>3, <2>o, <1>h
      <4> QED
        BY <4>1, <3>3, <2>a DEF Writes
    <3>4. CASE m # n
      <4>1. hand'[v][m] = hand[v][m] /\ repl'[m].digest = repl[m].digest
        BY <3>1, <3>4, <1>h
      <4> QED
        BY <4>1, <3>1, <2>a, <2>w DEF Writes
    <3> QED
      BY <3>2, <3>3, <3>4
  <2> QED
    BY <2>1, <2>2, <2>3, <2>4
<1> QED
  BY <1>1, <1>2, <1>3 DEF AgreeInv

\* A request is given up.
LEMMA GiveUpAgrees ==
  ASSUME GlobalsInv, GlobalsInv', AgreeInv, NEW u \in DOMAIN upds, NEW n \in Nodes, GiveUp(u, n)
  PROVE  AgreeInv'
<1>t. u \in Updates /\ hand \in [Updates -> [Nodes -> HandType]] /\ hand' \in [Updates -> [Nodes -> HandType]]
      /\ hand[u][n] \in HandType
  BY TypesOf DEF GlobalsInv, GlobalsTypes
<1> DEFINE o == hand[u][n]
           h == hand'[u][n]
<1>0. /\ o.pc \in {"sent", "loaded", "wrote", "committed"} /\ u \in Active
      /\ UNCHANGED <<kind, repl, sess, last, upds, wait, comp, mixed>>
  BY DEF GiveUp
<1>1. HandGoes(u, n, h)
  BY <1>t DEF GiveUp, HandGoes
<1>2. h.inc = o.inc /\ h.new = o.new /\ h.lost /\ (h.pc \in {"loaded", "wrote"} => o.pc = h.pc)
  BY <1>t, <1>0 DEF GiveUp, HandType
<1>3. ~mixed' /\ NoLoss => StepRight(u, n, h)
  <2> SUFFICES ASSUME ~mixed, NoLoss PROVE StepRight(u, n, h)
    BY <1>0
  <2>1. Writes(u, n)
    BY DEF AgreeInv
  <2> HIDE DEF h
  <2> QED
    BY <2>1, <1>0, <1>2 DEF Writes, StepRight
<1> HIDE DEF h
<1> QED
  BY <1>0, <1>1, <1>2, <1>3, HandlerAgrees

\* The snapshot is loaded: what the update does not set is as it was.
LEMMA LoadAgrees ==
  ASSUME GlobalsInv, GlobalsInv', AgreeInv, NEW u \in DOMAIN upds, NEW n \in Nodes, Load(u, n)
  PROVE  AgreeInv'
<1>t. u \in Updates /\ hand \in [Updates -> [Nodes -> HandType]] /\ hand' \in [Updates -> [Nodes -> HandType]]
      /\ hand[u][n] \in HandType /\ upds[u] \in UpdType /\ upds[u].patch \in PatchType
      /\ repl[n] \in ReplType /\ GlobalsTypes
  <2>1. GlobalsTypes /\ hand' \in [Updates -> [Nodes -> HandType]]
    BY DEF GlobalsInv, GlobalsTypes
  <2> QED
    BY <2>1, TypesOf
<1> DEFINE o == hand[u][n]
           h == hand'[u][n]
           names == upds[u].plan[o.batch]
           base == IF kind = "service" THEN repl[n].digest ELSE repl[n].state
           some == [x \in names |-> upds[u].patch[x]]
<1>0. /\ o.pc = "sent" /\ ~o.lost /\ mixed' = (mixed \/ Busy(n) # {})
      /\ UNCHANGED <<kind, repl, sess, last, upds, wait, comp>>
  BY DEF Load
<1>1. HandGoes(u, n, h)
  BY <1>t DEF Load, HandGoes
<1>r. HandlerRight(u, n)
  BY <1>t DEF GlobalsInv
<1>a. u \in Active /\ n \in upds[u].to /\ o.batch \in 1..Len(upds[u].plan)
  BY <1>0, <1>r, <1>t DEF HandlerRight, Active, UpdType
<1>2. /\ h.inc = o.inc /\ (h.pc = "over" => h.lost) /\ h.pc \in {"loaded", "over"}
      /\ Works(u, n) => h.new = Merge(base, some)
  <2>1. CASE Refused(u, n)
    <3>1. h.inc = o.inc /\ h.lost /\ h.pc = "over" /\ ~Works(u, n)
      BY <2>1, <1>t DEF Load, HandType, Refused, Works
    <3> QED
      BY <3>1
  <2>2. CASE ~Refused(u, n)
    <3>1. hand' = [hand EXCEPT ![u][n].pc = "loaded", ![u][n].new = Merge(base, some)]
      BY <2>2 DEF Load
    <3> HIDE DEF base, some
    <3>2. h.inc = o.inc /\ h.pc = "loaded" /\ h.new = Merge(base, some)
      BY <3>1, <1>t DEF HandType
    <3> QED
      BY <3>2
  <2> QED
    BY <2>1, <2>2
<1>3. ~mixed' /\ NoLoss => StepRight(u, n, h)
  <2> SUFFICES ASSUME ~mixed', NoLoss PROVE StepRight(u, n, h)
    OBVIOUS
  <2>0. Unmixed /\ Busy(n) = {} /\ ReplicaHas(n)
    BY <1>0, <1>t DEF GlobalsInv, Unmixed
  <2>w. \A v \in Updates : hand[v][n].pc \notin {"loaded", "wrote", "committed"}
    <3> SUFFICES ASSUME NEW v \in Updates, hand[v][n].pc \in {"loaded", "wrote", "committed"} PROVE FALSE
      OBVIOUS
    <3>1. HandlerRight(v, n)
      BY DEF GlobalsInv
    <3>2. v \in DOMAIN upds
      BY <3>1 DEF HandlerRight
    <3> QED
      BY <3>2, <2>0 DEF Busy
  <2>1. ASSUME Works(u, n), NEW x \in GlobalNames \ DOMAIN upds[u].patch PROVE h.new[x] = repl[n].digest[x]
    <3>1. base = repl[n].digest
      <4>1. CASE kind = "service"
        BY <4>1
      <4>2. CASE kind # "service"
        <5>1. kind = "pool"
          BY <4>2, <1>t, ManagedGlobalsAssumption DEF GlobalsTypes
        <5> QED
          BY <5>1, <2>0, <2>1, <2>w DEF ReplicaHas, Works
      <4> QED
        BY <4>1, <4>2
    <3>2. names \in SUBSET DOMAIN upds[u].patch
      <4>1. DOMAIN upds[u].patch = UNION {upds[u].plan[i] : i \in 1..Len(upds[u].plan)}
        BY <1>t DEF GlobalsTypes
      <4> QED
        BY <4>1, <1>a
    <3>3. DOMAIN some = names
      OBVIOUS
    <3> HIDE DEF base, some, names, h
    <3> QED
      BY <2>1, <3>1, <3>2, <3>3, <1>2 DEF Merge
  <2> HIDE DEF h
  <2> QED
    BY <2>1, <1>0, <1>2 DEF StepRight
<1> HIDE DEF h
<1> QED
  BY <1>0, <1>1, <1>2, <1>3, <1>a, HandlerAgrees

\* The snapshot is written.
LEMMA WriteAgrees ==
  ASSUME GlobalsInv, GlobalsInv', AgreeInv, NEW u \in DOMAIN upds, NEW n \in Nodes, Write(u, n)
  PROVE  AgreeInv'
<1>t. u \in Updates /\ hand \in [Updates -> [Nodes -> HandType]] /\ hand' \in [Updates -> [Nodes -> HandType]]
      /\ hand[u][n] \in HandType /\ repl \in [Nodes -> ReplType]
  BY TypesOf DEF GlobalsInv, GlobalsTypes
<1> DEFINE o == hand[u][n]
           h == hand'[u][n]
<1>0. o.pc = "loaded" /\ UNCHANGED <<kind, sess, last, upds, wait, comp, mixed>>
  BY DEF Write
<1>1. HandGoes(u, n, h)
  BY <1>t DEF Write, HandGoes
<1>2. h.inc = o.inc /\ h.new = o.new /\ h.lost = o.lost /\ h.pc = "wrote"
  BY <1>t DEF Write, HandType
<1>e. \A m \in Nodes : repl'[m].st = repl[m].st /\ repl'[m].inc = repl[m].inc /\ repl'[m].digest = repl[m].digest
  BY <1>t DEF Write, ReplType
<1>3. ~mixed' /\ NoLoss => StepRight(u, n, h)
  <2> SUFFICES ASSUME ~mixed, NoLoss PROVE StepRight(u, n, h)
    BY <1>0
  <2>1. Writes(u, n)
    BY DEF AgreeInv
  <2> HIDE DEF h
  <2> QED
    BY <2>1, <1>0, <1>2, <1>e DEF Writes, StepRight
<1> HIDE DEF h
<1> QED
  BY <1>0, <1>1, <1>2, <1>3, <1>e, HandlerAgrees

\* The digest moves on: the handler of an update that is over works on no replica
\* of the session.
LEMMA CommitAgrees ==
  ASSUME GlobalsInv, GlobalsInv', AgreeInv, NEW u \in DOMAIN upds, NEW n \in Nodes, Commit(u, n)
  PROVE  AgreeInv'
<1>t. u \in Updates /\ hand \in [Updates -> [Nodes -> HandType]] /\ hand' \in [Updates -> [Nodes -> HandType]]
      /\ hand[u][n] \in HandType /\ repl \in [Nodes -> ReplType] /\ repl[n] \in ReplType /\ sess \subseteq Nodes
  BY TypesOf DEF GlobalsInv, GlobalsTypes
<1> DEFINE o == hand[u][n]
           h == hand'[u][n]
<1>0. o.pc = "wrote" /\ UNCHANGED <<kind, sess, last, upds, wait, comp, mixed>>
  BY DEF Commit
<1>1. HandGoes(u, n, h)
  BY <1>t DEF Commit, HandGoes
<1>2. h.inc = o.inc /\ h.lost = o.lost /\ h.pc = (IF o.lost THEN "over" ELSE "committed")
  BY <1>t DEF Commit, HandType
<1>e. \A m \in Nodes : /\ repl'[m].st = repl[m].st /\ repl'[m].inc = repl[m].inc
                       /\ m # n => repl'[m].digest = repl[m].digest
  BY <1>t DEF Commit, ReplType
<1>d. repl'[n].digest = IF Works(u, n) THEN o.new ELSE repl[n].digest
  BY <1>t DEF Commit, ReplType, Works
<1>3. ~mixed' /\ NoLoss => StepRight(u, n, h)
  <2> SUFFICES ASSUME ~mixed, NoLoss PROVE StepRight(u, n, h)
    BY <1>0
  <2>1. Writes(u, n) /\ Reaches /\ HandlerRight(u, n)
    BY <1>t DEF AgreeInv, GlobalsInv
  <2>2. n \in sess /\ u \notin Active => ~Works(u, n)
    <3>1. HandlerRight(u, n) /\ upds[u] \in UpdType
      BY <2>1, UpdateOf DEF GlobalsInv
    <3>2. u \notin Active => o.lost
      BY <3>1, <1>0 DEF HandlerRight, Active
    <3> QED
      BY <3>2, <2>1 DEF Reaches
  <2>3. \A x \in GlobalNames : n \in sess /\ (u \notin Active \/ x \notin DOMAIN upds[u].patch)
                                 => repl'[n].digest[x] = repl[n].digest[x]
    BY <2>1, <2>2, <1>0, <1>d DEF Writes
  <2> HIDE DEF h
  <2> QED
    BY <2>3, <1>0, <1>2 DEF StepRight
<1> HIDE DEF h
<1> QED
  BY <1>0, <1>1, <1>2, <1>3, <1>d, <1>e, HandlerAgrees

\* The answer comes when the digest has all the values.
LEMMA AnswerAgrees ==
  ASSUME GlobalsInv, GlobalsInv', AgreeInv, NEW u \in DOMAIN upds, NEW n \in Nodes, Answer(u, n)
  PROVE  AgreeInv'
<1>t. u \in Updates /\ hand \in [Updates -> [Nodes -> HandType]] /\ hand' \in [Updates -> [Nodes -> HandType]]
      /\ hand[u][n] \in HandType /\ repl \in [Nodes -> ReplType] /\ GlobalsTypes
      /\ Len(upds[u].plan) \in Nat /\ upds[u].plan \in Seq(SUBSET GlobalNames) /\ hand[u][n].batch \in Nat
  <2>1. GlobalsTypes /\ hand' \in [Updates -> [Nodes -> HandType]]
    BY DEF GlobalsInv, GlobalsTypes
  <2>2. hand[u][n] \in HandType /\ upds[u].plan \in Seq(SUBSET GlobalNames)
    BY <2>1, TypesOf
  <2> QED
    BY <2>1, <2>2, TypesOf DEF HandType
<1> DEFINE o == hand[u][n]
           h == hand'[u][n]
           more == o.batch < Len(upds[u].plan)
<1>0. o.pc = "committed" /\ UNCHANGED <<kind, sess, last, upds, wait, comp, mixed>>
  BY DEF Answer
<1>1. HandGoes(u, n, h)
  BY <1>t DEF Answer, HandGoes
<1>2. h.inc = o.inc /\ h.lost = o.lost /\ h.pc = (IF more THEN "sent" ELSE "over")
  BY <1>t DEF Answer, HandType
<1>e. \A m \in Nodes : repl'[m].st = repl[m].st /\ repl'[m].inc = repl[m].inc /\ repl'[m].digest = repl[m].digest
  BY <1>t DEF Answer, ReplType
<1>r. o.batch \in 1..Len(upds[u].plan)
  BY <1>t, <1>0 DEF GlobalsInv, HandlerRight
<1>3. ~mixed' /\ NoLoss => StepRight(u, n, h)
  <2> SUFFICES ASSUME ~mixed, NoLoss PROVE StepRight(u, n, h)
    BY <1>0
  <2>0. HandlerSees(u, n) /\ Reaches
    BY <1>t DEF GlobalsInv, Unmixed, AgreeInv
  <2>1. ASSUME u \in Active, n \in sess, h.pc = "over", NEW x \in DOMAIN upds[u].patch PROVE repl[n].digest[x] = upds[u].patch[x]
    <3>1. o.batch = Len(upds[u].plan)
      BY <2>1, <1>2, <1>r, <1>t
    <3>4. DOMAIN upds[u].patch = UNION {upds[u].plan[i] : i \in 1..Len(upds[u].plan)}
      BY <1>t DEF GlobalsInv, GlobalsTypes
    <3>2. PICK j \in 1..o.batch : x \in upds[u].plan[j]
      BY <3>1, <3>4, <2>1
    <3>3. Works(u, n)
      BY <2>1, <2>0 DEF Reaches, Works, GlobalsInv, WorkerRight
    <3> QED
      BY <2>0, <3>2, <3>3, <1>0 DEF HandlerSees
  <2> HIDE DEF h
  <2> QED
    BY <2>1, <1>0, <1>2, <1>e DEF StepRight
<1> HIDE DEF h
<1> QED
  BY <1>0, <1>1, <1>2, <1>3, <1>e, HandlerAgrees

\* A replica outside the session changes that no handler works on.
LEMMA NodeAgrees ==
  ASSUME GlobalsInv, AgreeInv, NEW n \in Nodes, UNCHANGED <<kind, last, upds, hand, wait>>,
         mixed => mixed', \A m \in Nodes : m # n => repl'[m] = repl[m],
         \A v \in Updates : ~Works(v, n)', repl'[n].inc >= 1, JoinerNew',
         sess' \subseteq sess, n \notin sess', ~mixed' => sess' = sess \/ Active = {},
         Settled' => Settled
  PROVE  AgreeInv'
<1>0. sess \subseteq Nodes /\ DOMAIN upds \subseteq Updates
  BY TypesOf DEF GlobalsInv, GlobalsTypes
<1>1. (\A m \in Nodes : repl[m].inc >= 1)' /\ (\A v \in DOMAIN upds : upds[v].patch # NoPatch)'
  BY DEF AgreeInv
<1>a. Active' = Active /\ NamesSet' = NamesSet /\ (NoLoss' => NoLoss)
  BY DEF Active, NamesSet, NoLoss, Failed
<1>2. ASSUME ~mixed', NoLoss' PROVE Reaches' /\ AtFirst' /\ Even' /\ \A v \in DOMAIN upds', m \in Nodes : Writes(v, m)'
  <2>0. Reaches /\ AtFirst /\ Even /\ (\A v \in DOMAIN upds, m \in Nodes : Writes(v, m))
    BY <1>2, <1>a DEF AgreeInv
  <2>r. \A m \in sess' : m \in sess /\ m \in Nodes /\ repl'[m] = repl[m]
    BY <1>0
  <2>1. Reaches'
    BY <2>0, <2>r, <1>2, <1>a DEF Reaches, Works
  <2>2. AtFirst'
    BY <2>0, <2>r, <1>a DEF AtFirst
  <2>3. Even'
    BY <2>0, <2>r, <1>a DEF Even, Free
  <2>4. ASSUME NEW v \in DOMAIN upds, NEW m \in Nodes PROVE Writes(v, m)'
    <3>1. CASE m = n
      BY <3>1, <1>0 DEF Writes
    <3>2. CASE m # n
      <4>1. repl'[m] = repl[m] /\ (m \in sess' => m \in sess) /\ Writes(v, m)
        BY <3>2, <2>0
      <4> QED
        BY <4>1, <1>a DEF Writes, Works
    <3> QED
      BY <3>1, <3>2
  <2> QED
    BY <2>1, <2>2, <2>3, <2>4
<1> QED
  BY <1>1, <1>2 DEF AgreeInv

\* The initial globals reach a replica that is about to join.
LEMMA InitialGlobalsAgrees ==
  ASSUME GlobalsInv, AgreeInv, NEW n \in Nodes, InitialGlobals(n)
  PROVE  AgreeInv'
<1>t. repl \in [Nodes -> ReplType] /\ repl[n] \in ReplType /\ hand \in [Updates -> [Nodes -> HandType]]
      /\ (comp.pc = "created" => comp.node \in Nodes)
  BY DEF GlobalsInv, GlobalsTypes
<1>0. repl[n].st = "warming" /\ UNCHANGED <<kind, sess, last, upds, hand, wait, comp, acked, mixed>>
  BY DEF InitialGlobals
<1>1. repl'[n].inc = repl[n].inc /\ repl'[n].digest = Initial /\ \A m \in Nodes : m # n => repl'[m] = repl[m]
  BY <1>t DEF InitialGlobals, ReplType
<1>2. n \notin sess
  BY <1>0 DEF GlobalsInv, WorkerRight
<1>w. \A v \in Updates : ~Works(v, n)'
  <2> SUFFICES ASSUME NEW v \in Updates PROVE hand[v][n].inc # repl[n].inc
    BY <1>0, <1>1 DEF Works
  <2>1. hand[v][n].inc < repl[n].inc /\ hand[v][n].inc \in Nat /\ repl[n].inc \in Nat
    BY <1>0, <1>t DEF GlobalsInv, HandlerRight, HandType, ReplType
  <2> QED
    BY <2>1
<1>3. JoinerNew'
  BY <1>0, <1>1, <1>t DEF AgreeInv, JoinerNew
<1>4. Settled' => Settled
  BY <1>0, <1>1 DEF Settled, Replaced, SameNames, NamesSet
<1>5. repl'[n].inc >= 1
  BY <1>1 DEF AgreeInv
<1> QED
  BY <1>0, <1>1, <1>2, <1>w, <1>3, <1>4, <1>5, NodeAgrees

\* A replica is lost.
LEMMA LoseAgrees ==
  ASSUME GlobalsInv, AgreeInv, NEW n \in Nodes, Lose(n)
  PROVE  AgreeInv'
<1>t. repl \in [Nodes -> ReplType] /\ (comp.pc = "created" => comp.node \in Nodes)
  BY DEF GlobalsInv, GlobalsTypes
<1> DEFINE r == [Replica("gone", repl[n].inc) EXCEPT !.digest = Unset]
<1>0. /\ n \in sess /\ sess' = sess \ {n} /\ mixed' = (mixed \/ Active # {} \/ Busy(n) # {})
      /\ repl' = [repl EXCEPT ![n] = r] /\ UNCHANGED <<kind, last, upds, hand, wait, comp>>
  BY <1>t DEF Lose
<1>1. r.st = "gone" /\ r.inc = repl[n].inc
  BY DEF Replica
<1> HIDE DEF r
<1>2. repl'[n].st = "gone" /\ repl'[n].inc = repl[n].inc /\ \A m \in Nodes : m # n => repl'[m] = repl[m]
  BY <1>0, <1>1, <1>t
<1>w. \A v \in Updates : ~Works(v, n)'
  BY <1>2 DEF Works
<1>3. JoinerNew'
  BY <1>0, <1>2, <1>t DEF AgreeInv, JoinerNew
<1>4. Settled' => Settled
  BY <1>0, <1>2 DEF Settled, Replaced, SameNames, NamesSet
<1>5. repl'[n].inc >= 1
  BY <1>2 DEF AgreeInv
<1> QED
  BY <1>0, <1>2, <1>w, <1>3, <1>4, <1>5, NodeAgrees

\* A replica is created, outside the session.
LEMMA CreateAgrees ==
  ASSUME GlobalsInv, AgreeInv, NEW n \in Nodes, Create(n)
  PROVE  AgreeInv'
<1>t. repl \in [Nodes -> ReplType] /\ repl[n] \in ReplType /\ repl[n].inc \in Nat /\ repl[n].inc >= 1
      /\ hand \in [Updates -> [Nodes -> HandType]]
  <2>1. repl \in [Nodes -> ReplType]
    BY DEF GlobalsInv, GlobalsTypes
  <2> QED
    BY <2>1 DEF GlobalsInv, GlobalsTypes, ReplType, AgreeInv
<1> DEFINE r == [Replica("warming", repl[n].inc + 1) EXCEPT !.digest = Unset, !.state = Unset]
<1>0. /\ n \notin sess /\ comp.pc = "idle" /\ comp' = [pc |-> "created", node |-> n]
      /\ mixed' = (mixed \/ Active # {} \/ Busy(n) # {})
      /\ repl' = [repl EXCEPT ![n] = r] /\ UNCHANGED <<kind, sess, last, upds, hand, wait>>
  BY <1>t DEF Create
<1>1. r.st = "warming" /\ r.inc = repl[n].inc + 1
  BY DEF Replica
<1> HIDE DEF r
<1>2. repl'[n].st = "warming" /\ repl'[n].inc = repl[n].inc + 1 /\ \A m \in Nodes : m # n => repl'[m] = repl[m]
  BY <1>0, <1>1, <1>t
<1>h. \A v \in Updates : hand[v][n].inc < repl'[n].inc
  <2> SUFFICES ASSUME NEW v \in Updates PROVE hand[v][n].inc < repl'[n].inc
    OBVIOUS
  <2>1. hand[v][n].inc \in Nat /\ HandlerRight(v, n)
    BY <1>t DEF GlobalsInv, HandType
  <2> QED
    BY <2>1, <1>2, <1>t DEF HandlerRight
<1>w. \A v \in Updates : ~Works(v, n)'
  <2> SUFFICES ASSUME NEW v \in Updates PROVE hand[v][n].inc # repl'[n].inc
    BY <1>0 DEF Works
  <2>1. hand[v][n].inc \in Nat
    BY <1>t DEF HandType
  <2> QED
    BY <2>1, <1>h, <1>2, <1>t
<1>3. JoinerNew'
  BY <1>0, <1>2, <1>h, <1>t DEF JoinerNew
<1>4. Settled' => Settled
  <2>1. Replaced'
    BY <1>2, <1>t DEF Replaced
  <2> QED
    BY <2>1, <1>0 DEF Settled, SameNames, NamesSet
<1>5. repl'[n].inc >= 1
  BY <1>2, <1>t
<1> QED
  BY <1>0, <1>2, <1>w, <1>3, <1>4, <1>5, NodeAgrees

\* The new replica joins, and waits for the last values.
LEMMA JoinAgrees ==
  ASSUME GlobalsInv, AgreeInv, Join
  PROVE  AgreeInv'
<1>0. /\ comp.pc = "created" /\ repl[comp.node].st = "ready" /\ sess' = sess \cup {comp.node}
      /\ comp' = [comp EXCEPT !.pc = "added"] /\ mixed' = (mixed \/ Active # {})
      /\ UNCHANGED <<kind, repl, last, upds, hand, wait>>
  BY DEF Join
<1>t. comp.node \in Nodes /\ sess \subseteq Nodes /\ comp'.pc = "added" /\ repl \in [Nodes -> ReplType]
      /\ hand \in [Updates -> [Nodes -> HandType]] /\ DOMAIN upds \subseteq Updates
  BY <1>0, TypesOf DEF GlobalsInv, GlobalsTypes
<1>j. /\ repl[comp.node].inc > 1 /\ repl[comp.node].digest = Initial
      /\ \A u \in Updates : ~Works(u, comp.node)
  <2>1. JoinerNew
    BY DEF AgreeInv
  <2>2. ASSUME NEW u \in Updates PROVE ~Works(u, comp.node)
    <3>1. hand[u][comp.node].inc < repl[comp.node].inc /\ hand[u][comp.node].inc \in Nat /\ repl[comp.node].inc \in Nat
      BY <2>1, <1>0, <1>t DEF JoinerNew, HandType, ReplType
    <3> QED
      BY <3>1 DEF Works
  <2> QED
    BY <2>1, <2>2, <1>0 DEF JoinerNew
<1>1. (\A m \in Nodes : repl[m].inc >= 1)' /\ (\A v \in DOMAIN upds : upds[v].patch # NoPatch)'
  BY <1>0 DEF AgreeInv
<1>2. JoinerNew'
  BY <1>t DEF JoinerNew
<1>a. Active' = Active /\ NamesSet' = NamesSet /\ (NoLoss' => NoLoss)
  BY <1>0 DEF Active, NamesSet, NoLoss, Failed
<1>3. ASSUME ~mixed', NoLoss' PROVE Reaches' /\ AtFirst' /\ Even' /\ \A v \in DOMAIN upds', m \in Nodes : Writes(v, m)'
  <2>0. Reaches /\ AtFirst /\ (\A v \in DOMAIN upds, m \in Nodes : Writes(v, m)) /\ Active = {}
    BY <1>3, <1>a, <1>0 DEF AgreeInv
  <2>1. Reaches'
    BY <2>0, <1>0, <1>a, <1>j, <1>t DEF Reaches, Works
  <2>2. AtFirst'
    BY <2>0, <1>0, <1>a, <1>j DEF AtFirst, Initial
  <2>3. Even'
    <3>1. Replaced'
      BY <1>0, <1>j, <1>t DEF Replaced
    <3> QED
      BY <3>1, <1>t DEF Even, Settled
  <2>4. ASSUME NEW v \in DOMAIN upds, NEW m \in Nodes PROVE Writes(v, m)'
    BY <2>0, <1>0, <1>a DEF Writes, Works
  <2> QED
    BY <2>1, <2>2, <2>3, <2>4, <1>0
<1> QED
  BY <1>1, <1>2, <1>3 DEF AgreeInv

\* The updates are numbered from 1 on.
LEMMA Numbered ==
  ASSUME GlobalsTypes
  PROVE  /\ Len(upds) \in Nat /\ DOMAIN upds = 1..Len(upds) /\ DOMAIN upds \subseteq Updates
         /\ sess \subseteq Nodes /\ (comp.pc = "created" => comp.node \in Nodes) /\ kind \in {"service", "pool"}
         /\ hand \in [Updates -> [Nodes -> HandType]] /\ repl \in [Nodes -> ReplType]
<1> DEFINE U == UpdType
<1>1. upds \in Seq(U) /\ Len(upds) <= MaxUpdates
  BY DEF GlobalsTypes
<1> HIDE DEF U
<1>2. Len(upds) \in Nat /\ DOMAIN upds = 1..Len(upds)
  BY <1>1
<1>3. DOMAIN upds \subseteq Updates
  BY <1>1, <1>2, ManagedGlobalsAssumption DEF Updates
<1>4. sess \subseteq Nodes /\ (comp.pc = "created" => comp.node \in Nodes) /\ kind \in {"service", "pool"}
  BY ManagedGlobalsAssumption DEF GlobalsTypes
<1>5. hand \in [Updates -> [Nodes -> HandType]] /\ repl \in [Nodes -> ReplType]
  BY DEF GlobalsTypes
<1> QED
  BY <1>2, <1>3, <1>4, <1>5

\* The end of an update: who is left in the session has its values.
LEMMA FinishAgrees ==
  ASSUME GlobalsInv, GlobalsInv', AgreeInv, NEW u \in DOMAIN upds, FinishUpdate(u)
  PROVE  AgreeInv'
<1> DEFINE l == IF upds[u].by = "replay" THEN "leave" ELSE "over"
<1>t. GlobalsTypes /\ sess \subseteq Nodes /\ (comp.pc = "created" => comp.node \in Nodes) /\ kind \in {"service", "pool"}
      /\ DOMAIN upds \subseteq Updates /\ DOMAIN upds[u].patch \subseteq GlobalNames
  <2>1. GlobalsTypes
    BY DEF GlobalsInv
  <2>2. DOMAIN upds[u].patch \subseteq GlobalNames
    BY <2>1, UpdateOf, PatchHas
  <2> QED
    BY <2>1, <2>2, Numbered
<1>0. /\ u \in Active /\ Ended(u) /\ upds' = [upds EXCEPT ![u].pc = l]
      /\ sess' = IF kind = "service" THEN sess \ Failed(u) ELSE sess
      /\ last' = IF Failed(u) = upds[u].to THEN last ELSE upds[u].patch
      /\ UNCHANGED <<kind, repl, hand, wait, comp, mixed>>
  BY DEF FinishUpdate, EndWith
<1>1. SameUpdates(upds') /\ upds'[u].pc = l /\ \A v \in DOMAIN upds : v # u => upds'[v] = upds[v]
  <2>1. l \in {"run", "leave", "over"}
    OBVIOUS
  <2>2. upds' = [upds EXCEPT ![u].pc = l] /\ GlobalsTypes
    BY <1>0, <1>t
  <2> HIDE DEF l
  <2> QED
    BY <2>1, <2>2, UpdateSet
<1>s. /\ DOMAIN upds' = DOMAIN upds /\ sess' \subseteq sess
      /\ \A v \in DOMAIN upds : upds'[v].patch = upds[v].patch /\ upds'[v].to = upds[v].to
  BY <1>0, <1>1 DEF SameUpdates
<1>n. NamesSet' = NamesSet /\ (NoLoss' => NoLoss) /\ (Settled' <=> Settled)
  BY <1>0, <1>s DEF NamesSet, NoLoss, Failed, Settled, SameNames, Replaced
<1>2. (\A m \in Nodes : repl[m].inc >= 1)' /\ (\A v \in DOMAIN upds : upds[v].patch # NoPatch)'
  BY <1>0, <1>s DEF AgreeInv
<1>3. JoinerNew'
  BY <1>0, <1>s, <1>t DEF AgreeInv, JoinerNew
<1>4. ASSUME ~mixed', NoLoss' PROVE Reaches' /\ AtFirst' /\ Even' /\ \A v \in DOMAIN upds', m \in Nodes : Writes(v, m)'
  <2>0. Reaches /\ AtFirst /\ Even /\ (\A v \in DOMAIN upds, m \in Nodes : Writes(v, m)) /\ Unmixed
    BY <1>4, <1>n, <1>0 DEF AgreeInv, GlobalsInv
  <2>a. Active' = {} /\ Active = {u}
    <3>1. \A v \in Active : v = u
      BY <2>0, <1>0 DEF Unmixed, InOrder
    <3>2. l # "run"
      OBVIOUS
    <3> QED
      BY <3>1, <3>2, <1>0, <1>1, <1>s DEF Active
  <2>r. \A m \in sess' : m \in sess /\ m \in Nodes /\ m \in upds[u].to /\ ~hand[u][m].lost /\ hand[u][m].pc = "over"
    <3> SUFFICES ASSUME NEW m \in sess'
                 PROVE  m \in sess /\ m \in Nodes /\ m \in upds[u].to /\ ~hand[u][m].lost /\ hand[u][m].pc = "over"
      OBVIOUS
    <3>1. m \in sess /\ m \in upds[u].to
      BY <2>0, <1>0, <1>s DEF Reaches
    <3>2. m \notin Failed(u)
      <4>1. kind = "pool" => Failed(u) = {}
        BY <1>4, <1>n DEF NoLoss
      <4> QED
        BY <4>1, <1>0, <1>t
    <3> QED
      BY <3>1, <3>2, <1>0, <1>t DEF Failed, Ended
  <2>h. \A m \in sess' : \A x \in DOMAIN upds[u].patch : repl[m].digest[x] = upds[u].patch[x]
    BY <2>0, <2>r, <1>0 DEF Writes
  <2>1. Reaches'
    BY <2>0, <2>a, <2>r, <1>0, <1>s DEF Reaches, Works
  <2>2. AtFirst'
    <3>1. last' = NoPatch => sess' = {}
      <4>1. upds[u].patch # NoPatch
        BY DEF AgreeInv
      <4>2. last' = NoPatch => Failed(u) = upds[u].to
        BY <4>1, <1>0
      <4> QED
        BY <4>2, <2>r DEF Failed
    <3>2. \A m \in sess' : \A x \in GlobalNames \ NamesSet : repl[m].digest[x] = 1
      BY <2>0, <1>s DEF AtFirst
    <3> QED
      BY <3>1, <3>2, <1>0, <1>n DEF AtFirst
  <2>3. Even'
    <3> SUFFICES ASSUME Settled, NEW x \in GlobalNames, NEW m \in sess', NEW n \in sess'
                 PROVE  repl[m].digest[x] = repl[n].digest[x]
      BY <1>0, <1>n DEF Even
    <3>1. CASE x \in DOMAIN upds[u].patch
      BY <3>1, <2>h
    <3>2. CASE x \notin DOMAIN upds[u].patch
      BY <3>2, <2>0, <2>a, <1>s DEF Even, Free
    <3> QED
      BY <3>1, <3>2
  <2>4. ASSUME NEW v \in DOMAIN upds, NEW m \in Nodes PROVE Writes(v, m)'
    BY <2>0, <2>a, <1>0, <1>s DEF Writes, Works
  <2> QED
    BY <2>1, <2>2, <2>3, <2>4, <1>s
<1> QED
  BY <1>2, <1>3, <1>4 DEF AgreeInv

\* A new update: the names it sets are not agreed on until it is over.
LEMMA LaunchAgrees ==
  ASSUME GlobalsInv, GlobalsInv', AgreeInv, NEW before, SameUpdates(before), NEW by, NEW patch, NEW plan,
         \A u \in DOMAIN upds : before[u].pc = upds[u].pc \/ (upds[u].pc # "run" /\ before[u].pc # "run"),
         Launch(before, by, patch, plan), UNCHANGED <<kind, repl, sess, last>>,
         comp'.pc # "created" \/ comp' = comp, patch # NoPatch
  PROVE  AgreeInv'
<1> DEFINE e == [pc |-> "run", by |-> by, patch |-> patch, plan |-> plan, to |-> sess]
           u == Len(upds) + 1
<1>t. GlobalsTypes /\ hand \in [Updates -> [Nodes -> HandType]] /\ repl \in [Nodes -> ReplType]
      /\ sess \subseteq Nodes /\ (comp.pc = "created" => comp.node \in Nodes) /\ DOMAIN upds \subseteq Updates
  <2>1. GlobalsTypes
    BY DEF GlobalsInv
  <2> QED
    BY <2>1, Numbered
<1>l. Len(upds) \in Nat /\ DOMAIN upds = 1..Len(upds) /\ MaxUpdates \in Nat
  <2> DEFINE U == UpdType
  <2>1. upds \in Seq(U)
    BY <1>t DEF GlobalsTypes
  <2> HIDE DEF U
  <2> QED
    BY <2>1, ManagedGlobalsAssumption
<1>0. /\ u <= MaxUpdates /\ upds' = Append(before, e) /\ (mixed => mixed') /\ (~mixed' => Active = {})
      /\ hand' = [hand EXCEPT ![u] = [n \in Nodes |-> FirstHandler(n)]]
  <2>1. Len(before) = Len(upds)
    BY DEF SameUpdates
  <2> QED
    BY <2>1 DEF Launch, FirstHandler
<1>u. u \in Updates /\ u \notin DOMAIN upds /\ u \in Nat
  BY <1>0, <1>l DEF Updates
<1>f. e.pc = "run" /\ e.patch = patch /\ e.to = sess
  OBVIOUS
<1>1. /\ DOMAIN upds' = DOMAIN upds \cup {u} /\ upds'[u] = e
      /\ \A v \in DOMAIN upds : upds'[v] = before[v]
  <2> DEFINE U == UpdType
  <2>1. before \in Seq(U) /\ Len(before) = Len(upds)
    BY DEF SameUpdates
  <2> HIDE DEF U, e
  <2>2. /\ Append(before, e)[u] = e
        /\ DOMAIN Append(before, e) = 1..u /\ \A v \in 1..Len(upds) : Append(before, e)[v] = before[v]
    BY <2>1, <1>l
  <2>3. 1..u = (1..Len(upds)) \cup {u}
    BY <1>l
  <2> QED
    BY <2>2, <2>3, <1>0, <1>l
<1> HIDE DEF e
<1>s. \A v \in DOMAIN upds : /\ upds'[v].patch = upds[v].patch /\ upds'[v].to = upds[v].to
                             /\ upds'[v].pc = "run" <=> upds[v].pc = "run"
  BY <1>1 DEF SameUpdates
<1>h. /\ \A n \in Nodes : hand'[u][n] = FirstHandler(n)
      /\ \A v \in DOMAIN upds, n \in Nodes : hand'[v][n] = hand[v][n]
      /\ \A v \in Updates, n \in Nodes : v # u => hand'[v][n] = hand[v][n]
  BY <1>0, <1>t, <1>u
<1>i. \A n \in Nodes : /\ FirstHandler(n).lost = FALSE
                       /\ n \in sess => FirstHandler(n).pc = "sent" /\ FirstHandler(n).inc = repl[n].inc
                       /\ n \notin sess => FirstHandler(n).pc = "none" /\ FirstHandler(n).inc = 0
  <2> SUFFICES ASSUME NEW n \in Nodes
               PROVE  /\ FirstHandler(n).lost = FALSE
                      /\ n \in sess => FirstHandler(n).pc = "sent" /\ FirstHandler(n).inc = repl[n].inc
                      /\ n \notin sess => FirstHandler(n).pc = "none" /\ FirstHandler(n).inc = 0
    OBVIOUS
  <2>1. GlobalsTypes
    BY <1>t
  <2> QED
    BY <2>1, FirstHandlerHas
<1>n. NamesSet' = NamesSet \cup DOMAIN patch
  BY <1>1, <1>s, <1>f DEF NamesSet
<1>o. NoLoss' => NoLoss
  BY <1>t, <1>1, <1>s, <1>h, LossStays
<1>2. (\A m \in Nodes : repl[m].inc >= 1)' /\ (\A v \in DOMAIN upds : upds[v].patch # NoPatch)'
  BY <1>1, <1>s, <1>f DEF AgreeInv
<1>3. JoinerNew'
  <2> SUFFICES ASSUME comp'.pc = "created"
               PROVE  /\ comp'.node \notin sess /\ repl[comp'.node].inc > 1
                      /\ \A v \in Updates : hand'[v][comp'.node].inc < repl[comp'.node].inc
                      /\ repl[comp'.node].st = "ready" => repl[comp'.node].digest = Initial
    BY DEF JoinerNew
  <2>1. comp' = comp /\ JoinerNew /\ comp.node \in Nodes /\ comp.node \notin sess /\ repl[comp.node].inc > 1
    BY <1>t DEF AgreeInv, JoinerNew
  <2>2. ASSUME NEW v \in Updates PROVE hand'[v][comp.node].inc < repl[comp.node].inc
    <3>1. CASE v = u
      <4>1. hand'[v][comp.node].inc = 0 /\ repl[comp.node].inc \in Nat
        BY <3>1, <2>1, <1>h, <1>i, <1>t DEF ReplType
      <4> QED
        BY <4>1, <2>1
    <3>2. CASE v # u
      BY <3>2, <2>1, <1>h DEF JoinerNew
    <3> QED
      BY <3>1, <3>2
  <2> QED
    BY <2>1, <2>2 DEF JoinerNew
<1>4. ASSUME ~mixed', NoLoss' PROVE Reaches' /\ AtFirst' /\ Even' /\ \A v \in DOMAIN upds', m \in Nodes : Writes(v, m)'
  <2>0. Reaches /\ AtFirst /\ Even /\ (\A v \in DOMAIN upds, m \in Nodes : Writes(v, m)) /\ Active = {}
    BY <1>4, <1>o, <1>0 DEF AgreeInv
  <2>a. Active' = {u}
    BY <2>0, <1>1, <1>s, <1>f DEF Active
  <2>1. Reaches'
    <3>1. upds'[u].to = sess /\ \A m \in sess : hand'[u][m].inc = repl[m].inc
      BY <1>1, <1>f, <1>h, <1>i, <1>t
    <3>2. ASSUME NEW v \in DOMAIN upds, NEW m \in sess, Works(v, m)' PROVE ~hand'[v][m].lost
      BY <3>2, <2>0, <1>h, <1>t DEF Reaches, Works
    <3> QED
      BY <3>1, <3>2, <2>a, <1>1 DEF Reaches
  <2>2. AtFirst'
    BY <2>0, <2>a, <1>n DEF AtFirst
  <2>3. Even'
    <3> SUFFICES ASSUME Settled', NEW x \in GlobalNames, x \notin DOMAIN patch, NEW m \in sess, NEW n \in sess
                 PROVE  repl[m].digest[x] = repl[n].digest[x]
      BY <2>a, <1>1, <1>f DEF Even, Free
    <3>1. CASE Replaced
      <4>1. SameNames'
        BY <3>1 DEF Settled, Replaced
      <4>2. NamesSet' = DOMAIN patch
        BY <4>1, <1>1, <1>f DEF SameNames
      <4> QED
        BY <4>2, <2>0, <1>n DEF AtFirst
    <3>2. CASE ~Replaced
      BY <3>2, <2>0 DEF Even, Free, Settled
    <3> QED
      BY <3>1, <3>2
  <2>4. ASSUME NEW v \in DOMAIN upds', NEW m \in Nodes PROVE Writes(v, m)'
    <3>1. CASE v = u
      BY <3>1, <1>h, <1>i DEF Writes
    <3>2. CASE v # u
      <4>1. v \in DOMAIN upds /\ hand'[v][m] = hand[v][m] /\ upds'[v].patch = upds[v].patch /\ v \notin Active'
        BY <3>2, <2>a, <1>1, <1>s, <1>h
      <4> QED
        BY <4>1, <2>0 DEF Writes, Works
    <3> QED
      BY <3>1, <3>2
  <2> QED
    BY <2>1, <2>2, <2>3, <2>4
<1> QED
  BY <1>2, <1>3, <1>4 DEF AgreeInv

\* The user's update sets a name at least.
LEMMA UserUpdateAgrees ==
  ASSUME GlobalsInv, GlobalsInv', AgreeInv, UserUpdate
  PROVE  AgreeInv'
<1>1. PICK P \in Patches : \E plan \in Cuts(P) : Launch(upds, "user", [x \in P |-> Len(upds) + 2], plan)
  BY DEF UserUpdate
<1>2. PICK plan \in Cuts(P) : Launch(upds, "user", [x \in P |-> Len(upds) + 2], plan)
  BY <1>1
<1> DEFINE patch == [x \in P |-> Len(upds) + 2]
<1>3. patch # NoPatch
  <2>1. P # {} /\ DOMAIN patch = P /\ DOMAIN NoPatch = {}
    BY ManagedGlobalsAssumption DEF NoPatch
  <2> QED
    BY <2>1
<1> HIDE DEF patch
<1>4. Launch(upds, "user", patch, plan)
  BY <1>2 DEF patch
<1>5. UNCHANGED <<kind, repl, sess, last, comp>>
  BY DEF UserUpdate
<1>6. SameUpdates(upds)
  BY AsTheyAre DEF GlobalsInv
<1> QED
  BY <1>3, <1>4, <1>5, <1>6, LaunchAgrees

\* The end of a replay.
LEMMA LeaveAgrees ==
  ASSUME GlobalsInv, GlobalsInv', AgreeInv, NEW u \in DOMAIN upds, Leave(u)
  PROVE  AgreeInv'
<1>t. GlobalsTypes /\ sess \subseteq Nodes /\ (comp.pc = "created" => comp.node \in Nodes) /\ DOMAIN upds \subseteq Updates
  <2>1. GlobalsTypes
    BY DEF GlobalsInv
  <2> QED
    BY <2>1, Numbered
<1>b. PICK before : before = [upds EXCEPT ![u].pc = "over"]
  OBVIOUS
<1>0. upds[u].pc = "leave" /\ wait' = NoPatch /\ UNCHANGED <<kind, repl, sess, last, comp>>
  BY DEF Leave
<1>1. /\ SameUpdates(before)
      /\ \A v \in DOMAIN upds : before[v].pc = upds[v].pc \/ (upds[v].pc # "run" /\ before[v].pc # "run")
  BY <1>b, <1>0, <1>t, UpdateSet
<1>2. CASE wait = NoPatch \/ sess = {}
  <2>1. upds' = before /\ UNCHANGED <<hand, mixed>>
    BY <1>2, <1>b DEF Leave
  <2>s. DOMAIN upds' = DOMAIN upds
        /\ \A v \in DOMAIN upds : /\ upds'[v].to = upds[v].to /\ upds'[v].patch = upds[v].patch
                                  /\ (upds'[v].pc = "run" <=> upds[v].pc = "run")
    BY <1>1, <2>1 DEF SameUpdates
  <2>a. Active' = Active /\ NamesSet' = NamesSet /\ (NoLoss' => NoLoss)
    BY <2>1, <2>s, <1>0 DEF Active, NamesSet, NoLoss, Failed
  <2>2. (\A m \in Nodes : repl[m].inc >= 1)' /\ (\A v \in DOMAIN upds : upds[v].patch # NoPatch)'
    BY <2>s, <1>0 DEF AgreeInv
  <2>3. JoinerNew'
    BY <2>1, <1>0 DEF AgreeInv, JoinerNew
  <2>4. ASSUME ~mixed', NoLoss' PROVE Reaches' /\ AtFirst' /\ Even' /\ \A v \in DOMAIN upds', m \in Nodes : Writes(v, m)'
    <3>0. Reaches /\ AtFirst /\ Even /\ (\A v \in DOMAIN upds, m \in Nodes : Writes(v, m))
      BY <2>4, <2>a, <2>1 DEF AgreeInv
    <3>1. Reaches'
      <4>1. \A v \in Active' : upds'[v].to = sess' /\ \A n \in sess' : hand'[v][n].inc = repl'[n].inc
        <5> SUFFICES ASSUME NEW v \in Active
                     PROVE  upds'[v].to = sess /\ \A n \in sess : hand[v][n].inc = repl[n].inc
          BY <2>a, <2>1, <1>0
        <5>1. v \in DOMAIN upds /\ upds[v].to = sess /\ \A n \in sess : hand[v][n].inc = repl[n].inc
          BY <3>0 DEF Reaches, Active
        <5> QED
          BY <5>1, <2>s
      <4>2. \A v \in DOMAIN upds' \ Active' : \A n \in sess' : Works(v, n)' => ~hand'[v][n].lost
        <5> SUFFICES ASSUME NEW v \in DOMAIN upds \ Active, NEW n \in sess, Works(v, n)' PROVE ~hand[v][n].lost
          BY <2>a, <2>s, <2>1, <1>0
        <5>1. Works(v, n)
          BY <2>s, <2>1, <1>0 DEF Works
        <5> QED
          BY <5>1, <3>0 DEF Reaches
      <4> QED
        BY <4>1, <4>2 DEF Reaches
    <3>2. AtFirst'
      BY <3>0, <2>a, <1>0 DEF AtFirst
    <3>3. Even'
      <4>1. CASE sess = {}
        BY <4>1, <1>0 DEF Even
      <4>2. CASE wait = NoPatch
        <5>1. Settled' => Settled
          BY <4>2, <2>a, <2>s, <1>0 DEF Settled, Replaced, SameNames
        <5>2. \A x \in GlobalNames : Free(x)' => Free(x)
          BY <2>a, <2>s DEF Free, Active
        <5> QED
          BY <5>1, <5>2, <3>0, <1>0 DEF Even
      <4> QED
        BY <4>1, <4>2, <1>2
    <3>4. ASSUME NEW v \in DOMAIN upds, NEW m \in Nodes PROVE Writes(v, m)'
      BY <3>0, <2>a, <2>s, <2>1, <1>0 DEF Writes, Works
    <3> QED
      BY <3>1, <3>2, <3>3, <3>4, <2>s
  <2> QED
    BY <2>2, <2>3, <2>4 DEF AgreeInv
<1>3. CASE ~(wait = NoPatch \/ sess = {})
  <2>1. Launch(before, "replay", wait, <<DOMAIN wait>>) /\ wait # NoPatch
    BY <1>3, <1>b DEF Leave
  <2> QED
    BY <2>1, <1>0, <1>1, LaunchAgrees
<1> QED
  BY <1>2, <1>3

\* The compensation replays the last values, or there are none.
LEMMA ReplayAgrees ==
  ASSUME GlobalsInv, GlobalsInv', AgreeInv, Replay
  PROVE  AgreeInv'
<1>t. GlobalsTypes /\ sess \subseteq Nodes
  BY DEF GlobalsInv, GlobalsTypes
<1>0. comp.pc = "added" /\ comp'.pc = "idle" /\ UNCHANGED <<kind, repl, sess, last>>
  BY <1>t DEF Replay, GlobalsTypes
<1> DEFINE busy == \E v \in DOMAIN upds : upds[v].by = "replay" /\ upds[v].pc # "over"
<1>1. CASE last # NoPatch /\ sess # {} /\ ~busy
  <2>1. Launch(upds, "replay", last, <<DOMAIN last>>)
    BY <1>1 DEF Replay, Submit
  <2>2. SameUpdates(upds)
    BY <1>t, AsTheyAre
  <2> QED
    BY <2>1, <2>2, <1>0, <1>1, LaunchAgrees
<1>2. CASE ~(last # NoPatch /\ sess # {} /\ ~busy)
  <2>1. /\ UNCHANGED <<upds, hand>> /\ (mixed => mixed')
        /\ wait' = last \/ last = NoPatch \/ sess = {}
    BY <1>2 DEF Replay, Submit
  <2>a. Active' = Active /\ NamesSet' = NamesSet /\ (NoLoss' => NoLoss)
    BY <2>1, <1>0 DEF Active, NamesSet, NoLoss, Failed
  <2>2. (\A m \in Nodes : repl[m].inc >= 1)' /\ (\A v \in DOMAIN upds : upds[v].patch # NoPatch)'
    BY <2>1, <1>0 DEF AgreeInv
  <2>3. JoinerNew'
    BY <1>0 DEF JoinerNew
  <2>4. ASSUME ~mixed', NoLoss' PROVE Reaches' /\ AtFirst' /\ Even' /\ \A v \in DOMAIN upds', m \in Nodes : Writes(v, m)'
    <3>0. Reaches /\ AtFirst /\ Even /\ (\A v \in DOMAIN upds, m \in Nodes : Writes(v, m))
      BY <2>4, <2>a, <2>1 DEF AgreeInv
    <3>1. Reaches'
      BY <3>0, <2>a, <2>1, <1>0 DEF Reaches, Works
    <3>2. AtFirst'
      BY <3>0, <2>a, <1>0 DEF AtFirst
    <3>3. Even'
      <4> SUFFICES ASSUME Settled', NEW x \in GlobalNames, Free(x)', NEW m \in sess, NEW n \in sess
                   PROVE  repl[m].digest[x] = repl[n].digest[x]
        BY <1>0 DEF Even
      <4>f. Free(x)
        BY <2>a, <2>1 DEF Free
      <4>1. CASE ~Replaced
        BY <4>1, <4>f, <3>0 DEF Even, Settled
      <4>2. CASE Replaced
        <5>1. SameNames' /\ wait' = NoPatch
          BY <4>2, <1>0 DEF Settled, Replaced
        <5>2. SameNames
          BY <5>1, <2>a, <2>1 DEF SameNames
        <5>3. last = NoPatch
          BY <5>1, <2>1
        <5>4. CASE Active = {}
          BY <5>3, <5>4, <3>0 DEF AtFirst
        <5>5. CASE Active # {}
          <6>1. PICK v \in DOMAIN upds : v \in Active
            BY <5>5 DEF Active
          <6>2. x \notin NamesSet
            BY <6>1, <5>2, <4>f DEF SameNames, Free
          <6> QED
            BY <6>2, <3>0 DEF AtFirst
        <5> QED
          BY <5>4, <5>5
      <4> QED
        BY <4>1, <4>2
    <3>4. ASSUME NEW v \in DOMAIN upds, NEW m \in Nodes PROVE Writes(v, m)'
      BY <3>0, <2>a, <2>1, <1>0 DEF Writes, Works
    <3> QED
      BY <3>1, <3>2, <3>3, <3>4, <2>1
  <2> QED
    BY <2>2, <2>3, <2>4 DEF AgreeInv
<1> QED
  BY <1>1, <1>2

\* At first the replicas have the initial globals.
LEMMA AgreeInitHolds == GlobalsInit => AgreeInv
<1> SUFFICES ASSUME GlobalsInit PROVE AgreeInv
  OBVIOUS
<1>1. \A n \in Nodes : repl[n].inc = 1 /\ repl[n].digest = Initial
  BY NewReplica DEF GlobalsInit
<1>2. upds = <<>> /\ DOMAIN upds = {} /\ Active = {} /\ comp.pc = "idle" /\ sess = Nodes
  BY DEF GlobalsInit, Active
<1>3. Reaches /\ AtFirst /\ Even
  BY <1>1, <1>2 DEF Reaches, AtFirst, Even, Initial
<1> QED
  BY <1>1, <1>2, <1>3 DEF AgreeInv, JoinerNew

\* Calls and workers have no part in it.
LEMMA CallAgrees ==
  ASSUME GlobalsInv, AgreeInv,
         \/ UNCHANGED globalsVars
         \/ \E c \in Calls : Submitted(c) \/ \E n \in Nodes : Call(c, n)
         \/ \E n \in Nodes : Run(n)
  PROVE  AgreeInv'
<1>t. repl \in [Nodes -> ReplType] /\ WorkerRight
  BY DEF GlobalsInv, GlobalsTypes
<1>1. UNCHANGED <<kind, sess, last, upds, hand, wait, comp, mixed>>
  BY DEF globalsVars, Submitted, Call, Run
<1>2. \A n \in Nodes : repl'[n].st = repl[n].st /\ repl'[n].inc = repl[n].inc /\ repl'[n].digest = repl[n].digest
  <2>1. CASE UNCHANGED repl
    BY <2>1
  <2>2. ASSUME NEW c \in Calls, Submitted(c)
        PROVE  \A n \in Nodes : repl'[n].st = repl[n].st /\ repl'[n].inc = repl[n].inc /\ repl'[n].digest = repl[n].digest
    <3>1. UNCHANGED repl \/ \E q : repl' = [repl EXCEPT ![calls[c].node].queue = q]
      BY <2>2 DEF Submitted
    <3>2. CASE UNCHANGED repl
      BY <3>2
    <3>3. CASE \E q : repl' = [repl EXCEPT ![calls[c].node].queue = q]
      BY <3>3, <1>t DEF ReplType
    <3> QED
      BY <3>1, <3>2, <3>3
  <2>3. ASSUME NEW n \in Nodes, Run(n)
        PROVE  \A m \in Nodes : repl'[m].st = repl[m].st /\ repl'[m].inc = repl[m].inc /\ repl'[m].digest = repl[m].digest
    <3> DEFINE w == Applied(repl[n], Head(repl[n].queue).snap)
    <3>1. repl' = [repl EXCEPT ![n] = [w EXCEPT !.queue = Tail(@)]]
      BY <2>3 DEF Run
    <3>2. w.st = repl[n].st /\ w.inc = repl[n].inc /\ w.digest = repl[n].digest
      BY <1>t DEF Applied, ReplType
    <3>3. PICK q : repl' = [repl EXCEPT ![n] = [w EXCEPT !.queue = q]]
      BY <3>1
    <3> HIDE DEF w
    <3> DEFINE r == [w EXCEPT !.queue = q]
    <3>4. r.st = w.st /\ r.inc = w.inc /\ r.digest = w.digest
      OBVIOUS
    <3>5. repl' = [repl EXCEPT ![n] = r]
      BY <3>3
    <3> HIDE DEF r
    <3> QED
      BY <3>2, <3>4, <3>5, <1>t
  <2>4. UNCHANGED repl \/ (\E c \in Calls : Submitted(c)) \/ \E n \in Nodes : Run(n)
    BY DEF globalsVars, Call
  <2> QED
    BY <2>1, <2>2, <2>3, <2>4
<1> QED
  BY <1>1, <1>2, AgreeSame

\* Every step keeps both invariants.
LEMMA AgreeStepHolds == GlobalsInv /\ AgreeInv /\ [GlobalsNext]_globalsVars => AgreeInv'
<1> SUFFICES ASSUME GlobalsInv, AgreeInv, [GlobalsNext]_globalsVars PROVE AgreeInv'
  OBVIOUS
<1>0. GlobalsInv'
  BY GlobalsStepHolds
<1>1. CASE UserUpdate \/ Join \/ Replay
  BY <1>0, <1>1, UserUpdateAgrees, JoinAgrees, ReplayAgrees
<1>2. CASE \E u \in DOMAIN upds : FinishUpdate(u) \/ Leave(u)
  BY <1>0, <1>2, FinishAgrees, LeaveAgrees
<1>3. CASE \E n \in Nodes : NodeStep(n)
  <2>1. PICK n \in Nodes : NodeStep(n)
    BY <1>3
  <2>2. CASE Lose(n) \/ Create(n) \/ InitialGlobals(n) \/ Run(n)
    BY <2>2, LoseAgrees, CreateAgrees, InitialGlobalsAgrees, CallAgrees
  <2>3. CASE \E u \in DOMAIN upds : GiveUp(u, n) \/ Load(u, n) \/ Write(u, n) \/ Commit(u, n) \/ Answer(u, n)
    BY <1>0, <2>3, GiveUpAgrees, LoadAgrees, WriteAgrees, CommitAgrees, AnswerAgrees
  <2> QED
    BY <2>1, <2>2, <2>3 DEF NodeStep
<1>4. CASE \E c \in Calls : Submitted(c) \/ \E n \in Nodes : Call(c, n)
  BY <1>4, CallAgrees
<1>5. CASE UNCHANGED globalsVars
  BY <1>5, CallAgrees
<1> QED
  BY <1>1, <1>2, <1>3, <1>4, <1>5 DEF GlobalsNext

\* An owner whose updates have come to rest has left only replicas with the same
\* values, as long as none met another or a change of the replicas.
\* (update_globals, _submit_async_update_globals, execution/service_session.py)
THEOREM ReplicasSettle == GlobalsSpec => []ReplicasAgree
<1>1. GlobalsInv /\ AgreeInv => ReplicasAgree
  <2> SUFFICES ASSUME GlobalsInv, AgreeInv, Quiet, ~mixed,
                      \A u \in DOMAIN upds : kind = "pool" => Failed(u) = {},
                      (\E n \in Nodes : repl[n].inc > 1) => \A u \in DOMAIN upds : DOMAIN upds[u].patch = DOMAIN last,
                      NEW m \in sess, NEW n \in sess
               PROVE  repl[m].digest = repl[n].digest
    BY DEF ReplicasAgree
  <2>1. NoLoss
    BY DEF NoLoss
  <2>2. Settled
    <3>1. Replaced => SameNames
      BY DEF Replaced, SameNames, NamesSet
    <3> QED
      BY <3>1 DEF Settled, Quiet
  <2>3. \A x \in GlobalNames : repl[m].digest[x] = repl[n].digest[x]
    BY <2>1, <2>2 DEF AgreeInv, Even, Free, Quiet
  <2>4. repl[m].digest \in Values /\ repl[n].digest \in Values
    BY DEF GlobalsInv, GlobalsTypes, ReplType
  <2> QED
    BY <2>3, <2>4 DEF Values
<1> QED
  BY <1>1, GlobalsInitHolds, GlobalsStepHolds, AgreeInitHolds, AgreeStepHolds, PTL DEF GlobalsSpec
=============================================================================
