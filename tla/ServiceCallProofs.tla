-------------------------- MODULE ServiceCallProofs --------------------------
(***************************************************************************)
(* Proofs about ServiceCall for every value of its constants: the counts   *)
(* of calls, what a call leaves behind in the client of the host, which    *)
(* runs the host tracks, and what the consumer of a stream receives.       *)
(***************************************************************************)
EXTENDS ServiceCall, Integers, SequencesExt, FiniteSetTheorems, WellFoundedInduction, TLAPS

-----------------------------------------------------------------------------
(* FlattenSeq and SetToSeq, by induction on a number.  The theorem that the
   order of Nat is well-founded is used in its form about sets, so that no
   operator has to be passed to a lemma. *)

\* Every nonempty set of natural numbers has a least element: the well-foundedness
\* of < in the form the other lemmas use.
LEMMA LeastNumber ==
  ASSUME NEW T, T \subseteq Nat, T # {}
  PROVE  \E x \in T : \A y \in T : x <= y
<1> DEFINE R == {p \in Nat \X Nat : p[1] < p[2]}
<1>1. IsWellFoundedOn(R, Nat)
  BY NatLessThanWellFounded, Zenon DEF OpToRel
<1>2. PICK x \in T : \A y \in T : <<y, x>> \notin R
  BY <1>1, WFMin, Zenon
<1>3. \A y \in T : ~(y < x)
  BY <1>2
<1> QED
  BY <1>3

\* Induction, about a set of numbers instead of a predicate.
LEMMA Induction ==
  ASSUME NEW S, 0 \in S, \A n \in Nat : n \in S => n + 1 \in S
  PROVE  \A n \in Nat : n \in S
<1> SUFFICES ASSUME Nat \ S # {} PROVE FALSE
  OBVIOUS
<1>1. PICK x \in Nat \ S : \A y \in Nat \ S : x <= y
  BY LeastNumber, Zenon
<1>2. x # 0 /\ x - 1 \in Nat /\ x - 1 \in S
  BY <1>1
<1>3. (x - 1) + 1 \in S
  BY <1>2
<1> QED
  BY <1>1, <1>3

\* What is in s \o t, and where.
LEMMA Concat ==
  ASSUME NEW E, NEW s \in Seq(E), NEW t \in Seq(E)
  PROVE  /\ s \o t \in Seq(E)
         /\ DOMAIN s = 1..Len(s) /\ DOMAIN t = 1..Len(t) /\ Len(s) \in Nat /\ Len(t) \in Nat
         /\ DOMAIN (s \o t) = 1..(Len(s) + Len(t)) /\ Len(s \o t) = Len(s) + Len(t)
         /\ \A k \in 1..Len(s) : (s \o t)[k] = s[k]
         /\ \A k \in 1..Len(t) : (s \o t)[Len(s) + k] = t[k]
OBVIOUS

\* FlattenSeq is the last of the partial concatenations its recursive function
\* goes through.
LEMMA FlattenUnfolds ==
  ASSUME NEW E, NEW seqs \in Seq(Seq(E)), seqs # <<>>
  PROVE  \E g \in [1..Len(seqs) -> Seq(E)] :
            /\ FlattenSeq(seqs) = g[Len(seqs)]
            /\ g[1] = seqs[1]
            /\ \A i \in 2..Len(seqs) : g[i] = g[i - 1] \o seqs[i]
<1> DEFINE Def(h, m) == [i \in 1..m |-> IF i = 1 THEN seqs[i] ELSE h[i - 1] \o seqs[i]]
           Solves(m) == \E h \in [1..m -> Seq(E)] : h = Def(h, m)
           S == {m \in Nat : m <= Len(seqs) => Solves(m)}
<1> HIDE DEF Solves
<1>1. 0 \in S
  <2> DEFINE h == [i \in 1..0 |-> seqs[i]]
  <2>1. 1..0 = {}
    OBVIOUS
  <2>2. h \in [1..0 -> Seq(E)] /\ h = Def(h, 0)
    BY <2>1
  <2>3. Solves(0)
    BY <2>2, Zenon DEF Solves
  <2> QED
    BY <2>3
<1>2. ASSUME NEW m \in Nat, m \in S
      PROVE  m + 1 \in S
  <2>1. SUFFICES ASSUME m + 1 <= Len(seqs)
                 PROVE  Solves(m + 1)
    OBVIOUS
  <2>2. Solves(m)
    BY <1>2, <2>1
  <2>3. PICK h \in [1..m -> Seq(E)] : h = Def(h, m)
    BY <2>2, Zenon DEF Solves
  <2> DEFINE last == IF m = 0 THEN seqs[1] ELSE h[m] \o seqs[m + 1]
             k == [i \in 1..(m + 1) |-> IF i <= m THEN h[i] ELSE last]
  <2>4. last \in Seq(E)
    <3>1. seqs[m + 1] \in Seq(E)
      BY <2>1
    <3>2. CASE m = 0
      BY <3>1, <3>2
    <3>3. CASE m # 0
      BY <3>1, <3>3, h[m] \in Seq(E)
    <3> QED
      BY <3>2, <3>3
  <2> HIDE DEF last
  <2>5. k \in [1..(m + 1) -> Seq(E)]
    BY <2>4
  <2>6. ASSUME NEW i \in 1..(m + 1)
        PROVE  k[i] = IF i = 1 THEN seqs[i] ELSE k[i - 1] \o seqs[i]
    <3>1. CASE i <= m
      <4>1. i \in 1..m /\ k[i] = h[i] /\ (i # 1 => k[i - 1] = h[i - 1])
        BY <3>1
      <4>2. h[i] = IF i = 1 THEN seqs[i] ELSE h[i - 1] \o seqs[i]
        BY <2>3, <4>1
      <4> QED
        BY <4>1, <4>2
    <3>2. CASE i = m + 1
      BY <3>2 DEF last
    <3> QED
      BY <3>1, <3>2
  <2>7. k = Def(k, m + 1)
    BY <2>6
  <2> QED
    BY <2>5, <2>7, Zenon DEF Solves
<1>3. Solves(Len(seqs))
  <2>1. \A m \in Nat : m \in S
    <3> HIDE DEF S
    <3> QED
      BY <1>1, <1>2, Induction
  <2>2. Len(seqs) \in S
    BY <2>1
  <2> QED
    BY <2>2
<1>4. PICK h \in [1..Len(seqs) -> Seq(E)] : h = Def(h, Len(seqs))
  BY <1>3, Zenon DEF Solves
<1> DEFINE g == CHOOSE f : f = Def(f, Len(seqs))
<1>5. g = Def(g, Len(seqs))
  BY <1>4, Zenon
<1>6. FlattenSeq(seqs) = g[Len(seqs)]
  <2>1. Len(seqs) # 0
    OBVIOUS
  <2> QED
    BY <2>1, Zenon DEF FlattenSeq
<1> HIDE DEF g
<1> HIDE DEF Solves
<1>11. Len(seqs) \in Nat /\ 1 <= Len(seqs)
  OBVIOUS
<1>8. /\ DOMAIN g = 1..Len(seqs)
      /\ \A i \in 1..Len(seqs) : g[i] = IF i = 1 THEN seqs[i] ELSE g[i - 1] \o seqs[i]
  BY <1>5
<1>9. \A i \in 1..Len(seqs) : seqs[i] \in Seq(E)
  OBVIOUS
<1>10. g[1] = seqs[1] /\ \A i \in 2..Len(seqs) : g[i] = g[i - 1] \o seqs[i]
  <2>1. 1 \in 1..Len(seqs)
    BY <1>11
  <2>2. g[1] = IF 1 = 1 THEN seqs[1] ELSE g[1 - 1] \o seqs[1]
    BY <1>8, <2>1, Zenon
  <2>3. ASSUME NEW i \in 2..Len(seqs)
        PROVE  g[i] = g[i - 1] \o seqs[i]
    <3>1. i \in 1..Len(seqs) /\ i # 1
      BY <1>11
    <3> QED
      BY <1>8, <3>1, Zenon
  <2> QED
    BY <2>2, <2>3
<1>7. g \in [1..Len(seqs) -> Seq(E)]
  <2> DEFINE T == {m \in Nat : m + 1 <= Len(seqs) => g[m + 1] \in Seq(E)}
  <2>1. 0 \in T
    <3>1. g[1] \in Seq(E)
      BY <1>9, <1>10, <1>11
    <3> QED
      BY <3>1
  <2>2. ASSUME NEW m \in Nat, m \in T
        PROVE  m + 1 \in T
    <3>1. SUFFICES ASSUME m + 2 <= Len(seqs)
                   PROVE  g[m + 2] \in Seq(E)
      OBVIOUS
    <3>2. g[m + 2] = g[m + 1] \o seqs[m + 2] /\ g[m + 1] \in Seq(E) /\ seqs[m + 2] \in Seq(E)
      <4>1. m + 2 \in 1..Len(seqs) /\ m + 2 # 1 /\ (m + 2) - 1 = m + 1
        BY <3>1
      <4>2. g[m + 1] \in Seq(E)
        BY <2>2, <3>1
      <4> QED
        BY <1>9, <1>10, <4>1, <4>2, m + 2 \in 2..Len(seqs)
    <3> QED
      BY <3>2
  <2>3. \A m \in Nat : m \in T
    <3> HIDE DEF T
    <3> QED
      BY <2>1, <2>2, Induction
  <2>4. ASSUME NEW i \in 1..Len(seqs)
        PROVE  g[i] \in Seq(E)
    <3>1. i - 1 \in Nat /\ (i - 1) + 1 = i /\ i <= Len(seqs)
      OBVIOUS
    <3>2. i - 1 \in T
      BY <2>3, <3>1
    <3> QED
      BY <3>1, <3>2
  <2> QED
    BY <1>8, <2>4, <1>5
<1> QED
  BY <1>6, <1>7, <1>10

\* F consists of the first m sequences of seqs, each in one piece.
Blocks(F, seqs, off, m) ==
  /\ \A i \in 1..m : \A j \in 1..Len(seqs[i]) : /\ off[i] + j \in DOMAIN F
                                                /\ F[off[i] + j] = seqs[i][j]
  /\ \A x \in DOMAIN F : \E i \in 1..m : x - off[i] \in 1..Len(seqs[i])

\* One more part at the end.
LEMMA BlocksAdd ==
  ASSUME NEW E, NEW seqs \in Seq(Seq(E)), NEW m \in Nat, m + 1 <= Len(seqs),
         NEW F \in Seq(E), NEW off \in [1..m -> Nat], Blocks(F, seqs, off, m)
  PROVE  \E new \in [1..(m + 1) -> Nat] : Blocks(F \o seqs[m + 1], seqs, new, m + 1)
<1>1. seqs[m + 1] \in Seq(E)
  OBVIOUS
<1> DEFINE t == seqs[m + 1]
           G == F \o t
           new == [i \in 1..(m + 1) |-> IF i <= m THEN off[i] ELSE Len(F)]
<1>2. /\ DOMAIN F = 1..Len(F) /\ Len(F) \in Nat /\ Len(t) \in Nat
      /\ DOMAIN G = 1..(Len(F) + Len(t))
      /\ \A k \in 1..Len(F) : G[k] = F[k]
      /\ \A k \in 1..Len(t) : G[Len(F) + k] = t[k]
  BY <1>1, Concat
<1>3. new \in [1..(m + 1) -> Nat]
  OBVIOUS
<1>4. (\A i \in 1..m : new[i] = off[i]) /\ new[m + 1] = Len(F)
  OBVIOUS
<1>5. t = seqs[m + 1]
  OBVIOUS
<1>9. \A i \in 1..(m + 1) : Len(seqs[i]) \in Nat
  <2>1. \A i \in 1..(m + 1) : seqs[i] \in Seq(E)
    OBVIOUS
  <2> QED
    BY <2>1
<1> HIDE DEF G, new, t
<1>6. ASSUME NEW i \in 1..(m + 1), NEW j \in 1..Len(seqs[i])
      PROVE  new[i] + j \in DOMAIN G /\ G[new[i] + j] = seqs[i][j]
  <2>1. CASE i \in 1..m
    <3>1. off[i] + j \in DOMAIN F /\ F[off[i] + j] = seqs[i][j]
      BY <2>1 DEF Blocks
    <3>2. off[i] + j \in 1..Len(F) /\ G[off[i] + j] = seqs[i][j]
      BY <1>2, <3>1
    <3>3. off[i] + j \in DOMAIN G
      BY <1>2, <3>2
    <3>4. new[i] = off[i]
      BY <1>4, <2>1
    <3> QED
      BY <3>2, <3>3, <3>4
  <2>2. CASE i = m + 1
    <3>1. j \in 1..Len(t) /\ seqs[i][j] = t[j] /\ new[i] = Len(F)
      BY <1>4, <1>5, <2>2
    <3>2. G[Len(F) + j] = t[j]
      BY <1>2, <3>1
    <3>3. Len(F) + j \in DOMAIN G
      BY <1>2, <3>1
    <3> QED
      BY <3>1, <3>2, <3>3
  <2> QED
    BY <2>1, <2>2
<1>7. ASSUME NEW x \in DOMAIN G
      PROVE  \E i \in 1..(m + 1) : x - new[i] \in 1..Len(seqs[i])
  <2>1. CASE x \in DOMAIN F
    <3>1. PICK i \in 1..m : x - off[i] \in 1..Len(seqs[i])
      BY <2>1 DEF Blocks
    <3>2. i \in 1..(m + 1) /\ new[i] = off[i]
      BY <1>4
    <3> QED
      BY <3>1, <3>2
  <2>2. CASE x \notin DOMAIN F
    <3>1. x - Len(F) \in 1..Len(t)
      BY <1>2, <2>2
    <3>2. m + 1 \in 1..(m + 1)
      OBVIOUS
    <3> QED
      BY <1>4, <1>5, <3>1, <3>2
  <2> QED
    BY <2>1, <2>2
<1>8. Blocks(G, seqs, new, m + 1)
  BY <1>6, <1>7 DEF Blocks
<1> QED
  BY <1>3, <1>8, Zenon DEF G, t

\* FlattenSeq keeps the parts, and has nothing else in it.
LEMMA FlattenBlocks ==
  ASSUME NEW E, NEW seqs \in Seq(Seq(E))
  PROVE  /\ FlattenSeq(seqs) \in Seq(E)
         /\ \E off \in [1..Len(seqs) -> Nat] : Blocks(FlattenSeq(seqs), seqs, off, Len(seqs))
<1>0. <<>> \in Seq(E) /\ \E off \in [1..0 -> Nat] : Blocks(<<>>, seqs, off, 0)
  <2>1. Blocks(<<>>, seqs, [i \in 1..0 |-> 0], 0)
    <3>1. 1..0 = {} /\ DOMAIN <<>> = {}
      OBVIOUS
    <3> QED
      BY <3>1, Zenon DEF Blocks
  <2>2. [i \in 1..0 |-> 0] \in [1..0 -> Nat]
    OBVIOUS
  <2>3. <<>> \in Seq(E)
    OBVIOUS
  <2> QED
    BY <2>1, <2>2, <2>3, Zenon
<1>1. CASE seqs = <<>>
  <2>1. FlattenSeq(seqs) = <<>> /\ Len(seqs) = 0
    <3>1. Len(seqs) = 0
      BY <1>1
    <3> QED
      BY <1>1, <3>1, Zenon DEF FlattenSeq
  <2> QED
    BY <1>0, <2>1, Zenon
<1>2. CASE seqs # <<>>
  <2>1. PICK g \in [1..Len(seqs) -> Seq(E)] :
            /\ FlattenSeq(seqs) = g[Len(seqs)]
            /\ g[1] = seqs[1]
            /\ \A i \in 2..Len(seqs) : g[i] = g[i - 1] \o seqs[i]
    BY <1>2, FlattenUnfolds
  <2>2. \A i \in 1..Len(seqs) : seqs[i] \in Seq(E) /\ g[i] \in Seq(E)
    <3>1. \A i \in 1..Len(seqs) : seqs[i] \in Seq(E)
      OBVIOUS
    <3>2. \A i \in 1..Len(seqs) : g[i] \in Seq(E)
      OBVIOUS
    <3> QED
      BY <3>1, <3>2
  <2>3. Len(seqs) \in Nat /\ 1 <= Len(seqs)
    BY <1>2
  <2> DEFINE Split(m) == \E off \in [1..m -> Nat] : Blocks(g[m], seqs, off, m)
             S == {m \in Nat : m + 1 <= Len(seqs) => Split(m + 1)}
  <2> HIDE DEF Split
  <2>4. 0 \in S
    <3>1. \E new \in [1..(0 + 1) -> Nat] : Blocks(<<>> \o seqs[0 + 1], seqs, new, 0 + 1)
      <4>1. PICK off \in [1..0 -> Nat] : Blocks(<<>>, seqs, off, 0)
        BY <1>0, Zenon
      <4>2. 0 \in Nat /\ 0 + 1 <= Len(seqs) /\ <<>> \in Seq(E)
        BY <2>3
      <4> QED
        BY <4>1, <4>2, BlocksAdd, Zenon
    <3>2. <<>> \o seqs[0 + 1] = g[0 + 1]
      BY <2>1, <2>2, <2>3
    <3>3. Split(0 + 1)
      BY <3>1, <3>2, Zenon DEF Split
    <3> QED
      BY <3>3
  <2>5. ASSUME NEW m \in Nat, m \in S
        PROVE  m + 1 \in S
    <3>1. SUFFICES ASSUME (m + 1) + 1 <= Len(seqs)
                   PROVE  Split((m + 1) + 1)
      OBVIOUS
    <3>2. Split(m + 1)
      BY <2>5, <3>1
    <3>3. PICK off \in [1..(m + 1) -> Nat] : Blocks(g[m + 1], seqs, off, m + 1)
      BY <3>2, Zenon DEF Split
    <3>4. m + 1 \in Nat /\ g[m + 1] \in Seq(E)
      BY <2>2, <2>3, <3>1
    <3>5. \E new \in [1..((m + 1) + 1) -> Nat] :
             Blocks(g[m + 1] \o seqs[(m + 1) + 1], seqs, new, (m + 1) + 1)
      BY <3>1, <3>3, <3>4, BlocksAdd, Zenon
    <3>6. g[m + 1] \o seqs[(m + 1) + 1] = g[(m + 1) + 1]
      <4>1. (m + 1) + 1 \in 2..Len(seqs) /\ ((m + 1) + 1) - 1 = m + 1
        BY <3>1
      <4> QED
        BY <2>1, <4>1
    <3> QED
      BY <3>5, <3>6, Zenon DEF Split
  <2>6. \A m \in Nat : m \in S
    <3> HIDE DEF S
    <3> QED
      BY <2>4, <2>5, Induction
  <2>7. Split(Len(seqs))
    <3>1. Len(seqs) - 1 \in Nat /\ (Len(seqs) - 1) + 1 = Len(seqs)
      BY <2>3
    <3>2. Len(seqs) - 1 \in S
      BY <2>6, <3>1
    <3> QED
      BY <3>1, <3>2
  <2>8. g[Len(seqs)] \in Seq(E)
    BY <2>2, <2>3
  <2> QED
    BY <2>1, <2>7, <2>8, Zenon DEF Split
<1> QED
  BY <1>1, <1>2

\* SetToSeq lists the elements of a finite set, each once.
LEMMA Listing ==
  ASSUME NEW S, IsFiniteSet(S)
  PROVE  /\ SetToSeq(S) \in Seq(S)
         /\ \A i \in DOMAIN SetToSeq(S), j \in DOMAIN SetToSeq(S) :
              SetToSeq(S)[i] = SetToSeq(S)[j] => i = j
         /\ \A x \in S : \E i \in DOMAIN SetToSeq(S) : SetToSeq(S)[i] = x
<1> DEFINE f == SetToSeq(S)
           n == Cardinality(S)
<1>1. n \in Nat /\ ExistsBijection(1..n, S)
  BY FS_CardinalityType
<1>2. f \in [1..n -> S] /\ IsInjective(f)
  BY <1>1, Zenon DEF SetToSeq, ExistsBijection, Bijection, Injection
<1>3. f \in Injection(1..n, S)
  BY <1>2 DEF Injection
<1>4. IsFiniteSet(1..n) /\ Cardinality(1..n) = n
  BY <1>1, FS_Interval
<1>5. f \in Surjection(1..n, S)
  BY <1>3, <1>4, FS_Injection, Zenon
<1>6. f \in Seq(S) /\ DOMAIN f = 1..n
  BY <1>1, <1>2
<1>7. \A x \in S : \E i \in 1..n : f[i] = x
  BY <1>5 DEF Surjection
<1>8. \A i \in DOMAIN f, j \in DOMAIN f : f[i] = f[j] => i = j
  BY <1>2 DEF IsInjective
<1> QED
  BY <1>6, <1>7, <1>8

-----------------------------------------------------------------------------
(* The inductive invariant. *)

Events == [call : Calls, item : 0..Items, status : Finished \cup Errors \cup {"none"}]
Steps == {"idle", "sending", "waiting", "finish", "answered", "gone"}
Over == {"finish", "answered", "gone"}
Sequences1 == Seq(1..Items)

\* The values of the variables: TypeOK without the bounds on the counters.
TypeNode ==
  /\ session \in {"running", "stopped", "forgotten"}
  /\ received \in Nat /\ returned \in Nat
  /\ pc \in [Calls -> Steps]
  /\ outcome \in [Calls -> Finished \cup Errors \cup {"none", "refused"}]
  /\ got \in [Calls -> Sequences1]
  /\ client \in {"open", "none"} /\ host \in {"up", "down"}
  /\ step \in {"request", "streams", "completed"}
TypeLink ==
  /\ reqq \in Seq(Calls \cup {"stop"}) /\ evq \in Seq(Events)
  /\ response \in [Calls -> Finished \cup Errors \cup {"none"}]
  /\ buffer \in [Calls -> Sequences1] /\ skip \subseteq Calls
TypeCore ==
  /\ inflight \subseteq Calls /\ IsFiniteSet(inflight)
  /\ retries \in [Calls -> 0..1]
  /\ fut \in [Calls -> Finished \cup {"none", "queued", "running", "broken", "cancelled"}]
  /\ next \in [Calls -> 1..Items + 1]
  /\ sq \in [Calls -> Sequences1]
  /\ \A c \in Calls : Len(sq[c]) <= QueueMax
Types == TypeNode /\ TypeLink /\ TypeCore

\* Nothing of a call is on its way: it is not asked for, the host does not have
\* it, and the client has read all the host said of it.
Queued(c) == \E k \in DOMAIN reqq : reqq[k] = c
Told(c) == \E k \in DOMAIN evq : evq[k].call = c
Done(c) == ~Queued(c) /\ c \notin inflight /\ ~Told(c)

\* A call is asked for once, and its answer is the last the host says of it.
AskedOnce ==
  \A k \in DOMAIN reqq : reqq[k] # "stop" =>
    /\ \A l \in DOMAIN reqq : l # k => reqq[l] # reqq[k]
    /\ reqq[k] \notin inflight /\ ~Told(reqq[k])
    /\ got[reqq[k]] = <<>> /\ buffer[reqq[k]] = <<>>
AnswerLast ==
  \A k \in DOMAIN evq : evq[k].item = 0 =>
    /\ evq[k].call \notin inflight
    /\ \A l \in DOMAIN evq : l > k => evq[l].call # evq[k].call
Untouched ==
  \A c \in Calls : pc[c] \in {"idle", "sending"} =>
    /\ Done(c) /\ c \notin skip
    /\ response[c] = "none" /\ buffer[c] = <<>> /\ got[c] = <<>>
Protocol == AskedOnce /\ AnswerLast /\ Untouched

\* The host has a future, items and a place in a stream of calls in flight only.
Tracked ==
  /\ \A c \in Calls \ inflight : sq[c] = <<>> /\ next[c] = 1 /\ fut[c] = "none"
  /\ host = "down" => inflight = {} /\ reqq = <<>>

\* Who waits has no answer before it is the last to come, and of a call whose
\* wait is over the client keeps nothing and drops what is still to come.
Waits ==
  \A c \in Calls : pc[c] = "waiting" /\ response[c] # "none" => Done(c) \/ c \in skip
Leaves ==
  \A c \in Calls : pc[c] \in Over /\ (host = "up" \/ c \in Streams) =>
    /\ response[c] = "none" /\ buffer[c] = <<>>
    /\ Done(c) \/ c \in skip

\* The next item follows the last one, or starts again after a retry (a is the
\* number of them).
Follows(a, i, p) == i = p + 1 \/ (i = 1 /\ a > 0)
Received(c) == got[c] \o buffer[c]
LastOf(s, p) == IF s = <<>> THEN p ELSE s[Len(s)]
Before(s, k, p) == IF k = 1 THEN p ELSE s[k - 1]
Chained(a, s, p) == \A k \in DOMAIN s : Follows(a, s[k], Before(s, k, p))
InOrder == \A c \in Streams : Chained(retries[c], Received(c), 0)

\* The item of a call that comes before place k of the events: r is the last
\* one the client has read.
IsItem(c, e) == e.call = c /\ e.item > 0
NoItem(q, c, a, b) == \A l \in DOMAIN q : a < l /\ l < b => ~IsItem(c, q[l])
Preceded(q, r, c, k, p) ==
  \/ p = r /\ NoItem(q, c, 0, k)
  \/ \E l \in DOMAIN q : /\ l < k /\ IsItem(c, q[l]) /\ q[l].item = p
                         /\ NoItem(q, c, l, k)

\* What is under way to a consumer continues what it has, without a gap: the
\* items among the events, the good end of the stream, and what is in the host.
PipeItems(a, q, r, c) ==
  \A k \in DOMAIN q : IsItem(c, q[k]) =>
    \E p \in 0..Items : Preceded(q, r, c, k, p) /\ Follows(a, q[k].item, p)
PipeAnswers(q, r, c) ==
  \A k \in DOMAIN q : q[k] = Answer(c, "SUCCEEDED") => Preceded(q, r, c, k, Items)
PipeEnd(a, q, r, c, s, n) ==
  \E p \in 0..Items : /\ Preceded(q, r, c, Len(q) + 1, p)
                      /\ Chained(a, s, p) /\ Follows(a, n, LastOf(s, p))
Linked(c) ==
  /\ PipeItems(retries[c], evq, LastOf(Received(c), 0), c)
  /\ PipeAnswers(evq, LastOf(Received(c), 0), c)
  /\ c \in inflight =>
       PipeEnd(retries[c], evq, LastOf(Received(c), 0), c, sq[c], next[c])
  /\ fut[c] = "SUCCEEDED" => next[c] = Items + 1
Links == \A c \in Streams : pc[c] = "waiting" /\ c \notin skip => Linked(c)
Ends ==
  \A c \in Streams :
    /\ pc[c] = "waiting" /\ response[c] = "SUCCEEDED" => LastOf(Received(c), 0) = Items
    /\ outcome[c] = "SUCCEEDED" => pc[c] \in Over /\ LastOf(got[c], 0) = Items
StreamInv == InOrder /\ Links /\ Ends

-----------------------------------------------------------------------------
(* Types *)

\* Places in a part of a sequence.
LEMMA Offset ==
  ASSUME NEW k \in Nat, NEW n \in Nat, NEW o \in Nat, NEW l \in Nat, k - n \in (o + 1)..(o + l)
  PROVE  k - n - o \in 1..l /\ n + o + (k - n - o) = k
OBVIOUS

\* The place before one.
LEMMA OneBefore ==
  ASSUME NEW l \in Int, NEW j \in 1..l, NEW m \in Nat, j # 1
  PROVE  j - 1 \in 1..l /\ m + (j - 1) = (m + j) - 1 /\ m + j # 1
OBVIOUS

\* The first element of a sequence, and the others.
LEMMA HeadAndTail ==
  ASSUME NEW E, NEW s \in Seq(E), s # <<>>
  PROVE  /\ Len(s) \in Nat /\ 1 <= Len(s) /\ DOMAIN s = 1..Len(s)
         /\ Head(s) = s[1] /\ Head(s) \in E
         /\ Tail(s) \in Seq(E) /\ Len(Tail(s)) = Len(s) - 1
         /\ DOMAIN Tail(s) = 1..(Len(s) - 1)
         /\ \A k \in 1..(Len(s) - 1) : Tail(s)[k] = s[k + 1]
OBVIOUS

\* An element more at the end.
LEMMA OneMore ==
  ASSUME NEW E, NEW s \in Seq(E), NEW e \in E
  PROVE  /\ Append(s, e) \in Seq(E) /\ Len(s) \in Nat
         /\ DOMAIN s = 1..Len(s) /\ Len(Append(s, e)) = Len(s) + 1
         /\ DOMAIN Append(s, e) = 1..(Len(s) + 1)
         /\ \A k \in 1..Len(s) : Append(s, e)[k] = s[k]
         /\ Append(s, e)[Len(s) + 1] = e
OBVIOUS

\* A drain takes the first items of a stream, and leaves the rest; when the queue
\* is not longer than a drain it takes them all.
LEMMA TakenFacts ==
  ASSUME Types, NEW c \in Calls
  PROVE  /\ sq[c] \in Seq(1..Items) /\ DOMAIN sq[c] = 1..Len(sq[c]) /\ Len(sq[c]) \in Nat
         /\ \A j \in 1..Len(sq[c]) : sq[c][j] \in 1..Items
         /\ Items \in Nat /\ Len(Taken(c)) \in Nat
         /\ Len(Taken(c)) \in 0..Len(sq[c]) /\ Taken(c) \in Seq(1..Items)
         /\ \A j \in 1..Len(Taken(c)) : Taken(c)[j] = sq[c][j]
         /\ ItemEvents(c) \in Seq(Events) /\ Len(ItemEvents(c)) = Len(Taken(c))
         /\ DOMAIN ItemEvents(c) = 1..Len(Taken(c))
         /\ \A j \in 1..Len(Taken(c)) : ItemEvents(c)[j] = Item(c, sq[c][j])
         /\ Drained(c) \in Seq(1..Items) /\ Len(Drained(c)) = Len(sq[c]) - Len(Taken(c))
         /\ DOMAIN Drained(c) = 1..(Len(sq[c]) - Len(Taken(c)))
         /\ \A j \in 1..(Len(sq[c]) - Len(Taken(c))) : Drained(c)[j] = sq[c][Len(Taken(c)) + j]
         /\ QueueMax <= DrainMax => Len(Taken(c)) = Len(sq[c])
<1> DEFINE s == sq[c]
           m == IF Len(s) < DrainMax THEN Len(s) ELSE DrainMax
<1>1. s \in Seq(1..Items) /\ Len(s) \in Nat /\ Items \in Nat /\ DrainMax \in Nat /\ QueueMax \in Nat
  BY SizesAssumption DEF Types, TypeCore, Sequences1
<1>2. m \in 0..Len(s)
  BY <1>1
<1>3. Taken(c) = SubSeq(s, 1, m)
  BY DEF Taken
<1> HIDE DEF s, m
<1>4. /\ Taken(c) \in Seq(1..Items) /\ Len(Taken(c)) = m
      /\ \A j \in 1..m : Taken(c)[j] = s[j]
  BY <1>1, <1>2, <1>3
<1>5. \A j \in 1..m : s[j] \in 1..Items
  BY <1>1, <1>2
<1>6. \A j \in 1..m : Item(c, s[j]) \in Events
  BY <1>1, <1>4, <1>5 DEF Item, Events
<1>7. ItemEvents(c) = [i \in 1..m |-> Item(c, s[i])]
  BY <1>4 DEF ItemEvents
<1>8. /\ ItemEvents(c) \in Seq(Events) /\ Len(ItemEvents(c)) = m
      /\ DOMAIN ItemEvents(c) = 1..m /\ \A j \in 1..m : ItemEvents(c)[j] = Item(c, s[j])
  BY <1>1, <1>2, <1>6, <1>7
<1>9. Drained(c) = SubSeq(s, m + 1, Len(s))
  BY <1>4 DEF Drained, s
<1>10. /\ Drained(c) \in Seq(1..Items) /\ Len(Drained(c)) = Len(s) - m
       /\ DOMAIN Drained(c) = 1..(Len(s) - m)
       /\ \A j \in 1..(Len(s) - m) : Drained(c)[j] = s[m + j]
  BY <1>1, <1>2, <1>9
<1>11. QueueMax <= DrainMax => m = Len(s)
  BY <1>1 DEF Types, TypeCore, m, s
<1>12. DOMAIN s = 1..Len(s) /\ (\A j \in 1..Len(s) : s[j] \in 1..Items) /\ m \in Nat
  BY <1>1, <1>2
<1> QED
  BY <1>1, <1>2, <1>4, <1>8, <1>10, <1>11, <1>12 DEF s

\* What one drain of all streams says.
AllItems ==
  LET S == SetToSeq(inflight \cap Streams)
  IN  FlattenSeq([i \in 1..Len(S) |-> ItemEvents(S[i])])

\* Of the items of c, F has those of s, in one piece.
Says(F, c, s) ==
  \E o \in Nat :
    /\ \A x \in DOMAIN F : IsItem(c, F[x]) <=> x \in (o + 1)..(o + Len(s))
    /\ \A j \in 1..Len(s) : o + j \in DOMAIN F /\ F[o + j].item = s[j]

\* Each stream in flight has what is taken of it there, and nobody else anything.
LEMMA AllItemsFacts ==
  ASSUME Types
  PROVE  /\ AllItems \in Seq(Events)
         /\ \A x \in DOMAIN AllItems : /\ AllItems[x].call \in inflight \cap Streams
                                       /\ AllItems[x].item > 0
         /\ \A c \in inflight \cap Streams : Says(AllItems, c, Taken(c))
<1> DEFINE X == inflight \cap Streams
           S == SetToSeq(X)
           seqs == [i \in 1..Len(S) |-> ItemEvents(S[i])]
<1>1. IsFiniteSet(X) /\ X \subseteq Calls
  BY FS_Subset DEF Types, TypeCore
<1>2. /\ S \in Seq(X)
      /\ \A i \in DOMAIN S, j \in DOMAIN S : S[i] = S[j] => i = j
      /\ \A c \in X : \E i \in DOMAIN S : S[i] = c
  BY <1>1, Listing, Zenon
<1>3. AllItems = FlattenSeq(seqs)
  BY Zenon DEF AllItems
<1> HIDE DEF S, X
<1>4. Len(S) \in Nat /\ DOMAIN S = 1..Len(S) /\ \A i \in 1..Len(S) : S[i] \in X
  BY <1>2
<1>5. \A i \in 1..Len(S) : /\ ItemEvents(S[i]) \in Seq(Events)
                           /\ Len(ItemEvents(S[i])) = Len(Taken(S[i])) /\ Len(Taken(S[i])) \in Nat
                           /\ \A j \in 1..Len(Taken(S[i])) : /\ ItemEvents(S[i])[j] = Item(S[i], sq[S[i]][j])
                                                             /\ sq[S[i]][j] \in 1..Items
  <2> TAKE i \in 1..Len(S)
  <2>1. S[i] \in Calls
    BY <1>1, <1>4
  <2> DEFINE c == S[i]
  <2>2. /\ Len(sq[c]) \in Nat /\ Len(Taken(c)) \in 0..Len(sq[c])
        /\ \A j \in 1..Len(sq[c]) : sq[c][j] \in 1..Items
        /\ ItemEvents(c) \in Seq(Events) /\ Len(ItemEvents(c)) = Len(Taken(c))
        /\ \A j \in 1..Len(Taken(c)) : ItemEvents(c)[j] = Item(c, sq[c][j])
    BY <2>1, TakenFacts, Zenon
  <2> HIDE DEF c
  <2>3. \A j \in 1..Len(Taken(c)) : sq[c][j] \in 1..Items
    BY <2>2
  <2>4. Len(Taken(c)) \in Nat
    BY <2>2
  <2> QED
    BY <2>2, <2>3, <2>4 DEF c
<1>6. seqs \in Seq(Seq(Events)) /\ Len(seqs) = Len(S)
  BY <1>4, <1>5
<1>7. AllItems \in Seq(Events) /\ \E off \in [1..Len(seqs) -> Nat] : Blocks(AllItems, seqs, off, Len(seqs))
  BY <1>3, <1>6, FlattenBlocks, Zenon
<1>8. PICK off \in [1..Len(S) -> Nat] : Blocks(AllItems, seqs, off, Len(S))
  BY <1>6, <1>7, Zenon
<1>9. \A i \in 1..Len(S) : seqs[i] = ItemEvents(S[i]) /\ Len(seqs[i]) = Len(Taken(S[i]))
  BY <1>5
<1> HIDE DEF seqs
<1>10. \A i \in 1..Len(S) : \A j \in 1..Len(Taken(S[i])) :
         /\ off[i] + j \in DOMAIN AllItems /\ AllItems[off[i] + j] = Item(S[i], sq[S[i]][j])
         /\ AllItems[off[i] + j].call = S[i] /\ AllItems[off[i] + j].item = sq[S[i]][j]
         /\ sq[S[i]][j] \in 1..Items
  <2> TAKE i \in 1..Len(S)
  <2> TAKE j \in 1..Len(Taken(S[i]))
  <2>1. off[i] + j \in DOMAIN AllItems /\ AllItems[off[i] + j] = seqs[i][j]
    BY <1>8, <1>9 DEF Blocks
  <2>2. seqs[i][j] = Item(S[i], sq[S[i]][j]) /\ sq[S[i]][j] \in 1..Items
    BY <1>5, <1>9
  <2> QED
    BY <2>1, <2>2 DEF Item
<1>11. ASSUME NEW x \in DOMAIN AllItems
       PROVE  \E i \in 1..Len(S) : x - off[i] \in 1..Len(Taken(S[i])) /\ AllItems[x].call = S[i]
                                   /\ AllItems[x].item \in 1..Items
  <2>1. PICK i \in 1..Len(S) : x - off[i] \in 1..Len(seqs[i])
    BY <1>8 DEF Blocks
  <2>2. x \in Nat
    BY <1>7
  <2>3. off[i] + (x - off[i]) = x /\ x - off[i] \in 1..Len(Taken(S[i]))
    BY <1>9, <2>1, <2>2
  <2>4. AllItems[x].call = S[i] /\ AllItems[x].item \in 1..Items
    BY <1>10, <2>3, SMTT(30)
  <2> QED
    BY <2>3, <2>4
<1>12. \A x \in DOMAIN AllItems : AllItems[x].call \in X /\ AllItems[x].item > 0
  BY <1>4, <1>11
<1>13. ASSUME NEW c \in X
       PROVE  Says(AllItems, c, Taken(c))
  <2>1. PICK i \in 1..Len(S) : S[i] = c
    BY <1>2, <1>4
  <2>2. \A x \in DOMAIN AllItems : IsItem(c, AllItems[x]) <=> x \in (off[i] + 1)..(off[i] + Len(Taken(c)))
    <3> TAKE x \in DOMAIN AllItems
    <3>1. ASSUME IsItem(c, AllItems[x]) PROVE x \in (off[i] + 1)..(off[i] + Len(Taken(c)))
      <4>1. PICK k \in 1..Len(S) : x - off[k] \in 1..Len(Taken(S[k])) /\ AllItems[x].call = S[k]
        BY <1>11
      <4>2. k = i
        BY <1>2, <1>4, <2>1, <3>1, <4>1 DEF IsItem
      <4>3. x \in Nat /\ off[i] \in Nat /\ Len(Taken(c)) \in Nat /\ x - off[i] \in 1..Len(Taken(c))
        BY <1>5, <1>7, <2>1, <4>1, <4>2
      <4> QED
        BY <4>3
    <3>2. ASSUME x \in (off[i] + 1)..(off[i] + Len(Taken(c))) PROVE IsItem(c, AllItems[x])
      <4>1. x - off[i] \in 1..Len(Taken(S[i])) /\ off[i] + (x - off[i]) = x
        <5>1. x \in Nat /\ off[i] \in Nat /\ Len(Taken(c)) \in Nat
          <6>1. x \in Nat
            BY <1>7
          <6>2. off[i] \in Nat
            OBVIOUS
          <6>3. Len(Taken(c)) \in Nat
            BY <1>5, <2>1
          <6> QED
            BY <6>1, <6>2, <6>3
        <5>2. x - off[i] \in 1..Len(Taken(c)) /\ off[i] + (x - off[i]) = x
          BY <3>2, <5>1
        <5> QED
          BY <2>1, <5>2
      <4>2. AllItems[x].call = c /\ AllItems[x].item \in 1..Items
        BY <1>10, <2>1, <4>1
      <4> QED
        BY <4>2 DEF IsItem
    <3> QED
      BY <3>1, <3>2
  <2>3. \A j \in 1..Len(Taken(c)) : Taken(c)[j] = sq[c][j]
    BY <1>1, TakenFacts, Zenon
  <2>4. \A j \in 1..Len(Taken(c)) : off[i] + j \in DOMAIN AllItems /\ AllItems[off[i] + j].item = Taken(c)[j]
    BY <1>10, <2>1, <2>3
  <2> QED
    BY <2>2, <2>4 DEF Says
<1> QED
  BY <1>7, <1>12, <1>13 DEF X

-----------------------------------------------------------------------------
(* The pipe of a stream *)

\* What the host says comes at the end, in its order.
LEMMA PipeGrows ==
  ASSUME NEW q \in Seq(Events), NEW F \in Seq(Events), NEW c \in Calls, NEW r, NEW k \in 1..(Len(q) + 1),
         NEW p, Preceded(q, r, c, k, p)
  PROVE  Preceded(q \o F, r, c, k, p)
<1>1. /\ DOMAIN q = 1..Len(q) /\ Len(q) \in Nat /\ Len(F) \in Nat
      /\ DOMAIN (q \o F) = 1..(Len(q) + Len(F))
      /\ \A l \in 1..Len(q) : (q \o F)[l] = q[l]
  BY Concat
<1>2. ASSUME NEW a \in Nat, NoItem(q, c, a, k)
      PROVE  NoItem(q \o F, c, a, k)
  <2> SUFFICES ASSUME NEW l \in DOMAIN (q \o F), a < l, l < k
               PROVE  ~IsItem(c, (q \o F)[l])
    BY DEF NoItem
  <2>1. l \in 1..Len(q)
    BY <1>1
  <2> QED
    BY <1>1, <1>2, <2>1 DEF NoItem
<1>3. CASE p = r /\ NoItem(q, c, 0, k)
  BY <1>2, <1>3 DEF Preceded
<1>4. CASE \E l \in DOMAIN q : l < k /\ IsItem(c, q[l]) /\ q[l].item = p /\ NoItem(q, c, l, k)
  <2>1. PICK l \in DOMAIN q : l < k /\ IsItem(c, q[l]) /\ q[l].item = p /\ NoItem(q, c, l, k)
    BY <1>4
  <2>2. l \in Nat /\ l \in DOMAIN (q \o F) /\ (q \o F)[l] = q[l]
    BY <1>1
  <2>3. NoItem(q \o F, c, l, k)
    BY <1>2, <2>1, <2>2
  <2> QED
    BY <2>1, <2>2, <2>3 DEF Preceded
<1> QED
  BY <1>3, <1>4 DEF Preceded

\* The items of s go on from p, the last one before; so what the client reads
\* goes on, and the last one of s is the last one then.
LEMMA PipeContinues ==
  ASSUME NEW q \in Seq(Events), NEW F \in Seq(Events), NEW c \in Calls, NEW r, NEW p \in 0..Items,
         NEW s \in Seq(1..Items), Says(F, c, s), Items \in Nat, NEW a,
         Preceded(q, r, c, Len(q) + 1, p), Chained(a, s, p)
  PROVE  /\ \A k \in DOMAIN (q \o F) : k > Len(q) /\ IsItem(c, (q \o F)[k]) =>
              \E p2 \in 0..Items : Preceded(q \o F, r, c, k, p2) /\ Follows(a, (q \o F)[k].item, p2)
         /\ Preceded(q \o F, r, c, Len(q \o F) + 1, LastOf(s, p))
<1> DEFINE n == Len(q)
           G == q \o F
<1>1. /\ DOMAIN q = 1..n /\ n \in Nat /\ Len(F) \in Nat /\ DOMAIN F = 1..Len(F)
      /\ DOMAIN G = 1..(n + Len(F)) /\ Len(G) = n + Len(F)
      /\ \A l \in 1..n : G[l] = q[l]
      /\ \A l \in 1..Len(F) : G[n + l] = F[l]
  BY Concat
<1>2. PICK o \in Nat : /\ \A x \in DOMAIN F : IsItem(c, F[x]) <=> x \in (o + 1)..(o + Len(s))
                       /\ \A j \in 1..Len(s) : o + j \in DOMAIN F /\ F[o + j].item = s[j]
  BY DEF Says
<1>3. Len(s) \in Nat /\ DOMAIN s = 1..Len(s) /\ \A j \in 1..Len(s) : s[j] \in 1..Items
  OBVIOUS
<1>4. Preceded(G, r, c, n + 1, p)
  BY <1>1, PipeGrows
<1> HIDE DEF G, n
<1>5. \A x \in 1..Len(F) : IsItem(c, G[n + x]) <=> x \in (o + 1)..(o + Len(s))
  BY <1>1, <1>2
<1>6. \A j \in 1..Len(s) : n + o + j \in DOMAIN G /\ IsItem(c, G[n + o + j]) /\ G[n + o + j].item = s[j]
  <2> TAKE j \in 1..Len(s)
  <2>1. o + j \in 1..Len(F) /\ F[o + j].item = s[j]
    BY <1>1, <1>2
  <2>2. n + (o + j) = n + o + j /\ o + j \in (o + 1)..(o + Len(s))
    BY <1>1, <1>3, <2>1
  <2>3. G[n + (o + j)] = F[o + j] /\ IsItem(c, G[n + (o + j)])
    BY <1>1, <1>5, <2>1, <2>2
  <2>4. n + (o + j) \in DOMAIN G
    BY <1>1, <2>1
  <2> QED
    BY <2>1, <2>2, <2>3, <2>4
\* Before place k there is the item of s at j, or what was before if j is 0.
<1>7. ASSUME NEW j \in 0..Len(s), NEW k \in (n + 1)..(Len(G) + 1),
             \A x \in 1..Len(F) : n + x < k => x <= o + j \/ ~IsItem(c, G[n + x]),
             j > 0 => n + o + j < k
      PROVE  Preceded(G, r, c, k, IF j = 0 THEN p ELSE s[j])
  <2>1. CASE j > 0
    <3> DEFINE l == n + o + j
    <3>1. l \in DOMAIN G /\ IsItem(c, G[l]) /\ G[l].item = s[j] /\ l < k
      BY <1>6, <1>7, <2>1
    <3>2. NoItem(G, c, l, k)
      <4> SUFFICES ASSUME NEW y \in DOMAIN G, l < y, y < k
                   PROVE  ~IsItem(c, G[y])
        BY DEF NoItem
      <4>1. y - n \in 1..Len(F) /\ n + (y - n) = y /\ ~(y - n <= o + j)
        BY <1>1
      <4> QED
        BY <1>7, <4>1
    <3> QED
      BY <2>1, <3>1, <3>2 DEF Preceded
  <2>2. CASE j = 0
    <3>1. \A x \in 1..Len(F) : n + x < k => ~IsItem(c, G[n + x])
      <4> SUFFICES ASSUME NEW x \in 1..Len(F), n + x < k
                   PROVE  ~IsItem(c, G[n + x])
        OBVIOUS
      <4>1. CASE x <= o
        BY <1>1, <1>3, <1>5, <4>1
      <4>2. CASE ~(x <= o)
        BY <1>1, <1>7, <2>2, <4>2
      <4> QED
        BY <4>1, <4>2
    <3>2. ASSUME NEW b \in Nat, b <= n, NoItem(G, c, b, n + 1)
          PROVE  NoItem(G, c, b, k)
      <4> SUFFICES ASSUME NEW y \in DOMAIN G, b < y, y < k
                   PROVE  ~IsItem(c, G[y])
        BY DEF NoItem
      <4>1. CASE y < n + 1
        BY <3>2, <4>1 DEF NoItem
      <4>2. CASE ~(y < n + 1)
        <5>1. y - n \in 1..Len(F) /\ n + (y - n) = y
          BY <1>1, <4>2
        <5> QED
          BY <3>1, <5>1
      <4> QED
        BY <4>1, <4>2
    <3>3. CASE p = r /\ NoItem(G, c, 0, n + 1)
      BY <1>1, <2>2, <3>2, <3>3 DEF Preceded
    <3>4. CASE \E l \in DOMAIN G : l < n + 1 /\ IsItem(c, G[l]) /\ G[l].item = p /\ NoItem(G, c, l, n + 1)
      <4>1. PICK l \in DOMAIN G : l < n + 1 /\ IsItem(c, G[l]) /\ G[l].item = p /\ NoItem(G, c, l, n + 1)
        BY <3>4
      <4>2. l \in Nat /\ l <= n /\ l < k
        BY <1>1, <4>1
      <4>3. NoItem(G, c, l, k)
        BY <3>2, <4>1, <4>2
      <4> QED
        BY <2>2, <4>1, <4>2, <4>3 DEF Preceded
    <3> QED
      BY <1>4, <3>3, <3>4 DEF Preceded
  <2> QED
    BY <1>3, <2>1, <2>2
<1>8. ASSUME NEW k \in DOMAIN G, k > n, IsItem(c, G[k])
      PROVE  \E p2 \in 0..Items : Preceded(G, r, c, k, p2) /\ Follows(a, G[k].item, p2)
  <2>1. k - n \in 1..Len(F) /\ n + (k - n) = k
    BY <1>1, <1>8
  <2>2. k - n \in (o + 1)..(o + Len(s))
    BY <1>5, <1>8, <2>1
  <2> DEFINE j == k - n - o
  <2>3. j \in 1..Len(s) /\ n + o + j = k
    <3>1. k \in Nat /\ n \in Nat /\ Len(s) \in Nat /\ o \in Nat
      BY <1>1, <1>3
    <3> QED
      BY <2>2, <3>1, Offset, Zenon
  <2>4. G[k].item = s[j]
    BY <1>6, <2>3
  <2>5. Follows(a, s[j], Before(s, j, p))
    BY <1>3, <2>3 DEF Chained
  <2>6. Preceded(G, r, c, k, IF j - 1 = 0 THEN p ELSE s[j - 1])
    <3>1. j - 1 \in 0..Len(s) /\ k \in (n + 1)..(Len(G) + 1)
      <4>1. j - 1 \in 0..Len(s)
        BY <1>3, <2>3
      <4>2. k \in 1..Len(G) /\ k > n
        BY <1>1, <1>8
      <4> QED
        BY <1>1, <4>1, <4>2
    <3>2. \A x \in 1..Len(F) : n + x < k => x <= o + (j - 1)
      BY <1>1, <2>3, SMTT(30)
    <3>3. j - 1 > 0 => n + o + (j - 1) < k
      BY <1>1, <2>3, SMTT(30)
    <3> QED
      BY <1>7, <3>1, <3>2, <3>3
  <2>7. Before(s, j, p) = IF j - 1 = 0 THEN p ELSE s[j - 1]
    BY <2>3 DEF Before
  <2>8. Before(s, j, p) \in 0..Items
    BY <1>3, <2>3, SMTT(30) DEF Before
  <2> QED
    BY <2>4, <2>5, <2>6, <2>7, <2>8
<1>9. Preceded(G, r, c, Len(G) + 1, LastOf(s, p))
  <2>1. Preceded(G, r, c, Len(G) + 1, IF Len(s) = 0 THEN p ELSE s[Len(s)])
    <3>1. Len(s) \in 0..Len(s) /\ Len(G) + 1 \in (n + 1)..(Len(G) + 1)
      BY <1>1, <1>3
    <3>2. \A x \in 1..Len(F) : x <= o + Len(s) \/ ~IsItem(c, G[n + x])
      BY <1>1, <1>3, <1>5
    <3>3. Len(s) > 0 => n + o + Len(s) < Len(G) + 1
      <4> SUFFICES ASSUME Len(s) > 0 PROVE n + o + Len(s) < Len(G) + 1
        OBVIOUS
      <4>1. n + o + Len(s) \in DOMAIN G
        BY <1>3, <1>6
      <4> QED
        BY <1>1, <4>1
    <3> QED
      BY <1>7, <3>1, <3>2, <3>3
  <2> QED
    BY <1>3, <2>1 DEF LastOf
<1> QED
  BY <1>8, <1>9 DEF G, n

\* The client reads an event: an item of c becomes the last one read.
LEMMA PipeIsRead ==
  ASSUME NEW q \in Seq(Events), q # <<>>, NEW c \in Calls, NEW r, NEW k \in 2..(Len(q) + 1),
         NEW p, Preceded(q, r, c, k, p)
  PROVE  Preceded(Tail(q), IF IsItem(c, Head(q)) THEN Head(q).item ELSE r, c, k - 1, p)
<1> DEFINE t == Tail(q)
<1>1. /\ Len(q) \in Nat /\ 1 <= Len(q) /\ DOMAIN q = 1..Len(q)
      /\ Head(q) = q[1] /\ DOMAIN t = 1..(Len(q) - 1)
      /\ \A l \in 1..(Len(q) - 1) : t[l] = q[l + 1]
  BY HeadAndTail, Zenon
<1> HIDE DEF t
<1>2. ASSUME NEW a \in Nat, NEW b \in Nat, a <= b + 1, NoItem(q, c, a, k)
      PROVE  b + 1 <= a + 1 => NoItem(t, c, b, k - 1)
  <2> SUFFICES ASSUME b <= a, a <= b + 1, NEW l \in DOMAIN t, b < l, l < k - 1
               PROVE  ~IsItem(c, t[l])
    BY <1>2 DEF NoItem
  <2>1. l + 1 \in DOMAIN q /\ a < l + 1 /\ l + 1 < k /\ t[l] = q[l + 1]
    BY <1>1
  <2> QED
    BY <1>2, <2>1 DEF NoItem
<1>3. CASE p = r /\ NoItem(q, c, 0, k)
  <2>1. ~IsItem(c, Head(q))
    BY <1>1, <1>3 DEF NoItem
  <2>2. NoItem(t, c, 0, k - 1)
    BY <1>2, <1>3
  <2> QED
    BY <1>3, <2>1, <2>2 DEF Preceded, t
<1>4. CASE \E l \in DOMAIN q : l < k /\ IsItem(c, q[l]) /\ q[l].item = p /\ NoItem(q, c, l, k)
  <2>1. PICK l \in DOMAIN q : l < k /\ IsItem(c, q[l]) /\ q[l].item = p /\ NoItem(q, c, l, k)
    BY <1>4
  <2>2. CASE l = 1
    <3>1. IsItem(c, Head(q)) /\ Head(q).item = p
      BY <1>1, <2>1, <2>2
    <3>2. NoItem(t, c, 0, k - 1)
      BY <1>2, <2>1, <2>2
    <3> QED
      BY <3>1, <3>2 DEF Preceded, t
  <2>3. CASE l # 1
    <3>1. l - 1 \in DOMAIN t /\ t[l - 1] = q[l] /\ l - 1 < k - 1 /\ l \in Nat /\ l - 1 \in Nat
      BY <1>1, <2>1, <2>3
    <3>2. NoItem(t, c, l - 1, k - 1)
      BY <1>2, <2>1, <3>1
    <3> QED
      BY <2>1, <3>1, <3>2 DEF Preceded, t
  <2> QED
    BY <2>2, <2>3
<1> QED
  BY <1>3, <1>4 DEF Preceded

\* The first event follows what was read.
LEMMA PipeStarts ==
  ASSUME NEW q, NEW r, NEW c, NEW p, DOMAIN q = 1..Len(q), Len(q) \in Nat, Preceded(q, r, c, 1, p)
  PROVE  p = r
BY DEF Preceded


\* The errors of the calls of L are said once each.
LEMMA ErrorsFacts ==
  ASSUME Types, NEW L, L \subseteq inflight,
         NEW F, F = SetToSeq({Answer(c, "error") : c \in L})
  PROVE  /\ F \in Seq(Events)
         /\ \A x \in DOMAIN F : /\ F[x].call \in L /\ F[x] = Answer(F[x].call, "error")
                                /\ F[x].item = 0
                                /\ \A y \in DOMAIN F : F[x].call = F[y].call => x = y
<1> DEFINE X == {Answer(c, "error") : c \in L}
<1>1. IsFiniteSet(L) /\ L \subseteq Calls
  BY FS_Subset DEF Types, TypeCore
<1>2. IsFiniteSet(X)
  <2> DEFINE f == [c \in L |-> Answer(c, "error")]
  <2>1. X = {f[c] : c \in L}
    OBVIOUS
  <2>2. f \in Surjection(L, X)
    BY <2>1 DEF Surjection
  <2> QED
    BY <1>1, <2>2, FS_Surjection, Zenon
<1>3. /\ F \in Seq(X)
      /\ \A i \in DOMAIN F, j \in DOMAIN F : F[i] = F[j] => i = j
  BY <1>2, Listing, Zenon
<1>4. \A e \in X : e \in Events /\ e.call \in L /\ e = Answer(e.call, "error") /\ e.item = 0
  BY <1>1, SizesAssumption DEF Answer, Events, Errors
<1> HIDE DEF X
<1>5. \A x \in DOMAIN F : F[x] \in X
  BY <1>3
<1>6. F \in Seq(Events)
  BY <1>3, <1>4, X \subseteq Events
<1>7. \A x \in DOMAIN F : /\ F[x].call \in L /\ F[x] = Answer(F[x].call, "error")
                          /\ F[x].item = 0
  BY <1>4, <1>5
<1>8. ASSUME NEW x \in DOMAIN F, NEW y \in DOMAIN F, F[x].call = F[y].call
      PROVE  x = y
  <2>1. F[x] = F[y]
    BY <1>7, <1>8
  <2> QED
    BY <1>3, <2>1
<1> QED
  BY <1>6, <1>7, <1>8, Zenon

\* The actions of the calls, of the node, of the host and of its workers.
CallStep(c) ==
  \/ Invoke(c) \/ InvokeStream(c) \/ SendFails(c) \/ Send(c) \/ TakeResponse(c)
  \/ TakeStreamed(c) \/ WaitTimeout(c) \/ ProcessDied(c) \/ Disconnect(c)
  \/ Finish(c) \/ FinishStream(c)
NodeStep == StopService \/ StopExecutor \/ ForgetService \/ RebuildHost
LoopStep ==
  HandleStop \/ NoRequest \/ DrainStreams \/ DrainCompleted
  \/ (\E c \in Calls : HandleCall(c)) \/ (\E late \in SUBSET Calls : Expire(late))
WorkStep ==
  \/ \E c \in Calls : Start(c) \/ Yield(c) \/ \E s \in Finished : ExecutePayload(c, s)
  \/ WorkerCrash \/ HostCrash

\* Every step is one of them, or reads an event.
LEMMA StepsAre ==
  ASSUME [Next]_vars
  PROVE  (\E c \in Calls : CallStep(c)) \/ NodeStep \/ Read \/ LoopStep \/ WorkStep \/ UNCHANGED vars
BY Zenon DEF Next, NodeCall, HostLoop, CallStep, NodeStep, LoopStep, WorkStep

\* The threads of the calls keep the types.
LEMMA CallTypes ==
  ASSUME Types, NEW c \in Calls, CallStep(c)
  PROVE  Types'
<1>1. UNCHANGED coreVars /\ UNCHANGED <<client, host, step, evq>>
  BY Zenon DEF CallStep, Invoke, InvokeStream, SendFails, Send, TakeResponse, TakeStreamed,
     WaitTimeout, ProcessDied, Disconnect, Finish, FinishStream, Return, linkVars
<1>2. TypeCore'
  BY <1>1 DEF coreVars, Types, TypeCore
<1>3. /\ session \in {"running", "stopped", "forgotten"} /\ session' = session
      /\ received \in Nat /\ returned \in Nat /\ received' \in Nat /\ returned' \in Nat
  <2>1. session' = session /\ received' \in {received, received + 1} /\ returned' \in {returned, returned + 1}
    BY DEF CallStep, Invoke, InvokeStream, Count, Refuse, SendFails, Send, TakeResponse,
       TakeStreamed, WaitTimeout, ProcessDied, Disconnect, Finish, FinishStream, Return
  <2> QED
    BY <2>1 DEF Types, TypeNode
<1>4. pc' \in [Calls -> Steps]
  <2>1. \E s \in Steps : pc' = [pc EXCEPT ![c] = s]
    <3>1. pc = [pc EXCEPT ![c] = pc[c]] /\ pc[c] \in Steps
      BY DEF Types, TypeNode
    <3> QED
      BY <3>1 DEF CallStep, Invoke, InvokeStream, Count, Refuse, SendFails, Send, TakeResponse, Fail,
       TakeStreamed, WaitTimeout, ProcessDied, Disconnect, Finish, FinishStream, Return, Steps
  <2> QED
    BY <2>1 DEF Types, TypeNode
<1>5. outcome' \in [Calls -> Finished \cup Errors \cup {"none", "refused"}]
  <2>1. outcome' = outcome \/ \E s \in {"refused", "error", response[c]} : outcome' = [outcome EXCEPT ![c] = s]
    BY DEF CallStep, Invoke, InvokeStream, Count, Refuse, SendFails, Send, TakeResponse, Fail,
       TakeStreamed, WaitTimeout, ProcessDied, Disconnect, Finish, FinishStream, Return
  <2> QED
    BY <2>1 DEF Types, TypeNode, TypeLink, Errors
<1>6. <<>> \in Sequences1
  BY DEF Sequences1
<1>7. got' \in [Calls -> Sequences1]
  <2>1. got' = got \/ (buffer[c] # <<>> /\ got' = [got EXCEPT ![c] = Append(@, Head(buffer[c]))])
    BY DEF CallStep, Invoke, InvokeStream, Count, Refuse, SendFails, Send, TakeResponse, Fail,
       TakeStreamed, WaitTimeout, ProcessDied, Disconnect, Finish, FinishStream, Return
  <2>2. buffer[c] # <<>> => Append(got[c], Head(buffer[c])) \in Sequences1
    <3>1. got[c] \in Seq(1..Items) /\ buffer[c] \in Seq(1..Items)
      BY Zenon DEF Types, TypeNode, TypeLink, Sequences1
    <3>2. buffer[c] # <<>> => Head(buffer[c]) \in 1..Items
      BY <3>1, HeadAndTail, Zenon
    <3>3. buffer[c] # <<>> => Append(got[c], Head(buffer[c])) \in Seq(1..Items)
      BY <3>1, <3>2, OneMore, Zenon
    <3> QED
      BY <3>3 DEF Sequences1
  <2> QED
    BY <2>1, <2>2 DEF Types, TypeNode
<1>8. /\ response' \in [Calls -> Finished \cup Errors \cup {"none"}]
      /\ buffer' \in [Calls -> Sequences1]
  <2>1. /\ response' = response \/ response' = [response EXCEPT ![c] = "none"]
        /\ \/ buffer' = buffer \/ buffer' = [buffer EXCEPT ![c] = <<>>]
           \/ buffer[c] # <<>> /\ buffer' = [buffer EXCEPT ![c] = Tail(@)]
    BY DEF CallStep, Invoke, InvokeStream, Forget, SendFails, Send, TakeResponse, linkVars,
       TakeStreamed, WaitTimeout, ProcessDied, Disconnect, Finish, FinishStream, Return
  <2>2. buffer[c] # <<>> => Tail(buffer[c]) \in Sequences1
    BY DEF Types, TypeLink, Sequences1
  <2> QED
    BY <1>6, <2>1, <2>2 DEF Types, TypeLink
<1>9. skip' \subseteq Calls
  <2>1. skip' \subseteq skip \cup {c}
    BY DEF CallStep, Invoke, InvokeStream, Forget, SendFails, Send, TakeResponse, linkVars,
       TakeStreamed, WaitTimeout, ProcessDied, Disconnect, Finish, FinishStream, Return
  <2> QED
    BY <2>1 DEF Types, TypeLink
<1>10. reqq' \in Seq(Calls \cup {"stop"})
  <2>1. reqq' = reqq \/ reqq' = Append(reqq, c)
    BY DEF CallStep, Invoke, InvokeStream, SendFails, Send, TakeResponse, linkVars,
       TakeStreamed, WaitTimeout, ProcessDied, Disconnect, Finish, FinishStream, Return
  <2> QED
    BY <2>1, SMTT(30) DEF Types, TypeLink
<1>11. TypeNode'
  BY <1>1, <1>3, <1>4, <1>5, <1>7 DEF Types, TypeNode
<1>12. TypeLink'
  BY <1>1, <1>8, <1>9, <1>10 DEF Types, TypeLink
<1> QED
  BY <1>2, <1>11, <1>12 DEF Types

\* So do the owner and the maintenance of the node.
LEMMA NodeTypes ==
  ASSUME Types, NodeStep \/ Read \/ UNCHANGED vars
  PROVE  Types'
<1>0. <<>> \in Sequences1 /\ <<>> \in Seq(Events)
  BY DEF Sequences1
<1>1. CASE StopService \/ ForgetService \/ UNCHANGED vars
  <2>1. UNCHANGED <<linkVars, coreVars, received, returned, pc, outcome, got, client, host, step>>
        /\ session' \in {session, "stopped", "forgotten"}
    BY <1>1 DEF StopService, ForgetService, vars, nodeVars
  <2>2. TypeLink' /\ TypeCore'
    BY <2>1 DEF linkVars, coreVars, Types, TypeLink, TypeCore
  <2>3. TypeNode'
    BY <2>1 DEF Types, TypeNode
  <2> QED
    BY <2>2, <2>3 DEF Types
<1>2. CASE StopExecutor
  <2>1. TypeCore'
    BY <1>2 DEF StopExecutor, coreVars, Types, TypeCore
  <2>2. TypeNode'
    BY <1>2 DEF StopExecutor, nodeVars, Types, TypeNode
  <2>3. reqq' \in Seq(Calls \cup {"stop"})
    <3>1. reqq \in Seq(Calls \cup {"stop"})
      BY DEF Types, TypeLink
    <3>2. reqq' = reqq \/ reqq' = Append(reqq, "stop")
      BY <1>2 DEF StopExecutor
    <3> QED
      BY <3>1, <3>2
  <2> QED
    BY <1>2, <2>1, <2>2, <2>3 DEF StopExecutor, Types, TypeLink
<1>3. CASE RebuildHost
  <2>1. TypeCore'
    BY <1>3 DEF RebuildHost, Types, TypeCore
  <2>2. TypeNode'
    BY <1>3 DEF RebuildHost, Types, TypeNode
  <2>3. TypeLink'
    BY <1>3, <1>0 DEF RebuildHost, Types, TypeLink
  <2> QED
    BY <2>1, <2>2, <2>3 DEF Types
<1>4. CASE Read
  <2>1. TypeCore' /\ UNCHANGED <<nodeVars, client, host, step, reqq>>
    BY <1>4 DEF Read, coreVars, Types, TypeCore
  <2>2. TypeNode'
    BY <2>1 DEF nodeVars, Types, TypeNode
  <2> DEFINE c == Head(evq).call
             i == Head(evq).item
  <2>3. /\ evq' \in Seq(Events) /\ Head(evq) \in Events
    BY <1>4, HeadAndTail, Zenon DEF Read, Types, TypeLink
  <2>4. c \in Calls /\ i \in 0..Items /\ Head(evq).status \in Finished \cup Errors \cup {"none"} /\ Items \in Nat
    BY <2>3, SizesAssumption DEF Events
  <2>5. /\ skip' = skip \/ skip' = skip \ {c} \/ skip' = skip \cup {c}
        /\ \/ response' = response
           \/ \E s \in {Head(evq).status, "error"} : response' = [response EXCEPT ![c] = s]
        /\ \/ buffer' = buffer \/ buffer' = [buffer EXCEPT ![c] = <<>>]
           \/ i > 0 /\ buffer' = [buffer EXCEPT ![c] = Append(@, i)]
    BY <1>4 DEF Read
  <2> HIDE DEF c, i
  <2>6. i > 0 => Append(buffer[c], i) \in Sequences1
    <3>1. buffer[c] \in Seq(1..Items) /\ (i > 0 => i \in 1..Items)
      BY <2>4 DEF Types, TypeLink, Sequences1
    <3>2. i > 0 => Append(buffer[c], i) \in Seq(1..Items)
      BY <3>1, OneMore, Zenon
    <3> QED
      BY <3>2 DEF Sequences1
  <2>7. buffer' \in [Calls -> Sequences1]
    BY <1>0, <2>4, <2>5, <2>6 DEF Types, TypeLink
  <2>8. response' \in [Calls -> Finished \cup Errors \cup {"none"}]
    BY <2>4, <2>5 DEF Types, TypeLink, Errors
  <2>9. skip' \subseteq Calls
    BY <2>4, <2>5 DEF Types, TypeLink
  <2>10. TypeLink'
    BY <2>1, <2>3, <2>7, <2>8, <2>9 DEF Types, TypeLink
  <2> QED
    BY <2>1, <2>2, <2>10 DEF Types
<1> QED
  BY <1>1, <1>2, <1>3, <1>4, Zenon DEF NodeStep

\* The queue of a stream in the host changes by an item of its worker, and by drains.
LEMMA WorkTypes ==
  ASSUME Types, WorkStep
  PROVE  Types'
<1>1. UNCHANGED <<nodeVars, evq, response, buffer, skip, client>>
  BY Zenon DEF WorkStep, Start, Yield, ExecutePayload, WorkerCrash, HostCrash, linkVars
<1>0. <<>> \in Seq(Calls \cup {"stop"}) /\ <<>> \in Sequences1 /\ Len(<<>>) = 0 /\ IsFiniteSet({})
      /\ QueueMax \in Nat /\ Items \in Nat
  BY FS_EmptySet, SizesAssumption DEF Sequences1
<1>2. /\ reqq' = reqq \/ reqq' = <<>>
      /\ step' \in {step, "request"} /\ host' \in {host, "down"}
  BY <1>1 DEF WorkStep, Start, Yield, ExecutePayload, WorkerCrash, HostCrash, CloseHost, linkVars
<1>3. TypeNode' /\ TypeLink'
  <2>1. TypeNode'
    BY <1>1, <1>2 DEF nodeVars, Types, TypeNode
  <2>2. TypeLink'
    BY <1>0, <1>1, <1>2 DEF Types, TypeLink
  <2> QED
    BY <2>1, <2>2
<1>4. CASE \E c \in Calls : Start(c) \/ \E s \in Finished : ExecutePayload(c, s)
  <2>1. PICK c \in Calls : Start(c) \/ \E s \in Finished : ExecutePayload(c, s)
    BY <1>4
  <2>2. UNCHANGED <<inflight, retries, next, sq>>
        /\ \E s \in Finished \cup {"running"} : fut' = [fut EXCEPT ![c] = s]
    BY <2>1 DEF Start, ExecutePayload
  <2> QED
    BY <1>3, <2>2 DEF Types, TypeCore
<1>5. CASE \E c \in Calls : Yield(c)
  <2>1. PICK c \in Calls : Yield(c)
    BY <1>5
  <2>2. /\ UNCHANGED <<inflight, retries, fut>>
        /\ sq' = [sq EXCEPT ![c] = Append(sq[c], next[c])]
        /\ next' = [next EXCEPT ![c] = next[c] + 1]
        /\ next[c] <= Items /\ Len(sq[c]) < QueueMax
    BY <2>1 DEF Yield
  <2>3. /\ sq \in [Calls -> Sequences1] /\ \A d \in Calls : Len(sq[d]) <= QueueMax
        /\ next \in [Calls -> 1..Items + 1] /\ sq[c] \in Seq(1..Items)
    BY DEF Types, TypeCore, Sequences1
  <2>4. next[c] \in 1..Items
    BY <1>0, <2>2, <2>3
  <2>5. Append(sq[c], next[c]) \in Seq(1..Items) /\ Len(Append(sq[c], next[c])) = Len(sq[c]) + 1
        /\ Len(sq[c]) \in Nat
    BY <2>3, <2>4, OneMore
  <2>6. Append(sq[c], next[c]) \in Sequences1 /\ Len(Append(sq[c], next[c])) <= QueueMax
    BY <1>0, <2>2, <2>5 DEF Sequences1
  <2>7. sq' \in [Calls -> Sequences1] /\ \A d \in Calls : Len(sq'[d]) <= QueueMax
    BY <2>2, <2>3, <2>6
  <2>8. next' \in [Calls -> 1..Items + 1]
    BY <1>0, <2>2, <2>3, <2>4
  <2>9. TypeCore'
    BY <2>2, <2>7, <2>8 DEF Types, TypeCore
  <2> QED
    BY <1>3, <2>9 DEF Types
<1>6. CASE WorkerCrash
  <2>1. UNCHANGED <<inflight, retries, next, sq>>
        /\ fut' = [c \in Calls |-> IF c \in OnPool THEN "broken" ELSE fut[c]]
    BY <1>6 DEF WorkerCrash
  <2> QED
    BY <1>3, <2>1 DEF Types, TypeCore
<1>7. CASE HostCrash
  <2>1. /\ fut' = [c \in Calls |-> "none"] /\ next' = [c \in Calls |-> 1]
        /\ sq' = [c \in Calls |-> <<>>] /\ inflight' = {} /\ retries' = retries
    BY <1>7 DEF HostCrash, CloseHost
  <2>2. \A d \in Calls : Len(sq'[d]) <= QueueMax
    BY <1>0, <2>1
  <2>3. TypeCore'
    BY <1>0, <2>1, <2>2 DEF Types, TypeCore
  <2> QED
    BY <1>3, <2>3 DEF Types
<1> QED
  BY <1>4, <1>5, <1>6, <1>7, Zenon DEF WorkStep

\* What a call that leaves the host says: its last items, and its answer.
Closing(c, status) == (evq \o ItemEvents(c)) \o <<Answer(c, status)>>

\* The last items of a call are events of it, and its answer comes after them.
LEMMA CloseEvents ==
  ASSUME Types, NEW c \in Calls, NEW status \in Finished \cup Errors
  PROVE  /\ ItemEvents(c) \o <<Answer(c, status)>> \in Seq(Events)
         /\ Closing(c, status) = evq \o (ItemEvents(c) \o <<Answer(c, status)>>)
         /\ DOMAIN (ItemEvents(c) \o <<Answer(c, status)>>) = 1..(Len(Taken(c)) + 1)
         /\ Len(Taken(c)) \in Nat
         /\ \A j \in 1..Len(Taken(c)) :
              /\ (ItemEvents(c) \o <<Answer(c, status)>>)[j] = Item(c, sq[c][j])
              /\ sq[c][j] \in 1..Items
         /\ (ItemEvents(c) \o <<Answer(c, status)>>)[Len(Taken(c)) + 1] = Answer(c, status)
<1>1. /\ Len(sq[c]) \in Nat /\ Len(Taken(c)) \in 0..Len(sq[c])
      /\ \A j \in 1..Len(sq[c]) : sq[c][j] \in 1..Items
      /\ ItemEvents(c) \in Seq(Events) /\ Len(ItemEvents(c)) = Len(Taken(c))
      /\ \A j \in 1..Len(Taken(c)) : ItemEvents(c)[j] = Item(c, sq[c][j])
  BY TakenFacts, Zenon
<1>2. Answer(c, status) \in Events
  BY SizesAssumption DEF Answer, Events
<1> DEFINE I == ItemEvents(c)
           a == Answer(c, status)
<1>3. I \in Seq(Events) /\ a \in Events /\ evq \in Seq(Events) /\ Len(I) = Len(Taken(c))
  BY <1>1, <1>2 DEF Types, TypeLink
<1> HIDE DEF I, a
<1>4. <<a>> \in Seq(Events) /\ Len(<<a>>) = 1 /\ <<a>>[1] = a
  BY <1>3
<1>5. /\ I \o <<a>> \in Seq(Events) /\ DOMAIN (I \o <<a>>) = 1..(Len(I) + 1)
      /\ Len(I) \in Nat
      /\ \A k \in 1..Len(I) : (I \o <<a>>)[k] = I[k]
      /\ (I \o <<a>>)[Len(I) + 1] = a
  BY <1>3
<1>6. (evq \o I) \o <<a>> = evq \o (I \o <<a>>)
  BY <1>3
<1>7. \A j \in 1..Len(Taken(c)) : sq[c][j] \in 1..Items
  BY <1>1
<1> QED
  BY <1>1, <1>3, <1>5, <1>6, <1>7 DEF Closing, I, a

\* The loop of the host keeps the types.
LEMMA LoopTypes ==
  ASSUME Types, LoopStep
  PROVE  Types'
<1>0. <<>> \in Seq(Calls \cup {"stop"}) /\ <<>> \in Sequences1 /\ Len(<<>>) = 0 /\ IsFiniteSet({})
      /\ {QueueMax, DrainMax, Items} \subseteq Nat /\ <<>> \in Seq(Events)
  BY FS_EmptySet, SizesAssumption DEF Sequences1
<1>1. UNCHANGED <<nodeVars, response, buffer, skip, client>>
  BY Zenon DEF LoopStep, HandleCall, HandleStop, NoRequest, DrainStreams, DrainCompleted, Expire, linkVars
<1>2. /\ reqq' = reqq \/ reqq' = <<>> \/ (reqq # <<>> /\ reqq' = Tail(reqq))
      /\ step' \in {"request", "streams", "completed"} /\ host' \in {host, "down"}
  <2>1. step \in {"request", "streams", "completed"}
    BY DEF Types, TypeNode
  <2> QED
    BY <2>1 DEF LoopStep, HandleCall, HandleStop, NoRequest, DrainStreams, DrainCompleted, Expire, linkVars,
       CloseHost, Idle
<1>3. TypeNode'
  BY <1>1, <1>2 DEF nodeVars, Types, TypeNode
<1>4. reqq' \in Seq(Calls \cup {"stop"})
  <2>1. reqq \in Seq(Calls \cup {"stop"})
    BY DEF Types, TypeLink
  <2>2. reqq # <<>> => Tail(reqq) \in Seq(Calls \cup {"stop"})
    BY <2>1, HeadAndTail, Zenon
  <2> QED
    BY <1>0, <1>2, <2>1, <2>2
<1>5. evq' \in Seq(Events) => TypeLink'
  BY <1>1, <1>4 DEF Types, TypeLink
<1>6. evq \in Seq(Events)
  BY DEF Types, TypeLink
<1>7. \A F \in Seq(Events) : evq \o F \in Seq(Events)
  BY <1>6
<1>8. CASE \E c \in Calls : HandleCall(c)
  <2>1. PICK c \in Calls : HandleCall(c)
    BY <1>8
  <2>2. UNCHANGED <<retries, sq>>
        /\ (evq' = evq \/ evq' = Append(evq, Answer(c, "error")))
        /\ inflight' \in {inflight, inflight \cup {c}}
        /\ (fut' = fut \/ fut' = [fut EXCEPT ![c] = "queued"])
        /\ (next' = next \/ next' = [next EXCEPT ![c] = 1])
    BY <2>1 DEF HandleCall, Submit
  <2>3. Answer(c, "error") \in Events
    BY SizesAssumption DEF Answer, Events, Errors
  <2>4. evq' \in Seq(Events)
    BY <1>6, <2>2, <2>3
  <2>5. IsFiniteSet(inflight') /\ inflight' \subseteq Calls
    BY <2>2, FS_AddElement DEF Types, TypeCore
  <2>6. next' \in [Calls -> 1..Items + 1]
    <3>1. 1 \in 1..Items + 1 /\ next \in [Calls -> 1..Items + 1]
      BY <1>0 DEF Types, TypeCore
    <3> QED
      BY <2>2, <3>1
  <2>7. fut' \in [Calls -> Finished \cup {"none", "queued", "running", "broken", "cancelled"}]
    BY <2>2 DEF Types, TypeCore
  <2>8. TypeCore'
    BY <2>2, <2>5, <2>6, <2>7 DEF Types, TypeCore
  <2> QED
    BY <1>3, <1>5, <2>4, <2>8 DEF Types
<1>9. CASE HandleStop
  <2>1. evq' \in Seq(Events)
    <3>1. FailInflight \in Seq(Events)
      BY ErrorsFacts, Zenon DEF FailInflight
    <3> QED
      BY <1>7, <1>9, <3>1 DEF HandleStop
  <2>2. /\ fut' = [c \in Calls |-> "none"] /\ next' = [c \in Calls |-> 1]
        /\ sq' = [c \in Calls |-> <<>>] /\ inflight' = {} /\ retries' = retries
    BY <1>9 DEF HandleStop, CloseHost
  <2>3. \A d \in Calls : Len(sq'[d]) <= QueueMax
    BY <1>0, <2>2
  <2>4. TypeCore'
    BY <1>0, <2>2, <2>3 DEF Types, TypeCore
  <2> QED
    BY <1>3, <1>5, <2>1, <2>4 DEF Types
<1>10. CASE NoRequest
  <2>1. TypeCore' /\ evq' = evq
    BY <1>10 DEF NoRequest, coreVars, linkVars, Types, TypeCore
  <2> QED
    BY <1>3, <1>5, <1>6, <2>1 DEF Types
<1>11. CASE DrainStreams
  <2>1. /\ evq' = evq \o AllItems /\ UNCHANGED <<inflight, retries, fut, next>>
        /\ sq' = [c \in Calls |-> IF c \in inflight THEN Drained(c) ELSE sq[c]]
    BY <1>11 DEF DrainStreams, AllItems
  <2>2. evq' \in Seq(Events)
    BY <1>7, <2>1, AllItemsFacts
  <2>3. \A c \in Calls : sq[c] \in Sequences1 /\ Len(sq[c]) <= QueueMax
    BY DEF Types, TypeCore
  <2>4. \A c \in Calls : Drained(c) \in Sequences1 /\ Len(Drained(c)) <= QueueMax
    <3> TAKE c \in Calls
    <3>1. /\ Len(sq[c]) \in Nat /\ Len(Taken(c)) \in 0..Len(sq[c])
          /\ Drained(c) \in Seq(1..Items) /\ Len(Drained(c)) = Len(sq[c]) - Len(Taken(c))
      BY TakenFacts, Zenon
    <3>2. Len(sq[c]) <= QueueMax /\ QueueMax \in Nat /\ Len(Taken(c)) \in Nat /\ Len(Taken(c)) <= Len(sq[c])
      BY <1>0, <2>3, <3>1
    <3> QED
      BY <3>1, <3>2 DEF Sequences1
  <2>5. sq' \in [Calls -> Sequences1] /\ \A c \in Calls : Len(sq'[c]) <= QueueMax
    BY <2>1, <2>3, <2>4
  <2>6. TypeCore'
    BY <2>1, <2>5 DEF Types, TypeCore
  <2> QED
    BY <1>3, <1>5, <2>2, <2>6 DEF Types
<1>12. CASE DrainCompleted
  <2>1. CASE \E c \in inflight : Complete(c) \/ GiveUp(c)
    <3>1. PICK c \in inflight : Complete(c) \/ GiveUp(c)
      BY <2>1
    <3>2. c \in Calls
      BY DEF Types, TypeCore
    <3>3. /\ \E status \in Finished \cup Errors : evq' = Closing(c, status)
          /\ sq' = [sq EXCEPT ![c] = <<>>] /\ inflight' = inflight \ {c}
          /\ fut' = [fut EXCEPT ![c] = "none"] /\ next' = [next EXCEPT ![c] = 1]
          /\ retries' = retries
      BY <3>1 DEF Complete, GiveUp, Closing, Errors
    <3>4. evq' \in Seq(Events)
      BY <1>7, <3>2, <3>3, CloseEvents
    <3>5. IsFiniteSet(inflight') /\ inflight' \subseteq Calls
      BY <3>3, FS_Subset DEF Types, TypeCore
    <3>6. sq' \in [Calls -> Sequences1] /\ \A d \in Calls : Len(sq'[d]) <= QueueMax
      BY <1>0, <3>2, <3>3 DEF Types, TypeCore
    <3>7. TypeCore'
      BY <1>0, <3>2, <3>3, <3>5, <3>6 DEF Types, TypeCore
    <3> QED
      BY <1>3, <1>5, <3>4, <3>7 DEF Types
  <2>2. CASE \E c \in inflight : Recover(c)
    <3>1. PICK c \in inflight : Recover(c)
      BY <2>2
    <3>2. c \in Calls /\ retries[c] \in 0..1
      BY DEF Types, TypeCore
    <3>3. /\ UNCHANGED <<evq, sq, inflight>> /\ retries[c] < 1
          /\ fut' = [fut EXCEPT ![c] = "queued"] /\ next' = [next EXCEPT ![c] = 1]
          /\ retries' = [retries EXCEPT ![c] = retries[c] + 1]
      BY <3>1 DEF Recover, Submit
    <3>4. TypeCore'
      BY <1>0, <3>2, <3>3 DEF Types, TypeCore
    <3> QED
      BY <1>3, <1>5, <1>6, <3>3, <3>4 DEF Types
  <2>3. CASE UNCHANGED <<evq, sq, inflight, pool, fut, next, retries>>
    <3>1. TypeCore'
      BY <2>3 DEF Types, TypeCore
    <3> QED
      BY <1>3, <1>5, <1>6, <2>3, <3>1 DEF Types
  <2> QED
    BY <1>12, <2>1, <2>2, <2>3, Zenon DEF DrainCompleted
<1>13. CASE \E late \in SUBSET Calls : Expire(late)
  <2>1. PICK late \in SUBSET Calls : Expire(late)
    BY <1>13
  <2>2. evq' \in Seq(Events)
    <3>1. late \subseteq inflight /\ evq' = evq \o SetToSeq({Answer(c, "error") : c \in late})
      BY <2>1 DEF Expire
    <3>2. SetToSeq({Answer(c, "error") : c \in late}) \in Seq(Events)
      BY <3>1, ErrorsFacts, Zenon
    <3> QED
      BY <1>7, <3>1, <3>2
  <2>3. /\ inflight' = inflight \ late /\ retries' = retries
        /\ sq' = [c \in Calls |-> IF c \in late THEN <<>> ELSE sq[c]]
        /\ next' = [c \in Calls |-> IF c \in late THEN 1 ELSE next[c]]
        /\ \E f \in ShutDown(fut) : fut' = [c \in Calls |-> IF c \in late THEN "none" ELSE f[c]]
    BY <2>1 DEF Expire
  <2>4. fut' \in [Calls -> Finished \cup {"none", "queued", "running", "broken", "cancelled"}]
    <3>1. ShutDown(fut) \subseteq [Calls -> Finished \cup {"none", "queued", "running", "broken", "cancelled"}]
      BY DEF ShutDown, Types, TypeCore
    <3> QED
      BY <2>3, <3>1
  <2>5. IsFiniteSet(inflight') /\ inflight' \subseteq Calls
    BY <2>3, FS_Subset DEF Types, TypeCore
  <2>6. sq' \in [Calls -> Sequences1] /\ \A d \in Calls : Len(sq'[d]) <= QueueMax
    BY <1>0, <2>3 DEF Types, TypeCore
  <2>7. next' \in [Calls -> 1..Items + 1]
    BY <1>0, <2>3 DEF Types, TypeCore
  <2>8. TypeCore'
    BY <2>3, <2>4, <2>5, <2>6, <2>7 DEF Types, TypeCore
  <2> QED
    BY <1>3, <1>5, <2>2, <2>8 DEF Types
<1> QED
  BY <1>8, <1>9, <1>10, <1>11, <1>12, <1>13, Zenon DEF LoopStep

\* Every step keeps the types.
LEMMA TypesStep ==
  ASSUME Types, [Next]_vars
  PROVE  Types'
BY StepsAre, CallTypes, NodeTypes, WorkTypes, LoopTypes, Zenon

-----------------------------------------------------------------------------
(* What one step does to one call *)

\* What the client and the consumer of c have does not change.
Kept(c) ==
  /\ response'[c] = response[c] /\ buffer'[c] = buffer[c] /\ got'[c] = got[c]
  /\ c \in skip' <=> c \in skip

\* The steps of c: it is counted, sent, takes an item, or is over with what it
\* was told, with an error or with nothing.
Counted(c) == pc[c] = "idle" /\ pc'[c] = "sending" /\ outcome'[c] = outcome[c] /\ Kept(c)
Sent(c) ==
  /\ pc[c] = "sending" /\ pc'[c] = "waiting" /\ host = "up"
  /\ outcome'[c] = outcome[c] /\ Kept(c)
ItemTaken(c) ==
  /\ pc[c] = "waiting" /\ pc'[c] = "waiting" /\ outcome'[c] = outcome[c]
  /\ c \in Streams /\ buffer[c] # <<>>
  /\ got'[c] = Append(got[c], Head(buffer[c])) /\ buffer'[c] = Tail(buffer[c])
  /\ response'[c] = response[c] /\ (c \in skip' <=> c \in skip)
OverEarly(c) ==
  /\ pc[c] \in {"idle", "sending"} /\ pc'[c] \in Over
  /\ outcome'[c] \in {outcome[c], "refused", "error"} /\ Kept(c)
OverWaiting(c) ==
  /\ pc[c] = "waiting" /\ pc'[c] \in Over
  /\ response'[c] = "none" /\ buffer'[c] = <<>> /\ got'[c] = got[c]
  /\ \/ /\ response[c] # "none" /\ outcome'[c] = response[c] /\ (c \in skip' <=> c \in skip)
        /\ c \in Streams => buffer[c] = <<>>
     \/ /\ outcome'[c] \in {outcome[c], "error"}
        /\ c \in skip' \/ (host = "down" /\ c \notin Streams)
OverAgain(c) ==
  /\ pc[c] = "finish" /\ pc'[c] \in Over /\ outcome'[c] = outcome[c] /\ Kept(c)

\* An action of a call does one of these things to it, and nothing to the others.
LEMMA CallEffect ==
  ASSUME Types, NEW c \in Calls, CallStep(c)
  PROVE  /\ UNCHANGED coreVars /\ UNCHANGED <<client, host, step, evq>>
         /\ (reqq' = reqq /\ ~Sent(c)) \/ (reqq' = Append(reqq, c) /\ Sent(c))
         /\ \A d \in Calls \ {c} : pc'[d] = pc[d] /\ outcome'[d] = outcome[d] /\ Kept(d)
         /\ \/ Counted(c) \/ Sent(c) \/ ItemTaken(c) \/ OverEarly(c) \/ OverWaiting(c)
            \/ OverAgain(c)
<1>1. UNCHANGED coreVars /\ UNCHANGED <<client, host, step, evq>>
  BY Zenon DEF CallStep, Invoke, InvokeStream, SendFails, Send, TakeResponse, TakeStreamed,
     WaitTimeout, ProcessDied, Disconnect, Finish, FinishStream, Return, linkVars
<1>2. /\ pc \in [Calls -> Steps] /\ DOMAIN outcome = Calls /\ DOMAIN response = Calls
      /\ DOMAIN buffer = Calls /\ DOMAIN got = Calls
  BY DEF Types, TypeNode, TypeLink
<1> USE DEF Kept, Over
<1>3. ASSUME NEW d \in Calls \ {c}
      PROVE  pc'[d] = pc[d] /\ outcome'[d] = outcome[d] /\ Kept(d)
  BY <1>2 DEF CallStep, Invoke, InvokeStream, Count, Refuse, SendFails, Send, TakeResponse, TakeStreamed,
     WaitTimeout, ProcessDied, Disconnect, Finish, FinishStream, Return, linkVars, Fail, Forget
<1>4. CASE Send(c)
  BY <1>1, <1>2, <1>3, <1>4 DEF Send, Sent
<1>5. CASE ~Send(c)
  <2>1. reqq' = reqq
    BY <1>5 DEF CallStep, Invoke, InvokeStream, SendFails, TakeResponse, TakeStreamed,
     WaitTimeout, ProcessDied, Disconnect, Finish, FinishStream, Return, linkVars
  <2>2. CASE Invoke(c) \/ InvokeStream(c)
    <3>1. Counted(c) \/ OverEarly(c)
      BY <1>2, <2>2 DEF Invoke, InvokeStream, Count, Refuse, linkVars, Counted, OverEarly
    <3> QED
      BY <1>1, <1>3, <2>1, <3>1 DEF Counted, OverEarly, Sent
  <2>3. CASE SendFails(c)
    <3>1. OverEarly(c)
      BY <1>2, <2>3 DEF SendFails, Fail, linkVars, OverEarly
    <3> QED
      BY <1>1, <1>3, <2>1, <3>1 DEF OverEarly, Sent
  <2>4. CASE TakeResponse(c) \/ WaitTimeout(c) \/ ProcessDied(c)
    <3>1. OverWaiting(c)
      BY <1>2, <2>4 DEF TakeResponse, WaitTimeout, ProcessDied, Fail, Forget, OverWaiting
    <3> QED
      BY <1>1, <1>3, <2>1, <3>1 DEF OverWaiting, Sent
  <2>5. CASE TakeStreamed(c)
    <3>1. ItemTaken(c) \/ OverWaiting(c)
      BY <1>2, <2>5 DEF TakeStreamed, Fail, Forget, OverWaiting, ItemTaken
    <3> QED
      BY <1>1, <1>3, <2>1, <3>1 DEF OverWaiting, ItemTaken, Sent
  <2>6. CASE Disconnect(c)
    <3>1. OverEarly(c) \/ OverWaiting(c) \/ OverAgain(c)
      BY <1>2, <2>6 DEF Disconnect, Waiting, Forget, OverWaiting, OverEarly, OverAgain
    <3> QED
      BY <1>1, <1>3, <2>1, <3>1 DEF OverWaiting, OverEarly, OverAgain, Sent
  <2>7. CASE Finish(c) \/ FinishStream(c)
    <3>1. OverAgain(c)
      BY <1>2, <2>7 DEF Finish, FinishStream, Return, linkVars, OverAgain
    <3> QED
      BY <1>1, <1>3, <2>1, <3>1 DEF OverAgain, Sent
  <2> QED
    BY <1>5, <2>2, <2>3, <2>4, <2>5, <2>6, <2>7, Zenon DEF CallStep
<1> QED
  BY <1>4, <1>5

-----------------------------------------------------------------------------
(* What is under way between the node and its host *)

Path == Protocol /\ Tracked /\ Waits /\ Leaves

\* What is done stays done, and the client is not concerned.
LEMMA ClientStays ==
  ASSUME Waits, Leaves, UNCHANGED <<nodeVars, response, buffer, skip>>, host' \in {host, "down"},
         \A c \in Calls : Done(c) => Done(c)'
  PROVE  Waits' /\ Leaves'
<1>1. Waits'
  BY DEF Waits, nodeVars
<1>2. Leaves'
  BY DEF Leaves, nodeVars
<1> QED
  BY <1>1, <1>2

\* The host says F, at the end of the events: an answer only of a call that is
\* no longer in flight, and nothing after it.
LEMMA HostSays ==
  ASSUME Types, Protocol, NEW F \in Seq(Events), evq' = evq \o F,
         reqq' \in {reqq, <<>>}, inflight' \subseteq inflight,
         \A x \in DOMAIN F : /\ F[x].call \in inflight
                             /\ F[x].item = 0 => /\ F[x].call \notin inflight'
                                                 /\ \A y \in DOMAIN F : y > x => F[y].call # F[x].call,
         UNCHANGED <<nodeVars, response, buffer, skip>>
  PROVE  Protocol' /\ \A c \in Calls : Done(c) => Done(c)'
<1>1. /\ DOMAIN evq = 1..Len(evq) /\ Len(evq) \in Nat /\ Len(F) \in Nat /\ DOMAIN F = 1..Len(F)
      /\ DOMAIN evq' = 1..(Len(evq) + Len(F))
      /\ \A k \in 1..Len(evq) : evq'[k] = evq[k]
      /\ \A k \in 1..Len(F) : evq'[Len(evq) + k] = F[k]
  <2>1. evq \in Seq(Events)
    BY DEF Types, TypeLink
  <2> QED
    BY <2>1, Concat
<1>2. \A k \in DOMAIN evq' : k \in DOMAIN evq \/ (k - Len(evq) \in DOMAIN F /\ evq'[k] = F[k - Len(evq)])
  <2> TAKE k \in DOMAIN evq'
  <2>1. k \in 1..Len(evq) \/ (k - Len(evq) \in 1..Len(F) /\ Len(evq) + (k - Len(evq)) = k)
    BY <1>1
  <2> QED
    BY <1>1, <2>1
<1>3. \A c \in Calls : c \notin inflight /\ ~Told(c) => ~Told(c)'
  BY <1>1, <1>2 DEF Told
<1>4. \A k \in DOMAIN reqq' : k \in DOMAIN reqq /\ reqq'[k] = reqq[k]
  OBVIOUS
<1>5. \A c \in Calls : ~Queued(c) => ~Queued(c)'
  BY <1>4 DEF Queued
<1>6. \A k \in DOMAIN reqq : reqq[k] # "stop" => reqq[k] \in Calls
  BY DEF Types, TypeLink
<1>7. AskedOnce'
  BY <1>3, <1>4, <1>6 DEF Protocol, AskedOnce, nodeVars
<1>8. AnswerLast'
  <2> SUFFICES ASSUME NEW k \in DOMAIN evq', evq'[k].item = 0
               PROVE  /\ evq'[k].call \notin inflight'
                      /\ \A l \in DOMAIN evq' : l > k => evq'[l].call # evq'[k].call
    BY DEF AnswerLast
  <2>1. CASE k \in DOMAIN evq
    <3>1. evq'[k] = evq[k]
      BY <1>1, <2>1
    <3>2. /\ evq[k].call \notin inflight
          /\ \A l \in DOMAIN evq : l > k => evq[l].call # evq[k].call
      BY <2>1, <3>1 DEF Protocol, AnswerLast
    <3>3. \A l \in DOMAIN evq' : l > k => evq'[l].call # evq[k].call
      BY <1>1, <1>2, <3>2
    <3> QED
      BY <3>1, <3>2, <3>3
  <2>2. CASE k - Len(evq) \in DOMAIN F /\ evq'[k] = F[k - Len(evq)]
    <3> DEFINE x == k - Len(evq)
    <3>1. /\ F[x].call \notin inflight' /\ x \in DOMAIN F
          /\ \A y \in DOMAIN F : y > x => F[y].call # F[x].call
      BY <2>2
    <3>2. ASSUME NEW l \in DOMAIN evq', l > k PROVE evq'[l].call # F[x].call
      <4>1. l - Len(evq) \in 1..Len(F) /\ Len(evq) + (l - Len(evq)) = l /\ l - Len(evq) > x
        BY <1>1, <2>2, <3>2
      <4> QED
        BY <1>1, <3>1, <4>1
    <3> QED
      BY <2>2, <3>1, <3>2
  <2> QED
    BY <1>2, <2>1, <2>2
<1>9. \A c \in Calls : Done(c) => Done(c)'
  BY <1>3, <1>5 DEF Done
<1>10. Untouched'
  BY <1>9 DEF Protocol, Untouched, nodeVars
<1> QED
  BY <1>7, <1>8, <1>9, <1>10 DEF Protocol

\* The host, or the client, has a call and answers it when its queue gives it.
LEMMA HandlePath ==
  ASSUME Types, Path, NEW c \in Calls, HandleCall(c)
  PROVE  Path'
<1> DEFINE n == Len(reqq)
<1>1. /\ n \in Nat /\ 1 <= n /\ DOMAIN reqq = 1..n /\ reqq[1] = c
      /\ DOMAIN reqq' = 1..(n - 1) /\ \A k \in 1..(n - 1) : reqq'[k] = reqq[k + 1]
  <2>1. reqq \in Seq(Calls \cup {"stop"}) /\ reqq # <<>> /\ Head(reqq) = c /\ reqq' = Tail(reqq)
    BY DEF Types, TypeLink, HandleCall
  <2> QED
    BY <2>1, HeadAndTail
<1> HIDE DEF n
<1>2. UNCHANGED <<nodeVars, response, buffer, skip, retries, sq, host>> /\ host = "up"
  BY DEF HandleCall
<1>3. c # "stop" /\ \A k \in DOMAIN reqq : reqq[k] # "stop" => reqq[k] \in Calls
  BY SizesAssumption DEF Types, TypeLink
<1>4. \A k \in DOMAIN reqq' : k + 1 \in DOMAIN reqq /\ k + 1 # 1 /\ reqq'[k] = reqq[k + 1]
  BY <1>1
<1>5. /\ \A k \in 2..n : reqq[k] # c
      /\ c \notin inflight /\ ~Told(c) /\ got[c] = <<>> /\ buffer[c] = <<>>
  <2>1. reqq[1] # "stop" /\ 1 \in DOMAIN reqq
    BY <1>1, <1>3
  <2>2. /\ \A l \in DOMAIN reqq : l # 1 => reqq[l] # reqq[1]
        /\ reqq[1] \notin inflight /\ ~Told(reqq[1])
        /\ got[reqq[1]] = <<>> /\ buffer[reqq[1]] = <<>>
    BY <2>1 DEF Path, Protocol, AskedOnce
  <2> QED
    BY <1>1, <2>2
<1>6. ~Queued(c)' /\ \A d \in Calls : ~Queued(d) => ~Queued(d)'
  BY <1>1, <1>4, <1>5 DEF Queued
<1>7. \A d \in Calls : d # c => (d \in inflight' <=> d \in inflight)
  BY DEF HandleCall
<1>8. \/ evq' = evq /\ inflight' = inflight \cup {c}
      \/ evq' = Append(evq, Answer(c, "error")) /\ inflight' = inflight
  BY DEF HandleCall
<1>9. /\ evq \in Seq(Events) /\ DOMAIN evq = 1..Len(evq) /\ Len(evq) \in Nat
      /\ Answer(c, "error") \in Events
  BY SizesAssumption DEF Types, TypeLink, Answer, Events, Errors
<1>10. \/ evq' = evq /\ inflight' = inflight \cup {c}
       \/ /\ DOMAIN evq' = 1..(Len(evq) + 1)
          /\ \A k \in 1..Len(evq) : evq'[k] = evq[k]
          /\ evq'[Len(evq) + 1].call = c
          /\ inflight' = inflight
  <2>1. CASE evq' = Append(evq, Answer(c, "error")) /\ inflight' = inflight
    <3>1. PICK e \in Events : e = Answer(c, "error")
      BY <1>9
    <3>2. evq' = Append(evq, e) /\ e.call = c
      BY <2>1, <3>1 DEF Answer
    <3>3. /\ DOMAIN Append(evq, e) = 1..(Len(evq) + 1)
          /\ \A k \in 1..Len(evq) : Append(evq, e)[k] = evq[k]
          /\ Append(evq, e)[Len(evq) + 1] = e
      BY <1>9, OneMore
    <3> QED
      BY <2>1, <3>2, <3>3
  <2> QED
    BY <1>8, <2>1
<1>11. \A d \in Calls : d # c /\ ~Told(d) => ~Told(d)'
  BY <1>9, <1>10 DEF Told
<1>12. \A d \in Calls : Done(d) => Done(d)'
  <2>1. Queued(c)
    BY <1>1 DEF Queued
  <2> QED
    BY <1>6, <1>7, <1>11, <2>1 DEF Done
<1>13. Waits' /\ Leaves'
  BY <1>2, <1>12, ClientStays DEF Path
<1>14. AskedOnce'
  <2>1. ASSUME NEW k \in DOMAIN reqq', NEW d \in Calls, d = reqq'[k]
        PROVE  /\ \A l \in DOMAIN reqq' : l # k => reqq'[l] # d
               /\ d \notin inflight' /\ ~(Told(d)')
               /\ got[d] = <<>> /\ buffer[d] = <<>>
    <3>1. k + 1 \in DOMAIN reqq /\ reqq[k + 1] = d /\ d # c /\ d # "stop"
      <4>1. k + 1 \in DOMAIN reqq /\ k + 1 \in 2..n /\ reqq[k + 1] = d
        BY <1>1, <1>4, <2>1
      <4> QED
        BY <1>5, <4>1, SizesAssumption
    <3>2. /\ \A l \in DOMAIN reqq : l # k + 1 => reqq[l] # d
          /\ d \notin inflight /\ ~Told(d) /\ got[d] = <<>> /\ buffer[d] = <<>>
      BY <3>1 DEF Path, Protocol, AskedOnce
    <3>3. \A l \in DOMAIN reqq' : l # k => reqq'[l] # d
      BY <1>1, <1>4, <2>1, <3>2
    <3> QED
      BY <1>7, <1>11, <3>1, <3>2, <3>3
  <2>2. \A k \in DOMAIN reqq' : reqq'[k] # "stop" => reqq'[k] \in Calls
    BY <1>3, <1>4
  <2> QED
    BY <1>2, <2>1, <2>2 DEF AskedOnce, nodeVars, Told
<1>15. AnswerLast'
  <2>1. \A k \in DOMAIN evq : evq[k].call # c
    BY <1>5 DEF Told
  <2> QED
    BY <1>5, <1>9, <1>10, <2>1 DEF Path, Protocol, AnswerLast
<1>16. Untouched'
  BY <1>2, <1>12 DEF Path, Protocol, Untouched, nodeVars
<1>17. Tracked'
  <2>1. /\ DOMAIN fut = Calls /\ DOMAIN next = Calls
    BY DEF Types, TypeCore
  <2>2. \A d \in Calls \ inflight' : d # c => fut'[d] = fut[d] /\ next'[d] = next[d] /\ d \notin inflight
    BY <1>7, <2>1 DEF HandleCall, Submit
  <2>3. c \notin inflight' => fut' = fut /\ next' = next
    BY DEF HandleCall
  <2> QED
    BY <1>2, <1>5, <2>2, <2>3 DEF Path, Tracked
<1> QED
  BY <1>13, <1>14, <1>15, <1>16, <1>17 DEF Path, Protocol

\* The client reads an item or the answer of c.
Dropped(c, i) ==
  /\ c \in skip /\ response'[c] = response[c] /\ buffer'[c] = buffer[c]
  /\ c \in skip' <=> i > 0
Answered(c, s) ==
  c \notin skip /\ c \notin skip' /\ response'[c] = s /\ buffer'[c] = buffer[c]
Buffered(c, i) ==
  /\ c \notin skip /\ c \notin skip' /\ response'[c] = response[c]
  /\ buffer'[c] = Append(buffer[c], i)
Overflowed(c) ==
  c \notin skip /\ c \in skip' /\ response'[c] = "error" /\ buffer'[c] = <<>>

\* The reader does one of these things to the call of the first event.
LEMMA ReadEffect ==
  ASSUME Types, Read
  PROVE  \E c \in Calls, i \in 0..Items, s \in Finished \cup Errors \cup {"none"} :
            /\ evq # <<>> /\ evq[1] = [call |-> c, item |-> i, status |-> s]
            /\ DOMAIN evq = 1..Len(evq) /\ Len(evq) \in Nat /\ 1 <= Len(evq)
            /\ evq' = Tail(evq) /\ DOMAIN evq' = 1..(Len(evq) - 1)
            /\ \A k \in 1..(Len(evq) - 1) : evq'[k] = evq[k + 1]
            /\ UNCHANGED <<nodeVars, reqq, coreVars, client, host, step>>
            /\ \A d \in Calls \ {c} : Kept(d)
            /\ got' = got
            /\ \/ Dropped(c, i)
               \/ i = 0 /\ Answered(c, s)
               \/ i > 0 /\ (Buffered(c, i) \/ Overflowed(c))
<1>1. /\ evq # <<>> /\ evq' = Tail(evq) /\ evq \in Seq(Events)
  BY DEF Read, Types, TypeLink
<1>2. /\ DOMAIN evq = 1..Len(evq) /\ Len(evq) \in Nat /\ 1 <= Len(evq)
      /\ Head(evq) = evq[1] /\ Head(evq) \in Events
      /\ DOMAIN evq' = 1..(Len(evq) - 1)
      /\ \A k \in 1..(Len(evq) - 1) : evq'[k] = evq[k + 1]
  BY <1>1, HeadAndTail
<1> DEFINE e == Head(evq)
           c == e.call
           i == e.item
           s == e.status
<1>3. /\ c \in Calls /\ i \in 0..Items /\ s \in Finished \cup Errors \cup {"none"}
      /\ evq[1] = [call |-> c, item |-> i, status |-> s]
  BY <1>2 DEF Events
<1>4. DOMAIN response = Calls /\ DOMAIN buffer = Calls
  BY DEF Types, TypeLink
<1>5. \/ c \in skip /\ skip' = (IF i > 0 THEN skip ELSE skip \ {c}) /\ UNCHANGED <<response, buffer>>
      \/ c \notin skip /\ i = 0 /\ response' = [response EXCEPT ![c] = s] /\ UNCHANGED <<buffer, skip>>
      \/ c \notin skip /\ i > 0 /\ buffer' = [buffer EXCEPT ![c] = Append(@, i)] /\ UNCHANGED <<response, skip>>
      \/ /\ c \notin skip /\ i > 0 /\ skip' = skip \cup {c}
         /\ buffer' = [buffer EXCEPT ![c] = <<>>] /\ response' = [response EXCEPT ![c] = "error"]
  BY Zenon DEF Read
<1>6. /\ UNCHANGED <<nodeVars, reqq, coreVars, client, host, step>> /\ got' = got
  BY DEF Read, nodeVars
<1> HIDE DEF c, i, s
<1>7. \A d \in Calls \ {c} : Kept(d)
  BY <1>4, <1>5, <1>6 DEF Kept
<1>8. \/ Dropped(c, i)
      \/ i = 0 /\ Answered(c, s)
      \/ i > 0 /\ (Buffered(c, i) \/ Overflowed(c))
  BY <1>3, <1>4, <1>5, <1>6 DEF Dropped, Answered, Buffered, Overflowed
<1> QED
  BY <1>1, <1>2, <1>3, <1>6, <1>7, <1>8

\* What the client reads is no longer under way; an answer is the last of its call.
LEMMA ReadPath ==
  ASSUME Types, Path, Read
  PROVE  Path'
<1>1. PICK c \in Calls, i \in 0..Items, s \in Finished \cup Errors \cup {"none"} :
            /\ evq # <<>> /\ evq[1] = [call |-> c, item |-> i, status |-> s]
            /\ DOMAIN evq = 1..Len(evq) /\ Len(evq) \in Nat /\ 1 <= Len(evq)
            /\ evq' = Tail(evq) /\ DOMAIN evq' = 1..(Len(evq) - 1)
            /\ \A k \in 1..(Len(evq) - 1) : evq'[k] = evq[k + 1]
            /\ UNCHANGED <<nodeVars, reqq, coreVars, client, host, step>>
            /\ \A d \in Calls \ {c} : Kept(d)
            /\ got' = got
            /\ \/ Dropped(c, i)
               \/ i = 0 /\ Answered(c, s)
               \/ i > 0 /\ (Buffered(c, i) \/ Overflowed(c))
  BY ReadEffect, Zenon
<1>2. evq[1].call = c /\ evq[1].item = i /\ 1 \in DOMAIN evq
  BY <1>1
<1>3. Told(c)
  BY <1>2 DEF Told
<1>4. \A k \in DOMAIN evq' : k + 1 \in DOMAIN evq /\ k + 1 > 1 /\ evq'[k] = evq[k + 1]
  BY <1>1
<1>5. \A d \in Calls : ~Told(d) => ~Told(d)'
  BY <1>4 DEF Told
<1>6. \A d \in Calls : Done(d) => Done(d)'
  BY <1>1, <1>5 DEF Done, Queued, coreVars
<1>7. ~Queued(c)
  <2> SUFFICES ASSUME NEW k \in DOMAIN reqq, reqq[k] = c PROVE FALSE
    BY DEF Queued
  <2>1. c # "stop"
    BY SizesAssumption
  <2> QED
    BY <1>3, <2>1 DEF Path, Protocol, AskedOnce
<1>8. i = 0 => Done(c)'
  <2>1. i = 0 => /\ c \notin inflight /\ \A l \in DOMAIN evq : l > 1 => evq[l].call # c
    BY <1>2 DEF Path, Protocol, AnswerLast
  <2>2. i = 0 => ~Told(c)'
    BY <1>4, <2>1 DEF Told
  <2> QED
    BY <1>1, <1>7, <2>1, <2>2 DEF Done, Queued, coreVars
<1>9. pc[c] \notin {"idle", "sending"} /\ pc' = pc /\ host' = host
  BY <1>1, <1>3 DEF Path, Protocol, Untouched, Done, nodeVars
<1>10. AskedOnce'
  <2>1. ASSUME NEW k \in DOMAIN reqq, reqq[k] # "stop"
        PROVE  Kept(reqq[k]) /\ reqq[k] \in Calls
    <3>1. reqq[k] # c
      BY <1>7, <2>1 DEF Queued
    <3>2. reqq[k] \in Calls
      BY <2>1 DEF Types, TypeLink
    <3> QED
      BY <1>1, <3>1, <3>2
  <2>2. \A d \in Calls : Kept(d) => got'[d] = got[d] /\ buffer'[d] = buffer[d]
    BY DEF Kept
  <2> QED
    BY <1>1, <1>5, <2>1, <2>2 DEF Path, Protocol, AskedOnce, coreVars
<1>11. AnswerLast'
  <2> SUFFICES ASSUME NEW k \in DOMAIN evq', evq'[k].item = 0
               PROVE  /\ evq'[k].call \notin inflight
                      /\ \A l \in DOMAIN evq' : l > k => evq'[l].call # evq'[k].call
    BY <1>1 DEF AnswerLast, coreVars
  <2>1. k + 1 \in DOMAIN evq /\ evq'[k] = evq[k + 1]
    BY <1>4
  <2>2. /\ evq[k + 1].call \notin inflight
        /\ \A l \in DOMAIN evq : l > k + 1 => evq[l].call # evq[k + 1].call
    BY <2>1 DEF Path, Protocol, AnswerLast
  <2>3. \A l \in DOMAIN evq' : l > k => evq'[l].call # evq[k + 1].call
    BY <1>1, <1>4, <2>2
  <2> QED
    BY <2>1, <2>2, <2>3
<1>12. Untouched'
  <2>1. \A d \in Calls : pc[d] \in {"idle", "sending"} => Kept(d)
    BY <1>1, <1>9
  <2> QED
    BY <1>6, <1>9, <2>1 DEF Path, Protocol, Untouched, Kept
<1>13. Tracked'
  BY <1>1 DEF Path, Tracked, coreVars
<1>14. Waits'
  <2> SUFFICES ASSUME NEW d \in Calls, pc[d] = "waiting", response'[d] # "none"
               PROVE  Done(d)' \/ d \in skip'
    BY <1>9 DEF Waits
  <2>1. CASE d # c
    <3>1. Kept(d)
      BY <1>1, <2>1
    <3> QED
      BY <1>6, <3>1 DEF Path, Waits, Kept
  <2>2. CASE d = c
    <3>1. i = 0 => Done(d)'
      BY <1>8, <2>2
    <3>2. i > 0 /\ Buffered(c, i) => d \in skip
      BY <1>3, <2>2 DEF Buffered, Path, Waits, Done
    <3>3. i > 0 \/ i = 0
      BY SizesAssumption
    <3> QED
      BY <1>1, <2>2, <3>1, <3>2, <3>3 DEF Dropped, Buffered, Overflowed
  <2> QED
    BY <2>1, <2>2
<1>15. Leaves'
  <2> SUFFICES ASSUME NEW d \in Calls, pc[d] \in Over, host = "up" \/ d \in Streams
               PROVE  /\ response'[d] = "none" /\ buffer'[d] = <<>>
                      /\ Done(d)' \/ d \in skip'
    BY <1>9 DEF Leaves
  <2>0. response[d] = "none" /\ buffer[d] = <<>> /\ (Done(d) \/ d \in skip)
    BY DEF Path, Leaves
  <2>1. CASE d # c
    <3>1. Kept(d)
      BY <1>1, <2>1
    <3> QED
      BY <1>6, <2>0, <3>1 DEF Kept
  <2>2. CASE d = c
    <3>1. d \in skip
      BY <1>3, <2>0, <2>2 DEF Done
    <3>2. Dropped(c, i) /\ (i > 0 \/ i = 0)
      BY <1>1, <2>2, <3>1, SizesAssumption DEF Answered, Buffered, Overflowed
    <3> QED
      BY <1>8, <2>0, <2>2, <3>2 DEF Dropped
  <2> QED
    BY <2>1, <2>2
<1> QED
  BY <1>10, <1>11, <1>12, <1>13, <1>14, <1>15 DEF Path, Protocol

\* A call is put on its way once, and leaves nothing in the client when its wait ends.
LEMMA CallPath ==
  ASSUME Types, Path, NEW c \in Calls, CallStep(c)
  PROVE  Path'
<1>1. /\ UNCHANGED coreVars /\ UNCHANGED <<client, host, step, evq>>
      /\ (reqq' = reqq /\ ~Sent(c)) \/ (reqq' = Append(reqq, c) /\ Sent(c))
      /\ \A d \in Calls \ {c} : pc'[d] = pc[d] /\ outcome'[d] = outcome[d] /\ Kept(d)
      /\ \/ Counted(c) \/ Sent(c) \/ ItemTaken(c) \/ OverEarly(c) \/ OverWaiting(c)
         \/ OverAgain(c)
  BY CallEffect, Zenon
<1>2. \A d \in Calls : ~Told(d) => ~Told(d)'
  BY <1>1 DEF Told
<1>3. reqq \in Seq(Calls \cup {"stop"}) /\ c # "stop" /\ c \in Calls \cup {"stop"}
  BY SizesAssumption DEF Types, TypeLink
<1>4. \/ reqq' = reqq /\ ~Sent(c)
      \/ /\ Sent(c) /\ DOMAIN reqq = 1..Len(reqq) /\ Len(reqq) \in Nat
         /\ DOMAIN reqq' = 1..(Len(reqq) + 1)
         /\ \A k \in 1..Len(reqq) : reqq'[k] = reqq[k]
         /\ reqq'[Len(reqq) + 1] = c
  BY <1>1, <1>3, OneMore
<1>5. \A d \in Calls : Done(d) => Done(d)' \/ (d = c /\ Sent(c))
  BY <1>1, <1>2, <1>4 DEF Done, Queued, coreVars
<1>6. Sent(c) => Done(c) /\ got[c] = <<>> /\ buffer[c] = <<>> /\ response[c] = "none"
  BY DEF Sent, Path, Protocol, Untouched
<1>7. \A d \in Calls : got[d] = <<>> /\ buffer[d] = <<>> => got'[d] = <<>> /\ buffer'[d] = <<>>
  BY <1>1 DEF Kept, Counted, Sent, ItemTaken, OverEarly, OverWaiting, OverAgain
<1>8. AskedOnce'
  <2>1. ASSUME NEW k \in DOMAIN reqq', NEW d \in Calls, d = reqq'[k]
        PROVE  /\ \A l \in DOMAIN reqq' : l # k => reqq'[l] # d
               /\ d \notin inflight /\ ~Told(d) /\ got[d] = <<>> /\ buffer[d] = <<>>
    <3>1. d # "stop"
      BY SizesAssumption
    <3>2. CASE reqq' = reqq
      BY <2>1, <3>1, <3>2 DEF Path, Protocol, AskedOnce
    <3>3. CASE reqq' # reqq /\ d = c
      <4>1. ~Queued(c) /\ d \notin inflight /\ ~Told(d) /\ got[d] = <<>> /\ buffer[d] = <<>>
        BY <1>4, <1>6, <3>3 DEF Done
      <4>2. \A l \in DOMAIN reqq' : l # k => reqq'[l] # d
        <5>1. \A l \in DOMAIN reqq : reqq[l] # c
          BY <4>1 DEF Queued
        <5>2. \A l \in 1..Len(reqq) : l \in DOMAIN reqq' /\ reqq'[l] # c
          BY <1>4, <3>3, <5>1
        <5>3. \A l \in DOMAIN reqq' : l \in 1..Len(reqq) \/ l = Len(reqq) + 1
          BY <1>4, <3>3
        <5> QED
          BY <2>1, <3>3, <5>2, <5>3
      <4> QED
        BY <4>1, <4>2
    <3>4. CASE reqq' # reqq /\ d # c
      <4>1. k \in DOMAIN reqq /\ reqq[k] = d
        BY <1>4, <2>1, <3>4
      <4>2. /\ \A l \in DOMAIN reqq : l # k => reqq[l] # d
            /\ d \notin inflight /\ ~Told(d) /\ got[d] = <<>> /\ buffer[d] = <<>>
        BY <3>1, <4>1 DEF Path, Protocol, AskedOnce
      <4> QED
        BY <1>4, <3>4, <4>2
    <3> QED
      BY <3>2, <3>3, <3>4
  <2>2. \A k \in DOMAIN reqq' : reqq'[k] # "stop" => reqq'[k] \in Calls
    BY <1>3, <1>4
  <2>3. ASSUME NEW k \in DOMAIN reqq', reqq'[k] # "stop"
        PROVE  /\ \A l \in DOMAIN reqq' : l # k => reqq'[l] # reqq'[k]
               /\ reqq'[k] \notin inflight' /\ (~\E l \in DOMAIN evq' : evq'[l].call = reqq'[k])
               /\ got'[reqq'[k]] = <<>> /\ buffer'[reqq'[k]] = <<>>
    <3>1. PICK d \in Calls : d = reqq'[k]
      BY <2>2, <2>3
    <3> QED
      BY <1>1, <1>7, <2>1, <3>1 DEF Told, coreVars
  <2> QED
    BY <2>3 DEF AskedOnce, Told
<1>9. AnswerLast'
  BY <1>1 DEF Path, Protocol, AnswerLast, coreVars
<1>10. Untouched'
  <2> SUFFICES ASSUME NEW d \in Calls, pc'[d] \in {"idle", "sending"}
               PROVE  /\ Done(d)' /\ d \notin skip'
                      /\ response'[d] = "none" /\ buffer'[d] = <<>> /\ got'[d] = <<>>
    BY DEF Untouched
  <2>1. pc[d] \in {"idle", "sending"} /\ Kept(d) /\ (d # c \/ ~Sent(c))
    BY <1>1 DEF Kept, Counted, Sent, ItemTaken, OverEarly, OverWaiting, OverAgain, Over
  <2> QED
    BY <1>5, <2>1 DEF Kept, Path, Protocol, Untouched
<1>11. Tracked'
  BY <1>1 DEF Path, Tracked, coreVars, Sent
<1>12. Waits'
  <2> SUFFICES ASSUME NEW d \in Calls, pc'[d] = "waiting", response'[d] # "none"
               PROVE  Done(d)' \/ d \in skip'
    BY DEF Waits
  <2>1. /\ pc[d] = "waiting" /\ response[d] # "none" /\ (d \in skip' <=> d \in skip)
        /\ d # c \/ ~Sent(c)
    BY <1>1, <1>6 DEF Kept, Counted, Sent, ItemTaken, OverEarly, OverWaiting, OverAgain, Over
  <2> QED
    BY <1>5, <2>1 DEF Path, Waits
<1>13. Leaves'
  <2> SUFFICES ASSUME NEW d \in Calls, pc'[d] \in Over, host = "up" \/ d \in Streams
               PROVE  /\ response'[d] = "none" /\ buffer'[d] = <<>>
                      /\ Done(d)' \/ d \in skip'
    BY <1>1 DEF Leaves
  <2>0. d # c \/ ~Sent(c)
    BY DEF Sent, Over
  <2>1. CASE d # c \/ OverAgain(c)
    <3>1. pc[d] \in Over /\ Kept(d)
      BY <1>1, <2>1 DEF OverAgain, Over
    <3> QED
      BY <1>5, <2>0, <3>1 DEF Path, Leaves, Kept
  <2>2. CASE d = c /\ OverEarly(c)
    BY <1>5, <2>0, <2>2 DEF Path, Protocol, Untouched, OverEarly, Kept
  <2>3. CASE d = c /\ OverWaiting(c)
    <3>1. response'[c] = "none" /\ buffer'[c] = <<>>
      BY <2>3 DEF OverWaiting
    <3>2. c \in skip' \/ (response[c] # "none" /\ pc[c] = "waiting" /\ (c \in skip' <=> c \in skip))
      BY <2>3 DEF OverWaiting
    <3> QED
      BY <1>5, <2>0, <2>3, <3>1, <3>2 DEF Path, Waits
  <2>4. d = c => OverEarly(c) \/ OverWaiting(c) \/ OverAgain(c)
    BY <1>1 DEF Counted, Sent, ItemTaken, Over
  <2> QED
    BY <2>1, <2>2, <2>3, <2>4
<1> QED
  BY <1>8, <1>9, <1>10, <1>11, <1>12, <1>13 DEF Path, Protocol

\* The node takes the client away, or replaces a dead host and what it had said.
LEMMA NodePath ==
  ASSUME Types, Path, NodeStep \/ UNCHANGED vars
  PROVE  Path'
<1>1. CASE StopService \/ ForgetService \/ UNCHANGED vars
  <2>1. UNCHANGED <<linkVars, coreVars, pc, got, host>>
    BY <1>1 DEF StopService, ForgetService, vars, nodeVars
  <2>2. \A c \in Calls : Done(c)' <=> Done(c)
    BY <2>1 DEF Done, Queued, Told, linkVars, coreVars
  <2>3. AskedOnce' /\ AnswerLast'
    BY <2>1 DEF Path, Protocol, AskedOnce, AnswerLast, Told, linkVars, coreVars
  <2>4. Untouched' /\ Waits' /\ Leaves'
    BY <2>1, <2>2 DEF Path, Protocol, Untouched, Waits, Leaves, linkVars
  <2>5. Tracked'
    BY <2>1 DEF Path, Tracked, linkVars, coreVars
  <2> QED
    BY <2>3, <2>4, <2>5 DEF Path, Protocol
<1>2. CASE StopExecutor
  <2>1. UNCHANGED <<nodeVars, evq, response, buffer, skip, coreVars, host>>
        /\ reqq' = (IF host = "up" THEN Append(reqq, "stop") ELSE reqq)
    BY <1>2 DEF StopExecutor
  <2>2. reqq \in Seq(Calls \cup {"stop"}) /\ "stop" \in Calls \cup {"stop"}
    BY DEF Types, TypeLink
  <2>3. \/ reqq' = reqq
        \/ /\ DOMAIN reqq = 1..Len(reqq) /\ Len(reqq) \in Nat
           /\ DOMAIN reqq' = 1..(Len(reqq) + 1)
           /\ \A k \in 1..Len(reqq) : reqq'[k] = reqq[k]
           /\ reqq'[Len(reqq) + 1] = "stop"
    BY <2>1, <2>2, OneMore
  <2>4. \A k \in DOMAIN reqq' : reqq'[k] # "stop" => k \in DOMAIN reqq /\ reqq'[k] = reqq[k]
    BY <2>3
  <2>5. \A c \in Calls : Done(c) => Done(c)'
    BY <2>1, <2>4, SizesAssumption DEF Done, Queued, Told, coreVars
  <2>6. AskedOnce'
    BY <2>1, <2>4 DEF Path, Protocol, AskedOnce, Told, nodeVars, coreVars
  <2>7. AnswerLast' /\ Untouched'
    BY <2>1, <2>5 DEF Path, Protocol, AnswerLast, Untouched, nodeVars, coreVars
  <2>8. Waits' /\ Leaves'
    BY <2>1, <2>5, ClientStays DEF Path
  <2>9. Tracked'
    BY <2>1 DEF Path, Tracked, coreVars
  <2> QED
    BY <2>6, <2>7, <2>8, <2>9 DEF Path, Protocol
<1>3. CASE RebuildHost
  <2>1. /\ evq' = <<>> /\ skip' = {} /\ host = "down"
        /\ response' = [c \in Calls |-> "none"] /\ buffer' = [c \in Calls |-> <<>>]
        /\ UNCHANGED <<pc, got, reqq, inflight, retries, fut, next, sq>>
    BY <1>3 DEF RebuildHost
  <2>2. inflight = {} /\ reqq = <<>>
    BY <2>1 DEF Path, Tracked
  <2>3. \A c \in Calls : Done(c)'
    BY <2>1, <2>2 DEF Done, Queued, Told
  <2>4. AskedOnce' /\ AnswerLast'
    BY <2>1, <2>2 DEF AskedOnce, AnswerLast
  <2>5. Untouched'
    BY <2>1, <2>3 DEF Path, Protocol, Untouched
  <2>6. Waits' /\ Leaves'
    BY <2>1, <2>3 DEF Waits, Leaves
  <2>7. Tracked'
    BY <2>1, <2>2 DEF Path, Tracked
  <2> QED
    BY <2>4, <2>5, <2>6, <2>7 DEF Path, Protocol
<1> QED
  BY <1>1, <1>2, <1>3, Zenon DEF NodeStep

\* A step of the host that says nothing does not concern the client.
LEMMA NothingSaid ==
  ASSUME Types, Path, evq' = evq, reqq' \in {reqq, <<>>}, inflight' \subseteq inflight,
         UNCHANGED <<nodeVars, response, buffer, skip>>, host' \in {host, "down"}
  PROVE  Protocol' /\ Waits' /\ Leaves'
<1>1. <<>> \in Seq(Events) /\ evq' = evq \o <<>> /\ DOMAIN <<>> = {}
  BY DEF Types, TypeLink
<1>2. Protocol' /\ \A c \in Calls : Done(c) => Done(c)'
  BY <1>1, HostSays DEF Path
<1> QED
  BY <1>2, ClientStays DEF Path

\* The workers only change what the host tracks of the calls they run.
LEMMA WorkPath ==
  ASSUME Types, Path, WorkStep
  PROVE  Path'
<1>1. UNCHANGED <<nodeVars, evq, response, buffer, skip>>
  BY Zenon DEF WorkStep, Start, Yield, ExecutePayload, WorkerCrash, HostCrash, linkVars
<1>2. /\ reqq' \in {reqq, <<>>} /\ inflight' \in {inflight, {}} /\ host' \in {host, "down"}
  BY DEF WorkStep, Start, Yield, ExecutePayload, WorkerCrash, HostCrash, CloseHost, linkVars
<1>3. Protocol' /\ Waits' /\ Leaves'
  BY <1>1, <1>2, NothingSaid
<1>4. /\ DOMAIN fut = Calls /\ DOMAIN sq = Calls /\ DOMAIN next = Calls
  BY DEF Types, TypeCore
<1>5. CASE HostCrash
  <2>1. Tracked'
    BY <1>5 DEF HostCrash, CloseHost, Tracked
  <2> QED
    BY <1>3, <2>1 DEF Path
<1>6. CASE ~HostCrash
  <2>1. UNCHANGED <<inflight, reqq, host>>
    BY <1>6 DEF WorkStep, Start, Yield, ExecutePayload, WorkerCrash, linkVars
  <2>2. \A c \in Calls \ inflight : sq'[c] = <<>> /\ next'[c] = 1 /\ fut'[c] = "none"
    <3>1. \A c \in Calls \ inflight : sq[c] = <<>> /\ next[c] = 1 /\ fut[c] = "none"
      BY DEF Path, Tracked
    <3>2. \A c \in Calls \ inflight : sq'[c] = sq[c] /\ next'[c] = next[c] /\ fut'[c] = fut[c]
      BY <1>4, <1>6, <3>1 DEF WorkStep, Start, Yield, ExecutePayload, WorkerCrash, OnPool
    <3> QED
      BY <3>1, <3>2
  <2> QED
    BY <1>3, <2>1, <2>2 DEF Path, Tracked
<1> QED
  BY <1>5, <1>6

\* The loop of the host answers a call when it lets it go.
LEMMA LoopPath ==
  ASSUME Types, Path, HandleStop \/ NoRequest \/ DrainStreams \/ DrainCompleted
                      \/ (\E late \in SUBSET Calls : Expire(late))
  PROVE  Path'
<1>0. inflight \subseteq Calls /\ DOMAIN fut = Calls /\ DOMAIN sq = Calls /\ DOMAIN next = Calls
  BY DEF Types, TypeCore
<1>1. UNCHANGED <<nodeVars, response, buffer, skip>>
  BY Zenon DEF HandleStop, NoRequest, DrainStreams, DrainCompleted, Expire, linkVars
<1>2. CASE HandleStop
  <2>1. /\ evq' = evq \o FailInflight /\ reqq' = <<>> /\ inflight' = {} /\ host' = "down"
        /\ fut' = [c \in Calls |-> "none"] /\ next' = [c \in Calls |-> 1]
        /\ sq' = [c \in Calls |-> <<>>]
    BY <1>2 DEF HandleStop, CloseHost
  <2>2. /\ FailInflight \in Seq(Events)
        /\ \A x \in DOMAIN FailInflight :
             /\ FailInflight[x].call \in inflight
             /\ \A y \in DOMAIN FailInflight : FailInflight[x].call = FailInflight[y].call => x = y
    <3>1. FailInflight = SetToSeq({Answer(c, "error") : c \in inflight})
      BY DEF FailInflight
    <3> QED
      BY <3>1, ErrorsFacts, Zenon
  <2> DEFINE F == FailInflight
  <2> HIDE DEF F
  <2>3. \A x \in DOMAIN F : \A y \in DOMAIN F : y > x => F[y].call # F[x].call
    <3> SUFFICES ASSUME NEW x \in DOMAIN F, NEW y \in DOMAIN F, y > x, F[y].call = F[x].call
                 PROVE  FALSE
      OBVIOUS
    <3>1. x = y
      BY <2>2 DEF F
    <3>2. x \in Nat
      BY <2>2 DEF F
    <3> QED
      BY <3>1, <3>2
  <2>4. F \in Seq(Events) /\ evq' = evq \o F /\ \A x \in DOMAIN F : F[x].call \in inflight
    BY <2>1, <2>2 DEF F
  <2>5. Protocol' /\ \A c \in Calls : Done(c) => Done(c)'
    BY <1>1, <2>1, <2>3, <2>4, HostSays DEF Path
  <2>6. Waits' /\ Leaves'
    BY <1>1, <2>1, <2>5, ClientStays DEF Path
  <2>7. Tracked'
    BY <2>1 DEF Tracked
  <2> QED
    BY <2>5, <2>6, <2>7 DEF Path
<1>3. CASE NoRequest
  <2>1. UNCHANGED <<evq, reqq, coreVars, host>>
    BY <1>3 DEF NoRequest, linkVars
  <2>2. Protocol' /\ Waits' /\ Leaves'
    BY <1>1, <2>1, NothingSaid DEF coreVars
  <2>3. Tracked'
    BY <2>1 DEF Path, Tracked, coreVars
  <2> QED
    BY <2>2, <2>3 DEF Path
<1>4. CASE DrainStreams
  <2>1. /\ evq' = evq \o AllItems /\ UNCHANGED <<reqq, inflight, fut, next, host>>
        /\ sq' = [c \in Calls |-> IF c \in inflight THEN Drained(c) ELSE sq[c]]
    BY <1>4 DEF DrainStreams, AllItems
  <2>2. /\ AllItems \in Seq(Events)
        /\ \A x \in DOMAIN AllItems : AllItems[x].call \in inflight /\ AllItems[x].item # 0
    BY AllItemsFacts
  <2>3. Protocol' /\ \A c \in Calls : Done(c) => Done(c)'
    BY <1>1, <2>1, <2>2, HostSays DEF Path
  <2>4. Waits' /\ Leaves'
    BY <1>1, <2>1, <2>3, ClientStays DEF Path
  <2>5. Tracked'
    BY <2>1 DEF Path, Tracked
  <2> QED
    BY <2>3, <2>4, <2>5 DEF Path
<1>5. CASE DrainCompleted
  <2>0. UNCHANGED <<reqq, host>>
    BY <1>5 DEF DrainCompleted
  <2>1. CASE \E c \in inflight : Complete(c) \/ GiveUp(c)
    <3>1. PICK c \in inflight : Complete(c) \/ GiveUp(c)
      BY <2>1
    <3>2. c \in Calls
      BY <1>0
    <3>3. PICK status \in Finished \cup Errors : evq' = Closing(c, status)
      BY <3>1 DEF Complete, GiveUp, Closing, Errors
    <3>4. /\ sq' = [sq EXCEPT ![c] = <<>>] /\ inflight' = inflight \ {c}
          /\ fut' = [fut EXCEPT ![c] = "none"] /\ next' = [next EXCEPT ![c] = 1]
      BY <3>1 DEF Complete, GiveUp
    <3> DEFINE F == ItemEvents(c) \o <<Answer(c, status)>>
    <3>5. /\ F \in Seq(Events) /\ evq' = evq \o F
          /\ DOMAIN F = 1..(Len(Taken(c)) + 1) /\ Len(Taken(c)) \in Nat
          /\ \A j \in 1..Len(Taken(c)) : F[j] = Item(c, sq[c][j]) /\ sq[c][j] \in 1..Items
          /\ F[Len(Taken(c)) + 1] = Answer(c, status)
      BY <3>2, <3>3, CloseEvents, Zenon
    <3> HIDE DEF F
    <3>6. ASSUME NEW x \in DOMAIN F
          PROVE  /\ F[x].call = c
                 /\ F[x].item = 0 => \A y \in DOMAIN F : ~(y > x)
      <4>1. x \in 1..Len(Taken(c)) \/ x = Len(Taken(c)) + 1
        BY <3>5
      <4>2. CASE x \in 1..Len(Taken(c))
        <5>1. F[x] = Item(c, sq[c][x]) /\ sq[c][x] \in 1..Items /\ Items \in Nat
          BY <3>5, <4>2, SizesAssumption
        <5>2. sq[c][x] # 0
          BY <5>1
        <5> QED
          BY <5>1, <5>2 DEF Item
      <4>3. CASE x = Len(Taken(c)) + 1
        BY <3>5, <4>3 DEF Answer
      <4> QED
        BY <4>1, <4>2, <4>3
    <3>7. Protocol' /\ \A d \in Calls : Done(d) => Done(d)'
      BY <1>1, <2>0, <3>4, <3>5, <3>6, HostSays DEF Path
    <3>8. Waits' /\ Leaves'
      BY <1>1, <2>0, <3>7, ClientStays DEF Path
    <3>9. Tracked'
      BY <1>0, <2>0, <3>2, <3>4 DEF Path, Tracked
    <3> QED
      BY <3>7, <3>8, <3>9 DEF Path
  <2>2. CASE (\E c \in inflight : Recover(c)) \/ UNCHANGED <<evq, sq, inflight, pool, fut, next, retries>>
    <3>1. UNCHANGED <<evq, inflight>>
      BY <2>2 DEF Recover
    <3>2. Protocol' /\ Waits' /\ Leaves'
      BY <1>1, <2>0, <3>1, NothingSaid
    <3>3. \A d \in Calls \ inflight : sq'[d] = sq[d] /\ next'[d] = next[d] /\ fut'[d] = fut[d]
      BY <1>0, <2>2 DEF Recover, Submit
    <3>4. Tracked'
      BY <2>0, <3>1, <3>3 DEF Path, Tracked
    <3> QED
      BY <3>2, <3>4 DEF Path
  <2> QED
    BY <1>5, <2>1, <2>2, Zenon DEF DrainCompleted
<1>6. CASE \E late \in SUBSET Calls : Expire(late)
  <2>1. PICK late \in SUBSET Calls : Expire(late)
    BY <1>6
  <2> DEFINE F == SetToSeq({Answer(c, "error") : c \in late})
  <2>2. /\ late \subseteq inflight /\ inflight' = inflight \ late /\ evq' = evq \o F
        /\ sq' = [c \in Calls |-> IF c \in late THEN <<>> ELSE sq[c]]
        /\ next' = [c \in Calls |-> IF c \in late THEN 1 ELSE next[c]]
        /\ \E f \in ShutDown(fut) : fut' = [c \in Calls |-> IF c \in late THEN "none" ELSE f[c]]
        /\ UNCHANGED <<reqq, host>>
    BY <2>1 DEF Expire
  <2>3. /\ F \in Seq(Events)
        /\ \A x \in DOMAIN F : /\ F[x].call \in late
                               /\ \A y \in DOMAIN F : F[x].call = F[y].call => x = y
    BY <2>2, ErrorsFacts, Zenon
  <2> HIDE DEF F
  <2>4. \A x \in DOMAIN F : \A y \in DOMAIN F : y > x => F[y].call # F[x].call
    <3> SUFFICES ASSUME NEW x \in DOMAIN F, NEW y \in DOMAIN F, y > x, F[y].call = F[x].call
                 PROVE  FALSE
      OBVIOUS
    <3>1. x = y
      BY <2>3
    <3>2. x \in Nat
      BY <2>3
    <3> QED
      BY <3>1, <3>2
  <2>5. Protocol' /\ \A c \in Calls : Done(c) => Done(c)'
    BY <1>1, <2>2, <2>3, <2>4, HostSays DEF Path
  <2>6. Waits' /\ Leaves'
    BY <1>1, <2>2, <2>5, ClientStays DEF Path
  <2>7. Tracked'
    <3>1. PICK f \in ShutDown(fut) : fut' = [c \in Calls |-> IF c \in late THEN "none" ELSE f[c]]
      BY <2>2
    <3>2. \A c \in Calls : fut[c] = "none" => f[c] = "none"
      BY <3>1 DEF ShutDown
    <3> QED
      BY <2>2, <3>1, <3>2 DEF Path, Tracked
  <2> QED
    BY <2>5, <2>6, <2>7 DEF Path
<1> QED
  BY <1>2, <1>3, <1>4, <1>5, <1>6

\* Every step keeps what is under way as stated.
LEMMA PathStep ==
  ASSUME Types, Path, [Next]_vars
  PROVE  Path'
BY StepsAre, CallPath, NodePath, ReadPath, LoopPath, HandlePath, WorkPath, Zenon DEF LoopStep

-----------------------------------------------------------------------------
(* Counts *)

\* The calls that were counted and have not been given back.
Gone == {c \in Calls : pc[c] = "gone"}
Counts ==
  session # "forgotten" =>
    /\ IsFiniteSet(Open) /\ IsFiniteSet(Gone)
    /\ received - returned = Cardinality(Open) + Cardinality(Gone)

\* Every step counts a call once in, and once out or gone.
LEMMA CountsStep ==
  ASSUME Types, Counts, [Next]_vars
  PROVE  Counts'
<1> USE DEF Waiting
<1>1. CASE UNCHANGED <<received, returned, pc>> /\ (session = "forgotten" => session' = "forgotten")
  <2>1. Open' = Open /\ Gone' = Gone
    BY <1>1 DEF Open, Gone
  <2> QED
    BY <1>1, <2>1 DEF Counts
<1>2. CASE NodeStep \/ Read \/ LoopStep \/ WorkStep \/ UNCHANGED vars
  <2>1. UNCHANGED <<received, returned, pc>> /\ (session = "forgotten" => session' = "forgotten")
    BY <1>2, Zenon DEF NodeStep, Read, LoopStep, WorkStep, vars, nodeVars, StopService, StopExecutor,
       ForgetService, RebuildHost, HandleCall, HandleStop, NoRequest, DrainStreams, DrainCompleted,
       Expire, Start, Yield, ExecutePayload, WorkerCrash, HostCrash
  <2> QED
    BY <1>1, <2>1
<1>3. ASSUME NEW c \in Calls, CallStep(c) PROVE Counts'
  <2>0. pc \in [Calls -> Steps] /\ received \in Nat /\ returned \in Nat
    BY DEF Types, TypeNode
  <2>1. session' = session
    BY <1>3 DEF CallStep, Invoke, InvokeStream, Count, Refuse, SendFails, Send, TakeResponse,
       TakeStreamed, WaitTimeout, ProcessDied, Disconnect, Finish, FinishStream, Return
  <2> SUFFICES ASSUME session # "forgotten"
               PROVE  /\ IsFiniteSet(Open)' /\ IsFiniteSet(Gone)'
                      /\ received' - returned' = Cardinality(Open') + Cardinality(Gone')
    BY <2>1 DEF Counts
  <2>2. /\ IsFiniteSet(Open) /\ IsFiniteSet(Gone)
        /\ Cardinality(Open) \in Nat /\ Cardinality(Gone) \in Nat
        /\ received - returned = Cardinality(Open) + Cardinality(Gone)
    BY FS_CardinalityType DEF Counts
  <2>3. CASE /\ pc[c] = "idle" /\ pc' = [pc EXCEPT ![c] = "sending"]
             /\ received' = received + 1 /\ returned' = returned
    <3>1. Open' = Open \cup {c} /\ Gone' = Gone /\ c \notin Open
      BY <2>0, <2>3 DEF Open, Gone
    <3>2. IsFiniteSet(Open') /\ Cardinality(Open') = Cardinality(Open) + 1
      BY <2>2, <3>1, FS_AddElement
    <3> QED
      BY <2>0, <2>2, <2>3, <3>1, <3>2
  <2>4. CASE /\ \E t \in {"answered", "gone"} : pc' = [pc EXCEPT ![c] = t]
             /\ pc[c] \in {"idle", "finish"} /\ received' = received
             /\ pc[c] = "idle" => pc'[c] = "answered" /\ returned' = returned
             /\ pc[c] = "finish" => pc'[c] = "answered" /\ returned' = returned + 1
    <3>1. CASE pc[c] = "idle"
      <4>1. Open' = Open /\ Gone' = Gone
        BY <2>0, <2>4, <3>1 DEF Open, Gone
      <4> QED
        BY <2>2, <2>4, <3>1, <4>1
    <3>2. CASE pc[c] = "finish"
      <4>1. Open' = Open \ {c} /\ Gone' = Gone /\ c \in Open
        BY <2>0, <2>4, <3>2 DEF Open, Gone
      <4>2. IsFiniteSet(Open') /\ Cardinality(Open') = Cardinality(Open) - 1
        BY <2>2, <4>1, FS_RemoveElement
      <4> QED
        BY <2>0, <2>2, <2>4, <3>2, <4>1, <4>2
    <3> QED
      BY <2>4, <3>1, <3>2
  <2>5. CASE /\ c \in Open /\ UNCHANGED <<received, returned>>
             /\ \E t \in {"sending", "waiting", "finish"} : pc' = [pc EXCEPT ![c] = t]
    <3>1. Open' = Open /\ Gone' = Gone
      BY <2>0, <2>5 DEF Open, Gone
    <3> QED
      BY <2>2, <2>5, <3>1
  <2>6. CASE /\ c \in Open /\ UNCHANGED <<received, returned>> /\ pc' = [pc EXCEPT ![c] = "gone"]
    <3>1. Open' = Open \ {c} /\ Gone' = Gone \cup {c} /\ c \notin Gone
      BY <2>0, <2>6 DEF Open, Gone
    <3>2. IsFiniteSet(Open') /\ Cardinality(Open') = Cardinality(Open) - 1
      BY <2>2, <2>6, <3>1, FS_RemoveElement
    <3>3. IsFiniteSet(Gone') /\ Cardinality(Gone') = Cardinality(Gone) + 1
      BY <2>2, <3>1, FS_AddElement
    <3> QED
      BY <2>0, <2>2, <2>6, <3>2, <3>3
  <2>7. CASE Invoke(c) \/ InvokeStream(c)
    BY <2>0, <2>3, <2>4, <2>7 DEF Invoke, InvokeStream, Count, Refuse
  <2>8. CASE Finish(c) \/ FinishStream(c)
    BY <2>0, <2>4, <2>8 DEF Finish, FinishStream, Return
  <2>9. CASE Disconnect(c)
    BY <2>6, <2>9 DEF Disconnect, Open
  <2>10. CASE SendFails(c) \/ Send(c) \/ TakeResponse(c) \/ TakeStreamed(c) \/ WaitTimeout(c) \/ ProcessDied(c)
    <3>1. pc = [pc EXCEPT ![c] = pc[c]]
      BY <2>0
    <3> QED
      BY <2>5, <2>10, <3>1 DEF SendFails, Send, TakeResponse, TakeStreamed, WaitTimeout, ProcessDied, Open, Fail
  <2> QED
    BY <1>3, <2>7, <2>8, <2>9, <2>10, Zenon DEF CallStep
<1> QED
  BY <1>2, <1>3, StepsAre, Zenon

-----------------------------------------------------------------------------
(* Streams *)

\* s is u and then v.
Splits(s, u, v) ==
  /\ Len(u) \in 0..Len(s) /\ Len(v) = Len(s) - Len(u)
  /\ \A j \in 1..Len(u) : u[j] = s[j]
  /\ \A j \in 1..Len(v) : v[j] = s[Len(u) + j]

\* A chain of items in two parts.
LEMMA ChainParts ==
  ASSUME NEW a, NEW s \in Seq(1..Items), NEW p, NEW u \in Seq(1..Items), NEW v \in Seq(1..Items),
         Splits(s, u, v)
  PROVE  /\ Chained(a, s, p) => Chained(a, u, p) /\ Chained(a, v, LastOf(u, p))
         /\ LastOf(v, LastOf(u, p)) = LastOf(s, p)
<1>0. PICK m \in Nat :
        /\ m \in 0..Len(s) /\ Len(u) = m /\ Len(v) = Len(s) - m
        /\ \A j \in 1..m : u[j] = s[j]
        /\ \A j \in 1..(Len(s) - m) : v[j] = s[m + j]
  <2>1. Len(u) \in Nat
    OBVIOUS
  <2> QED
    BY <2>1, Zenon DEF Splits
<1>1. /\ Len(s) \in Nat /\ DOMAIN s = 1..Len(s) /\ DOMAIN u = 1..m /\ DOMAIN v = 1..(Len(s) - m)
      /\ (s = <<>> <=> Len(s) = 0) /\ (u = <<>> <=> m = 0) /\ (v = <<>> <=> Len(s) - m = 0)
  BY <1>0
<1>2. ASSUME Chained(a, s, p), NEW j \in DOMAIN u
      PROVE  Follows(a, u[j], Before(u, j, p))
  <2>1. j \in DOMAIN s /\ s[j] = u[j] /\ (j = 1 \/ u[j - 1] = s[j - 1])
    BY <1>0, <1>1
  <2> QED
    BY <1>2, <2>1 DEF Chained, Before
<1>3. ASSUME Chained(a, s, p), NEW j \in DOMAIN v
      PROVE  Follows(a, v[j], Before(v, j, LastOf(u, p)))
  <2>1. m + j \in DOMAIN s /\ v[j] = s[m + j]
    <3>1. j \in 1..(Len(s) - m) /\ m \in Nat /\ j \in Nat
      BY <1>0, <1>1
    <3>2. m + j \in 1..Len(s)
      BY <1>0, <1>1, <3>1
    <3> QED
      BY <1>0, <1>1, <3>1, <3>2
  <2>2. Follows(a, s[m + j], Before(s, m + j, p))
    BY <1>3, <2>1 DEF Chained
  <2>3. Before(s, m + j, p) = Before(v, j, LastOf(u, p))
    <3>1. CASE j = 1
      BY <1>0, <1>1, <3>1 DEF Before, LastOf
    <3>2. CASE j # 1
      <4>0. j \in 1..(Len(s) - m) /\ m \in Nat /\ Len(s) - m \in Int
        BY <1>0, <1>1
      <4>1. j - 1 \in 1..(Len(s) - m) /\ m + (j - 1) = (m + j) - 1 /\ m + j # 1
        BY <3>2, <4>0, OneBefore, Zenon
      <4> QED
        BY <1>0, <3>2, <4>1 DEF Before
    <3> QED
      BY <3>1, <3>2
  <2> QED
    BY <2>1, <2>2, <2>3
<1>4. LastOf(v, LastOf(u, p)) = LastOf(s, p)
  <2>1. CASE Len(s) - m = 0
    BY <1>0, <1>1, <2>1 DEF LastOf
  <2>2. CASE Len(s) - m # 0
    <3>1. Len(s) - m \in 1..(Len(s) - m) /\ m + (Len(s) - m) = Len(s) /\ Len(s) # 0
      BY <1>0, <1>1, <2>2
    <3> QED
      BY <1>0, <1>1, <2>2, <3>1 DEF LastOf
  <2> QED
    BY <2>1, <2>2
<1> QED
  BY <1>2, <1>3, <1>4 DEF Chained

\* One more item, and the last one of a sequence.
LEMMA ChainGrows ==
  ASSUME NEW a, NEW E, NEW s \in Seq(E), NEW p, NEW i \in E
  PROVE  /\ Chained(a, s, p) /\ Follows(a, i, LastOf(s, p)) => Chained(a, Append(s, i), p)
         /\ LastOf(Append(s, i), p) = i
<1> DEFINE t == Append(s, i)
<1>1. /\ t \in Seq(E) /\ Len(s) \in Nat /\ DOMAIN s = 1..Len(s) /\ Len(t) = Len(s) + 1
      /\ DOMAIN t = 1..(Len(s) + 1) /\ (\A k \in 1..Len(s) : t[k] = s[k]) /\ t[Len(s) + 1] = i
  BY OneMore
<1>5. s = <<>> <=> Len(s) = 0
  OBVIOUS
<1> HIDE DEF t
<1>2. t # <<>> /\ (s = <<>> <=> Len(s) = 0)
  <2>1. Len(t) # 0
    BY <1>1
  <2> QED
    BY <1>5, <2>1
<1>3. LastOf(t, p) = i
  BY <1>1, <1>2 DEF LastOf
<1>4. ASSUME Chained(a, s, p), Follows(a, i, LastOf(s, p)), NEW k \in DOMAIN t
      PROVE  Follows(a, t[k], Before(t, k, p))
  <2>1. CASE k \in 1..Len(s)
    <3>1. t[k] = s[k] /\ (k = 1 \/ t[k - 1] = s[k - 1])
      BY <1>1, <2>1
    <3> QED
      BY <1>1, <1>4, <2>1, <3>1 DEF Chained, Before
  <2>2. CASE k = Len(s) + 1
    <3>1. CASE Len(s) = 0
      BY <1>1, <1>2, <1>4, <2>2, <3>1 DEF Before, LastOf
    <3>2. CASE Len(s) # 0
      <4>1. k - 1 = Len(s) /\ k # 1 /\ t[k - 1] = s[Len(s)]
        BY <1>1, <2>2, <3>2
      <4> QED
        BY <1>1, <1>2, <1>4, <2>2, <3>2, <4>1 DEF Before, LastOf
    <3> QED
      BY <3>1, <3>2
  <2> QED
    BY <1>1, <2>1, <2>2
<1> QED
  BY <1>3, <1>4 DEF Chained, t

\* The last of a sequence that has grown.
LEMMA LastAppended ==
  ASSUME NEW s \in Seq(1..Items), NEW p, NEW i \in 1..Items
  PROVE  LastOf(Append(s, i), p) = i
<1>1. /\ Append(s, i) # <<>> /\ Len(Append(s, i)) = Len(s) + 1
      /\ Append(s, i)[Len(s) + 1] = i
  OBVIOUS
<1> QED
  BY <1>1 DEF LastOf

\* A retry allows more.
LEMMA ChainRetries ==
  ASSUME NEW a, NEW b, a > 0 => b > 0, NEW s, NEW p, Chained(a, s, p)
  PROVE  Chained(b, s, p)
BY DEF Chained, Follows

\* What a consumer has got, and what the client keeps for it.
LEMMA Parts ==
  ASSUME Types, NEW c \in Calls
  PROVE  /\ got[c] \in Seq(1..Items) /\ buffer[c] \in Seq(1..Items)
         /\ Received(c) \in Seq(1..Items) /\ got[c] \o <<>> = got[c]
         /\ \A a : Chained(a, Received(c), 0) => Chained(a, got[c], 0)
         /\ buffer[c] = <<>> => Received(c) = got[c]
         /\ buffer[c] # <<>> => Append(got[c], Head(buffer[c])) \o Tail(buffer[c]) = Received(c)
         /\ \A i \in 1..Items : got[c] \o Append(buffer[c], i) = Append(Received(c), i)
<1>1. got[c] \in Seq(1..Items) /\ buffer[c] \in Seq(1..Items)
  BY DEF Types, TypeNode, TypeLink, Sequences1
<1> DEFINE g == got[c]
           b == buffer[c]
<1> HIDE DEF g, b
<1>2. g \in Seq(1..Items) /\ b \in Seq(1..Items) /\ Received(c) = g \o b
  BY <1>1 DEF g, b, Received
<1>3. /\ g \o b \in Seq(1..Items) /\ Len(g) \in Nat /\ Len(b) \in Nat
      /\ Len(g \o b) = Len(g) + Len(b)
      /\ \A k \in 1..Len(g) : (g \o b)[k] = g[k]
      /\ \A k \in 1..Len(b) : (g \o b)[Len(g) + k] = b[k]
  BY <1>2, Concat
<1>4. \A a : Chained(a, g \o b, 0) => Chained(a, g, 0)
  <2> TAKE a
  <2>1. Len(g) \in 0..Len(g \o b) /\ Len(b) = Len(g \o b) - Len(g)
    BY <1>3
  <2>2. /\ \A j \in 1..Len(g) : g[j] = (g \o b)[j]
        /\ \A j \in 1..(Len(g \o b) - Len(g)) : b[j] = (g \o b)[Len(g) + j]
    BY <1>3, <2>1
  <2> HIDE DEF g, b
  <2>3. PICK s \in Seq(1..Items) : s = g \o b
    BY <1>3
  <2>4. Splits(s, g, b)
    BY <2>1, <2>2, <2>3 DEF Splits
  <2> QED
    BY <1>2, <2>3, <2>4, ChainParts, Zenon
<1>5. b = <<>> => g \o b = g
  BY <1>2
<1>6. b # <<>> => Append(g, Head(b)) \o Tail(b) = g \o b
  BY <1>2
<1>7. \A i \in 1..Items : g \o Append(b, i) = Append(g \o b, i)
  BY <1>2
<1>8. g \o <<>> = g
  BY <1>2
<1> QED
  BY <1>2, <1>3, <1>4, <1>5, <1>6, <1>7, <1>8 DEF g, b

\* What follows at the end does not concern what comes before.
LEMMA ItemsStay ==
  ASSUME NEW a, NEW q \in Seq(Events), NEW F \in Seq(Events), NEW c \in Calls, NEW r,
         PipeItems(a, q, r, c),
         NEW k \in DOMAIN q, IsItem(c, (q \o F)[k])
  PROVE  \E p \in 0..Items : Preceded(q \o F, r, c, k, p) /\ Follows(a, (q \o F)[k].item, p)
<1>1. DOMAIN q = 1..Len(q) /\ Len(q) \in Nat /\ (q \o F)[k] = q[k] /\ k \in 1..(Len(q) + 1)
  <2>1. DOMAIN q = 1..Len(q) /\ Len(q) \in Nat /\ (q \o F)[k] = q[k]
    BY Concat
  <2> QED
    BY <2>1
<1>2. PICK p \in 0..Items : Preceded(q, r, c, k, p) /\ Follows(a, q[k].item, p)
  BY <1>1 DEF PipeItems
<1>3. Preceded(q \o F, r, c, k, p)
  BY <1>1, <1>2, PipeGrows
<1> QED
  BY <1>1, <1>2, <1>3

\* An answer follows the same items when more is said after it.
LEMMA AnswersStay ==
  ASSUME NEW q \in Seq(Events), NEW F \in Seq(Events), NEW c \in Calls, NEW r,
         PipeAnswers(q, r, c), NEW k \in DOMAIN q, (q \o F)[k] = Answer(c, "SUCCEEDED")
  PROVE  Preceded(q \o F, r, c, k, Items)
<1>1. DOMAIN q = 1..Len(q) /\ Len(q) \in Nat /\ (q \o F)[k] = q[k]
  BY Concat
<1>2. k \in 1..(Len(q) + 1)
  BY <1>1
<1>3. Preceded(q, r, c, k, Items)
  BY <1>1 DEF PipeAnswers
<1> QED
  BY <1>2, <1>3, PipeGrows

\* The items of s are said, and no answer.
LEMMA ItemsSaid ==
  ASSUME NEW a, NEW q \in Seq(Events), NEW F \in Seq(Events), NEW c \in Calls, NEW r,
         PipeItems(a, q, r, c), PipeAnswers(q, r, c), NEW p \in 0..Items,
         NEW s \in Seq(1..Items), Says(F, c, s),
         \A x \in DOMAIN F : F[x] # Answer(c, "SUCCEEDED"),
         Preceded(q, r, c, Len(q) + 1, p), Chained(a, s, p)
  PROVE  /\ PipeItems(a, q \o F, r, c) /\ PipeAnswers(q \o F, r, c)
         /\ Preceded(q \o F, r, c, Len(q \o F) + 1, LastOf(s, p))
<1> DEFINE G == q \o F
<1>1. /\ \A k \in DOMAIN G : k > Len(q) /\ IsItem(c, G[k]) =>
           \E p2 \in 0..Items : Preceded(G, r, c, k, p2) /\ Follows(a, G[k].item, p2)
      /\ Preceded(G, r, c, Len(G) + 1, LastOf(s, p))
  BY PipeContinues, SizesAssumption
<1>2. \A k \in DOMAIN q : IsItem(c, G[k]) =>
        \E p2 \in 0..Items : Preceded(G, r, c, k, p2) /\ Follows(a, G[k].item, p2)
  BY ItemsStay
<1>3. \A k \in DOMAIN q : G[k] = Answer(c, "SUCCEEDED") => Preceded(G, r, c, k, Items)
  BY AnswersStay
<1>4. \A k \in DOMAIN G : k \in DOMAIN q \/ (k > Len(q) /\ G[k] # Answer(c, "SUCCEEDED"))
  <2>1. /\ DOMAIN q = 1..Len(q) /\ DOMAIN F = 1..Len(F) /\ Len(q) \in Nat /\ Len(F) \in Nat
        /\ DOMAIN G = 1..(Len(q) + Len(F))
        /\ \A k \in 1..Len(F) : G[Len(q) + k] = F[k]
    BY Concat
  <2> HIDE DEF G
  <2> TAKE k \in DOMAIN G
  <2>2. k \in 1..Len(q) \/ (k - Len(q) \in 1..Len(F) /\ Len(q) + (k - Len(q)) = k /\ k > Len(q))
    BY <2>1
  <2> QED
    BY <2>1, <2>2
<1> HIDE DEF G
<1>5. PipeItems(a, G, r, c)
  BY <1>1, <1>2, <1>4 DEF PipeItems
<1>6. PipeAnswers(G, r, c)
  BY <1>3, <1>4 DEF PipeAnswers
<1> QED
  BY <1>1, <1>5, <1>6 DEF G

\* Nothing is said of a call that matters to its consumer.
LEMMA NothingHeard ==
  ASSUME NEW a, NEW q \in Seq(Events), NEW F \in Seq(Events), NEW c \in Calls, NEW r,
         PipeItems(a, q, r, c), PipeAnswers(q, r, c),
         \A x \in DOMAIN F : ~IsItem(c, F[x]) /\ F[x] # Answer(c, "SUCCEEDED")
  PROVE  /\ PipeItems(a, q \o F, r, c) /\ PipeAnswers(q \o F, r, c)
         /\ \A p \in 0..Items : Preceded(q, r, c, Len(q) + 1, p) =>
                                  Preceded(q \o F, r, c, Len(q \o F) + 1, p)
<1> DEFINE G == q \o F
<1>1. \A k \in DOMAIN q : IsItem(c, G[k]) =>
        \E p2 \in 0..Items : Preceded(G, r, c, k, p2) /\ Follows(a, G[k].item, p2)
  BY ItemsStay
<1>2. \A k \in DOMAIN q : G[k] = Answer(c, "SUCCEEDED") => Preceded(G, r, c, k, Items)
  BY AnswersStay
<1>3. \A k \in DOMAIN G : k \in DOMAIN q \/ (~IsItem(c, G[k]) /\ G[k] # Answer(c, "SUCCEEDED"))
  <2>1. /\ DOMAIN q = 1..Len(q) /\ DOMAIN F = 1..Len(F) /\ Len(q) \in Nat /\ Len(F) \in Nat
        /\ DOMAIN G = 1..(Len(q) + Len(F))
        /\ \A k \in 1..Len(F) : G[Len(q) + k] = F[k]
    BY Concat
  <2> HIDE DEF G
  <2> TAKE k \in DOMAIN G
  <2>2. k \in 1..Len(q) \/ (k - Len(q) \in 1..Len(F) /\ Len(q) + (k - Len(q)) = k)
    BY <2>1
  <2> QED
    BY <2>1, <2>2
<1>4. ASSUME NEW p \in 0..Items, Preceded(q, r, c, Len(q) + 1, p)
      PROVE  Preceded(G, r, c, Len(G) + 1, p)
  <2>1. <<>> \in Seq(1..Items) /\ LastOf(<<>>, p) = p /\ Chained(a, <<>>, p)
    BY DEF LastOf, Chained
  <2>2. Says(F, c, <<>>)
    <3>1. 0 \in Nat /\ Len(<<>>) = 0 /\ 1..0 = {} /\ 0 + 1 = 1 /\ 0 + 0 = 0
      OBVIOUS
    <3> QED
      BY <3>1 DEF Says
  <2> QED
    BY <1>4, <2>1, <2>2, ItemsSaid
<1> HIDE DEF G
<1>5. PipeItems(a, G, r, c)
  BY <1>1, <1>3 DEF PipeItems
<1>6. PipeAnswers(G, r, c)
  BY <1>2, <1>3 DEF PipeAnswers
<1> QED
  BY <1>4, <1>5, <1>6 DEF G

\* A retry allows more, in the events too.
LEMMA PipeRetries ==
  ASSUME NEW a, NEW b, a > 0 => b > 0, NEW q, NEW r, NEW c, PipeItems(a, q, r, c)
  PROVE  PipeItems(b, q, r, c)
BY DEF PipeItems, Follows

\* What the host does without the worker of c and without words about it.
LEMMA LinkStays ==
  ASSUME Types, NEW c \in Calls, Linked(c), NEW F \in Seq(Events), evq' = evq \o F,
         \A x \in DOMAIN F : ~IsItem(c, F[x]) /\ F[x] # Answer(c, "SUCCEEDED"),
         got'[c] = got[c], buffer'[c] = buffer[c], retries[c] > 0 => retries'[c] > 0,
         c \in inflight' =>
           /\ c \in inflight
           /\ \A p \in 0..Items :
                Chained(retries[c], sq[c], p) /\ Follows(retries[c], next[c], LastOf(sq[c], p)) =>
                  /\ Chained(retries'[c], sq'[c], p)
                  /\ Follows(retries'[c], next'[c], LastOf(sq'[c], p)),
         fut'[c] = "SUCCEEDED" => next'[c] = Items + 1
  PROVE  Linked(c)'
<1> DEFINE r == LastOf(Received(c), 0)
<1>1. r' = r
  BY DEF Received
<1>2. PipeItems(retries[c], evq, r, c) /\ PipeAnswers(evq, r, c)
  BY DEF Linked
<1>3. evq \in Seq(Events)
  BY DEF Types, TypeLink
<1> HIDE DEF r
<1>q. PICK q \in Seq(Events) : q = evq
  BY <1>3
<1>4. PICK a, r0 : q = evq /\ a = retries[c] /\ r0 = r
  BY <1>q
<1>5. /\ PipeItems(a, q \o F, r0, c) /\ PipeAnswers(q \o F, r0, c)
      /\ \A p \in 0..Items : Preceded(q, r0, c, Len(q) + 1, p) =>
                               Preceded(q \o F, r0, c, Len(q \o F) + 1, p)
  BY <1>2, <1>4, NothingHeard
<1>6. PipeItems(retries'[c], evq', r', c) /\ PipeAnswers(evq', r', c)
  <2>1. PipeItems(retries'[c], q \o F, r0, c)
    BY <1>4, <1>5, PipeRetries
  <2> QED
    BY <1>1, <1>4, <1>5, <2>1
<1>7. c \in inflight' => PipeEnd(retries'[c], evq', r', c, sq'[c], next'[c])
  <2> SUFFICES ASSUME c \in inflight' PROVE PipeEnd(retries'[c], evq', r', c, sq'[c], next'[c])
    OBVIOUS
  <2>1. PipeEnd(a, q, r0, c, sq[c], next[c])
    BY <1>4 DEF Linked, r
  <2>2. PICK p \in 0..Items : /\ Preceded(q, r0, c, Len(q) + 1, p)
                              /\ Chained(a, sq[c], p) /\ Follows(a, next[c], LastOf(sq[c], p))
    BY <2>1 DEF PipeEnd
  <2>3. Preceded(evq', r', c, Len(evq') + 1, p)
    BY <1>1, <1>4, <1>5, <2>2
  <2>4. Chained(retries'[c], sq'[c], p) /\ Follows(retries'[c], next'[c], LastOf(sq'[c], p))
    BY <1>4, <2>2
  <2> QED
    BY <2>3, <2>4 DEF PipeEnd
<1> QED
  BY <1>6, <1>7 DEF Linked, r

\* The consumers are not concerned by what the host and its workers do.
LEMMA ConsumersStay ==
  ASSUME Types, InOrder, Ends, UNCHANGED <<nodeVars, buffer, response>>,
         \A c \in Calls : retries[c] > 0 => retries'[c] > 0
  PROVE  InOrder' /\ Ends'
<1>1. \A c \in Calls : Received(c)' = Received(c)
  BY DEF Received, nodeVars
<1>2. InOrder'
  <2> SUFFICES ASSUME NEW c \in Streams PROVE Chained(retries'[c], Received(c)', 0)
    BY DEF InOrder
  <2>1. c \in Calls /\ Chained(retries[c], Received(c), 0) /\ (retries[c] > 0 => retries'[c] > 0)
    BY SizesAssumption DEF InOrder
  <2> QED
    BY <1>1, <2>1, ChainRetries
<1>3. Ends'
  BY <1>1, SizesAssumption DEF Ends, nodeVars
<1> QED
  BY <1>2, <1>3

\* A worker puts the next item in the queue, and ends well after the last one.
LEMMA WorkStreams ==
  ASSUME Types, Path, StreamInv, WorkStep
  PROVE  StreamInv'
<1>1. UNCHANGED <<nodeVars, evq, response, buffer, skip, retries>>
  BY Zenon DEF WorkStep, Start, Yield, ExecutePayload, WorkerCrash, HostCrash, linkVars
<1>2. InOrder' /\ Ends'
  BY <1>1, ConsumersStay DEF StreamInv
<1>3. ASSUME NEW c \in Streams, pc'[c] = "waiting", c \notin skip'
      PROVE  Linked(c)'
  <2>1. c \in Calls /\ Linked(c) /\ got'[c] = got[c] /\ buffer'[c] = buffer[c]
    BY <1>1, <1>3, SizesAssumption DEF StreamInv, Links, nodeVars
  <2>2. evq' = evq \o <<>> /\ <<>> \in Seq(Events) /\ DOMAIN <<>> = {} /\ retries' = retries
    BY <1>1 DEF Types, TypeLink
  <2>3. fut[c] = "SUCCEEDED" => next[c] = Items + 1
    BY <2>1 DEF Linked
  <2>4. /\ DOMAIN fut = Calls /\ DOMAIN next = Calls /\ DOMAIN sq = Calls
        /\ next[c] \in 1..Items + 1 /\ sq[c] \in Seq(1..Items) /\ Items \in Nat
    BY <2>1, SizesAssumption DEF Types, TypeCore, Sequences1
  <2>5. CASE (\E d \in Calls : Start(d)) \/ WorkerCrash
    <3>1. inflight' = inflight /\ sq' = sq /\ next' = next /\ (fut'[c] = "SUCCEEDED" => fut[c] = "SUCCEEDED")
      BY <2>1, <2>4, <2>5 DEF Start, WorkerCrash
    <3> QED
      BY <2>1, <2>2, <2>3, <3>1, LinkStays
  <2>6. CASE \E d \in Calls : \E st \in Finished : ExecutePayload(d, st)
    <3>1. PICK d \in Calls, st \in Finished : ExecutePayload(d, st)
      BY <2>6
    <3>2. inflight' = inflight /\ sq' = sq /\ next' = next
      BY <3>1 DEF ExecutePayload
    <3>3. fut'[c] = "SUCCEEDED" => fut[c] = "SUCCEEDED" \/ (d = c /\ st = "SUCCEEDED")
      BY <2>1, <2>4, <3>1 DEF ExecutePayload
    <3>4. d = c /\ st = "SUCCEEDED" => next[c] > Items
      BY <1>3, <3>1 DEF ExecutePayload
    <3>5. fut'[c] = "SUCCEEDED" => next'[c] = Items + 1
      BY <2>3, <2>4, <3>2, <3>3, <3>4
    <3> QED
      BY <2>1, <2>2, <3>2, <3>5, LinkStays
  <2>7. CASE \E d \in Calls : Yield(d)
    <3>1. PICK d \in Calls : Yield(d)
      BY <2>7
    <3>2. inflight' = inflight /\ fut' = fut
      BY <3>1 DEF Yield
    <3>3. CASE d # c
      <4>1. sq'[c] = sq[c] /\ next'[c] = next[c]
        BY <2>1, <2>4, <3>1, <3>3 DEF Yield
      <4> QED
        BY <2>1, <2>2, <2>3, <3>2, <4>1, LinkStays
    <3>4. CASE d = c
      <4>1. /\ fut[c] = "running" /\ next[c] <= Items
            /\ sq'[c] = Append(sq[c], next[c]) /\ next'[c] = next[c] + 1
        BY <2>1, <2>4, <3>1, <3>4 DEF Yield
      <4>2. next[c] \in 1..Items
        BY <2>4, <4>1
      <4>3. \A a, p : Chained(a, sq[c], p) /\ Follows(a, next[c], LastOf(sq[c], p)) =>
                        Chained(a, sq'[c], p) /\ LastOf(sq'[c], p) = next[c]
        BY <2>4, <4>1, <4>2, ChainGrows
      <4>4. \A a : Follows(a, next'[c], next[c])
        BY <4>1 DEF Follows
      <4>5. \A p \in 0..Items :
              Chained(retries[c], sq[c], p) /\ Follows(retries[c], next[c], LastOf(sq[c], p)) =>
                /\ Chained(retries'[c], sq'[c], p)
                /\ Follows(retries'[c], next'[c], LastOf(sq'[c], p))
        BY <2>2, <4>3, <4>4
      <4>6. fut'[c] # "SUCCEEDED"
        BY <3>2, <4>1
      <4> QED
        BY <2>1, <2>2, <3>2, <4>5, <4>6, LinkStays
    <3> QED
      BY <3>3, <3>4
  <2>8. CASE HostCrash
    <3>1. inflight' = {} /\ fut'[c] = "none"
      BY <2>1, <2>8 DEF HostCrash, CloseHost
    <3> QED
      BY <2>1, <2>2, <3>1, LinkStays
  <2> QED
    BY <2>5, <2>6, <2>7, <2>8, Zenon DEF WorkStep
<1> QED
  BY <1>2, <1>3 DEF StreamInv, Links

\* Of a call that is done there is nothing under way.
LEMMA QuietLink ==
  ASSUME NEW c \in Calls, Done(c)', Tracked'
  PROVE  Linked(c)'
<1>1. \A k \in DOMAIN evq' : evq'[k].call # c
  BY DEF Done, Told
<1>2. c \notin inflight' /\ fut'[c] = "none"
  BY DEF Done, Tracked
<1>3. \A k \in DOMAIN evq' : ~IsItem(c, evq'[k]) /\ evq'[k] # Answer(c, "SUCCEEDED")
  BY <1>1 DEF IsItem, Answer
<1> QED
  BY <1>2, <1>3 DEF Linked, PipeItems, PipeAnswers

\* A consumer takes the items of its buffer in order, and its answer after them.
LEMMA CallStreams ==
  ASSUME Types, Path, StreamInv, NEW c \in Calls, CallStep(c)
  PROVE  StreamInv'
<1>1. /\ UNCHANGED coreVars /\ UNCHANGED <<client, host, step, evq>>
      /\ (reqq' = reqq /\ ~Sent(c)) \/ (reqq' = Append(reqq, c) /\ Sent(c))
      /\ \A d \in Calls \ {c} : pc'[d] = pc[d] /\ outcome'[d] = outcome[d] /\ Kept(d)
      /\ \/ Counted(c) \/ Sent(c) \/ ItemTaken(c) \/ OverEarly(c) \/ OverWaiting(c)
         \/ OverAgain(c)
  BY CallEffect, Zenon
<1>2. /\ Received(c) \in Seq(1..Items) /\ got[c] \o <<>> = got[c]
      /\ \A a : Chained(a, Received(c), 0) => Chained(a, got[c], 0)
      /\ buffer[c] = <<>> => Received(c) = got[c]
      /\ buffer[c] # <<>> => Append(got[c], Head(buffer[c])) \o Tail(buffer[c]) = Received(c)
  BY Parts
<1>3. \A d \in Calls : Kept(d) => Received(d)' = Received(d)
  BY DEF Kept, Received
<1>4. ItemTaken(c) => Received(c)' = Received(c)
  BY <1>2 DEF ItemTaken, Received
<1>5. OverWaiting(c) => Received(c)' = got[c]
  BY <1>2 DEF OverWaiting, Received
<1>6. \A d \in Calls : Kept(d) \/ (d = c /\ (ItemTaken(c) \/ OverWaiting(c)))
  BY <1>1 DEF Counted, Sent, OverEarly, OverAgain
<1>7. InOrder'
  <2> SUFFICES ASSUME NEW d \in Streams PROVE Chained(retries'[d], Received(d)', 0)
    BY DEF InOrder
  <2>1. d \in Calls /\ retries' = retries /\ Chained(retries[d], Received(d), 0)
    BY <1>1, SizesAssumption DEF StreamInv, InOrder, coreVars
  <2> QED
    BY <1>2, <1>3, <1>4, <1>5, <1>6, <2>1
<1>8. Links'
  <2> SUFFICES ASSUME NEW d \in Streams, pc'[d] = "waiting", d \notin skip'
               PROVE  Linked(d)'
    BY DEF Links
  <2>1. d \in Calls
    BY SizesAssumption
  <2>2. CASE d = c /\ Sent(c)
    <3>1. Done(c)
      BY <2>2 DEF Path, Protocol, Untouched, Sent
    <3>2. c \notin inflight' /\ fut'[c] = "none" /\ \A k \in DOMAIN evq' : evq'[k].call # c
      BY <1>1, <3>1 DEF Done, Told, Path, Tracked, coreVars
    <3>3. \A k \in DOMAIN evq' : ~IsItem(c, evq'[k]) /\ evq'[k] # Answer(c, "SUCCEEDED")
      BY <3>2 DEF IsItem, Answer
    <3> QED
      BY <2>2, <3>2, <3>3 DEF Linked, PipeItems, PipeAnswers
  <2>3. CASE ~(d = c /\ Sent(c))
    <3>1. pc[d] = "waiting" /\ d \notin skip /\ Received(d)' = Received(d)
      BY <1>1, <1>3, <1>4, <2>1, <2>3 DEF Kept, Counted, ItemTaken, OverEarly, OverWaiting, OverAgain, Over
    <3>2. Linked(d)
      BY <3>1 DEF StreamInv, Links
    <3> QED
      BY <1>1, <3>1, <3>2 DEF Linked, coreVars
  <2> QED
    BY <2>2, <2>3
<1>9. Ends'
  <2> SUFFICES ASSUME NEW d \in Streams
               PROVE  /\ pc'[d] = "waiting" /\ response'[d] = "SUCCEEDED" => LastOf(Received(d)', 0) = Items
                      /\ outcome'[d] = "SUCCEEDED" => pc'[d] \in Over /\ LastOf(got'[d], 0) = Items
    BY DEF Ends
  <2>0. /\ d \in Calls
        /\ pc[d] = "waiting" /\ response[d] = "SUCCEEDED" => LastOf(Received(d), 0) = Items
        /\ outcome[d] = "SUCCEEDED" => pc[d] \in Over /\ LastOf(got[d], 0) = Items
    BY SizesAssumption DEF StreamInv, Ends
  <2>1. CASE d # c
    <3>1. pc'[d] = pc[d] /\ outcome'[d] = outcome[d] /\ Kept(d) /\ Received(d)' = Received(d)
      BY <1>1, <1>3, <2>0, <2>1
    <3> QED
      BY <2>0, <3>1 DEF Kept
  <2>2. CASE d = c /\ (Counted(c) \/ OverEarly(c) \/ OverAgain(c))
    BY <1>3, <2>0, <2>2 DEF Counted, OverEarly, OverAgain, Kept, Over
  <2>3. CASE d = c /\ Sent(c)
    BY <2>0, <2>3 DEF Sent, Kept, Over, Path, Protocol, Untouched
  <2>4. CASE d = c /\ ItemTaken(c)
    BY <1>4, <2>0, <2>4 DEF ItemTaken, Over
  <2>5. CASE d = c /\ OverWaiting(c)
    <3>1. pc[c] = "waiting" /\ pc'[c] \in Over /\ outcome[c] # "SUCCEEDED" /\ pc'[c] # "waiting"
      BY <2>0, <2>5 DEF OverWaiting, Over
    <3>2. outcome'[c] = "SUCCEEDED" =>
            buffer[c] = <<>> /\ response[c] = "SUCCEEDED" /\ got'[c] = got[c]
      BY <2>5, <3>1 DEF OverWaiting
    <3> QED
      BY <1>2, <2>0, <2>5, <3>1, <3>2
  <2> QED
    BY <1>1, <2>1, <2>2, <2>3, <2>4, <2>5
<1> QED
  BY <1>7, <1>8, <1>9 DEF StreamInv

\* The node touches streams only when nobody waits for them.
LEMMA NodeStreams ==
  ASSUME Types, Path, StreamInv, NodeStep \/ UNCHANGED vars
  PROVE  StreamInv'
<1>1. CASE StopService \/ ForgetService \/ StopExecutor \/ UNCHANGED vars
  <2>1. UNCHANGED <<evq, response, buffer, skip, coreVars, pc, outcome, got>>
    BY <1>1, Zenon DEF StopService, ForgetService, StopExecutor, vars, nodeVars, linkVars
  <2>2. \A c \in Calls : Received(c)' = Received(c)
    BY <2>1 DEF Received
  <2>3. InOrder' /\ Ends'
    BY <2>1, <2>2, SizesAssumption DEF StreamInv, InOrder, Ends, coreVars
  <2>4. \A c \in Calls : Linked(c) => Linked(c)'
    BY <2>1, <2>2 DEF Linked, coreVars
  <2> QED
    BY <2>1, <2>3, <2>4, SizesAssumption DEF StreamInv, Links
<1>2. CASE RebuildHost
  <2>1. /\ \A c \in Calls : pc[c] # "waiting"
        /\ buffer' = [c \in Calls |-> <<>>] /\ UNCHANGED <<pc, outcome, got, retries>>
    BY <1>2 DEF RebuildHost
  <2>2. Links'
    BY <2>1, SizesAssumption DEF Links
  <2>3. Ends'
    BY <2>1, SizesAssumption DEF StreamInv, Ends
  <2>4. InOrder'
    <3> SUFFICES ASSUME NEW c \in Streams PROVE Chained(retries'[c], Received(c)', 0)
      BY DEF InOrder
    <3>1. c \in Calls /\ Chained(retries[c], Received(c), 0)
      BY SizesAssumption DEF StreamInv, InOrder
    <3>2. got[c] \o <<>> = got[c] /\ Chained(retries[c], got[c], 0)
      BY <3>1, Parts
    <3> QED
      BY <2>1, <3>1, <3>2 DEF Received
  <2> QED
    BY <2>2, <2>3, <2>4 DEF StreamInv
<1> QED
  BY <1>1, <1>2 DEF NodeStep

\* The last item read of c when the first event of q is read.
Newest(q, r, c) == IF IsItem(c, q[1]) THEN q[1].item ELSE r

\* The client reads the first event: what is under way continues from there.
LEMMA PipeTail ==
  ASSUME NEW a, NEW q \in Seq(Events), q # <<>>, NEW c \in Calls, NEW r,
         PipeItems(a, q, r, c), PipeAnswers(q, r, c),
         NEW r2, r2 = Newest(q, r, c)
  PROVE  /\ PipeItems(a, Tail(q), r2, c) /\ PipeAnswers(Tail(q), r2, c)
         /\ \A p : Preceded(q, r, c, Len(q) + 1, p) => Preceded(Tail(q), r2, c, Len(Tail(q)) + 1, p)
         /\ IsItem(c, q[1]) => Follows(a, q[1].item, r)
<1> DEFINE t == Tail(q)
<1>1. /\ Len(q) \in Nat /\ 1 <= Len(q) /\ DOMAIN q = 1..Len(q) /\ Head(q) = q[1]
      /\ Len(t) = Len(q) - 1 /\ DOMAIN t = 1..(Len(q) - 1)
      /\ \A k \in 1..(Len(q) - 1) : t[k] = q[k + 1]
  BY HeadAndTail
<1>2. \A k \in 2..(Len(q) + 1) : \A p : Preceded(q, r, c, k, p) => Preceded(t, r2, c, k - 1, p)
  BY <1>1, PipeIsRead DEF Newest
<1> HIDE DEF t
<1>3. \A k \in DOMAIN t : /\ k + 1 \in DOMAIN q /\ t[k] = q[k + 1]
                          /\ k + 1 \in 2..(Len(q) + 1) /\ (k + 1) - 1 = k
  BY <1>1
<1>4. PipeItems(a, t, r2, c)
  <2> SUFFICES ASSUME NEW k \in DOMAIN t, IsItem(c, t[k])
               PROVE  \E p \in 0..Items : Preceded(t, r2, c, k, p) /\ Follows(a, t[k].item, p)
    BY DEF PipeItems
  <2>1. PICK p \in 0..Items : Preceded(q, r, c, k + 1, p) /\ Follows(a, q[k + 1].item, p)
    BY <1>3 DEF PipeItems
  <2>2. Preceded(t, r2, c, (k + 1) - 1, p)
    BY <1>2, <1>3, <2>1
  <2> QED
    BY <1>3, <2>1, <2>2
<1>5. PipeAnswers(t, r2, c)
  <2> SUFFICES ASSUME NEW k \in DOMAIN t, t[k] = Answer(c, "SUCCEEDED")
               PROVE  Preceded(t, r2, c, k, Items)
    BY DEF PipeAnswers
  <2>1. Preceded(q, r, c, k + 1, Items)
    BY <1>3 DEF PipeAnswers
  <2>2. Preceded(t, r2, c, (k + 1) - 1, Items)
    BY <1>2, <1>3, <2>1
  <2> QED
    BY <1>3, <2>2
<1>6. ASSUME NEW p, Preceded(q, r, c, Len(q) + 1, p)
      PROVE  Preceded(t, r2, c, Len(t) + 1, p)
  <2>1. Len(q) + 1 \in 2..(Len(q) + 1) /\ (Len(q) + 1) - 1 = Len(t) + 1
    BY <1>1
  <2> QED
    BY <1>2, <1>6, <2>1
<1>7. \A p : Preceded(q, r, c, 1, p) => p = r
  BY <1>1, PipeStarts
<1>8. IsItem(c, q[1]) => Follows(a, q[1].item, r)
  BY <1>1, <1>7 DEF PipeItems
<1> QED
  BY <1>4, <1>5, <1>6, <1>8 DEF t

\* The reader keeps the items in order in the buffer, or drops the stream.
LEMMA ReadStreams ==
  ASSUME Types, Path, Path', StreamInv, Read
  PROVE  StreamInv'
<1>1. PICK c \in Calls, i \in 0..Items, s \in Finished \cup Errors \cup {"none"} :
            /\ evq # <<>> /\ evq[1] = [call |-> c, item |-> i, status |-> s]
            /\ DOMAIN evq = 1..Len(evq) /\ Len(evq) \in Nat /\ 1 <= Len(evq)
            /\ evq' = Tail(evq) /\ DOMAIN evq' = 1..(Len(evq) - 1)
            /\ \A k \in 1..(Len(evq) - 1) : evq'[k] = evq[k + 1]
            /\ UNCHANGED <<nodeVars, reqq, coreVars, client, host, step>>
            /\ \A d \in Calls \ {c} : Kept(d)
            /\ got' = got
            /\ \/ Dropped(c, i)
               \/ i = 0 /\ Answered(c, s)
               \/ i > 0 /\ (Buffered(c, i) \/ Overflowed(c))
  BY ReadEffect, Zenon
<1>2. evq[1].call = c /\ evq[1].item = i /\ 1 \in DOMAIN evq /\ Told(c) /\ ~Done(c)
  BY <1>1 DEF Told, Done
<1>3. IsItem(c, evq[1]) <=> i > 0
  BY <1>2 DEF IsItem
<1>4. \A d \in Calls \ {c} : ~IsItem(d, evq[1])
  BY <1>2 DEF IsItem
<1>5. pc' = pc /\ outcome' = outcome /\ retries' = retries /\ evq \in Seq(Events) /\ Items \in Nat
  BY <1>1, SizesAssumption DEF nodeVars, coreVars, Types, TypeLink
<1>6. c \in Streams /\ c \notin skip => pc[c] = "waiting"
  <2>1. pc[c] \in Steps
    BY DEF Types, TypeNode
  <2> QED
    BY <1>2, <2>1 DEF Path, Protocol, Untouched, Leaves, Steps, Over
<1>7. /\ Received(c) \in Seq(1..Items) /\ got[c] \o <<>> = got[c]
      /\ \A a : Chained(a, Received(c), 0) => Chained(a, got[c], 0)
      /\ \A j \in 1..Items : got[c] \o Append(buffer[c], j) = Append(Received(c), j)
  BY Parts
<1>8. \A d \in Calls : buffer'[d] = buffer[d] => Received(d)' = Received(d)
  BY <1>1 DEF Received
<1>9. Buffered(c, i) /\ i > 0 => Received(c)' = Append(Received(c), i) /\ i \in 1..Items
  <2> SUFFICES ASSUME Buffered(c, i), i > 0
               PROVE  Received(c)' = Append(Received(c), i) /\ i \in 1..Items
    OBVIOUS
  <2>1. i \in 1..Items
    BY <1>5
  <2>2. Received(c)' = got[c] \o Append(buffer[c], i)
    BY <1>1 DEF Buffered, Received
  <2> QED
    BY <1>7, <2>1, <2>2
<1>10. Overflowed(c) => Received(c)' = got[c]
  BY <1>1, <1>7 DEF Overflowed, Received
<1>11. \A d \in Calls : d # c => Kept(d) /\ buffer'[d] = buffer[d] /\ response'[d] = response[d]
                                 /\ (d \in skip' <=> d \in skip)
  BY <1>1 DEF Kept
\* What was under way and is read.
<1>12. ASSUME NEW d \in Streams, pc[d] = "waiting", d \notin skip,
              NEW r2, r2 = Newest(evq, LastOf(Received(d), 0), d)
       PROVE  /\ PipeItems(retries[d], evq', r2, d) /\ PipeAnswers(evq', r2, d)
              /\ d \in inflight => PipeEnd(retries[d], evq', r2, d, sq[d], next[d])
              /\ IsItem(d, evq[1]) => Follows(retries[d], evq[1].item, LastOf(Received(d), 0))
              /\ evq[1] = Answer(d, "SUCCEEDED") => LastOf(Received(d), 0) = Items
              /\ fut[d] = "SUCCEEDED" => next[d] = Items + 1
  <2>1. d \in Calls /\ Linked(d)
    BY <1>12, SizesAssumption DEF StreamInv, Links
  <2>q. PICK q \in Seq(Events) : q = evq
    BY <1>5
  <2>2. PICK a, r : q = evq /\ a = retries[d] /\ r = LastOf(Received(d), 0)
    BY <2>q
  <2>3. PipeItems(a, q, r, d) /\ PipeAnswers(q, r, d) /\ q # <<>>
        /\ r2 = Newest(q, r, d)
    BY <1>1, <1>12, <2>1, <2>2 DEF Linked
  <2>4. /\ PipeItems(a, Tail(q), r2, d) /\ PipeAnswers(Tail(q), r2, d)
        /\ \A p : Preceded(q, r, d, Len(q) + 1, p) => Preceded(Tail(q), r2, d, Len(Tail(q)) + 1, p)
        /\ IsItem(d, q[1]) => Follows(a, q[1].item, r)
    BY <2>1, <2>3, PipeTail, Zenon
  <2>8. evq[1] = Answer(d, "SUCCEEDED") => LastOf(Received(d), 0) = Items
    <3>1. evq[1] = Answer(d, "SUCCEEDED") => Preceded(evq, LastOf(Received(d), 0), d, 1, Items)
      BY <1>2, <2>1 DEF Linked, PipeAnswers
    <3> QED
      BY <1>1, <3>1, PipeStarts
  <2>5. d \in inflight => PipeEnd(a, q, r, d, sq[d], next[d])
    BY <2>1, <2>2 DEF Linked
  <2>6. d \in inflight => PipeEnd(a, Tail(q), r2, d, sq[d], next[d])
    BY <2>4, <2>5 DEF PipeEnd
  <2>7. fut[d] = "SUCCEEDED" => next[d] = Items + 1
    BY <2>1 DEF Linked
  <2> QED
    BY <1>1, <2>2, <2>4, <2>6, <2>7, <2>8
<1>13. InOrder'
  <2> SUFFICES ASSUME NEW d \in Streams PROVE Chained(retries'[d], Received(d)', 0)
    BY DEF InOrder
  <2>1. d \in Calls /\ Chained(retries[d], Received(d), 0)
    BY SizesAssumption DEF StreamInv, InOrder
  <2>2. CASE buffer'[d] = buffer[d]
    BY <1>5, <1>8, <2>1, <2>2
  <2>3. CASE d = c /\ Overflowed(c)
    BY <1>5, <1>7, <1>10, <2>1, <2>3
  <2>4. CASE d = c /\ i > 0 /\ Buffered(c, i)
    <3>1. c \notin skip /\ pc[c] = "waiting"
      BY <1>6, <2>4 DEF Buffered
    <3>2. Follows(retries[c], i, LastOf(Received(c), 0))
      BY <1>2, <1>3, <1>12, <2>4, <3>1
    <3>3. Chained(retries[c], Append(Received(c), i), 0)
      BY <1>7, <1>9, <2>1, <2>4, <3>2, ChainGrows
    <3> QED
      BY <1>5, <1>9, <2>4, <3>3
  <2> QED
    BY <1>1, <1>11, <2>1, <2>2, <2>3, <2>4 DEF Dropped, Answered
<1>14. Links'
  <2> SUFFICES ASSUME NEW d \in Streams, pc'[d] = "waiting", d \notin skip'
               PROVE  Linked(d)'
    BY DEF Links
  <2>0. d \in Calls /\ pc[d] = "waiting"
    BY <1>5, SizesAssumption
  <2>1. CASE d \in skip
    <3>1. d = c /\ i = 0
      BY <1>1, <1>5, <1>11, <2>0, <2>1 DEF Dropped, Answered, Buffered, Overflowed
    <3>2. Done(c)'
      <4>1. c \notin inflight /\ \A l \in DOMAIN evq : l > 1 => evq[l].call # c
        BY <1>2, <3>1 DEF Path, Protocol, AnswerLast
      <4>2. \A l \in DOMAIN evq' : evq'[l].call # c
        <5> TAKE l \in DOMAIN evq'
        <5>1. l + 1 \in DOMAIN evq /\ l + 1 > 1 /\ evq'[l] = evq[l + 1]
          BY <1>1
        <5> QED
          BY <4>1, <5>1
      <4>3. ~Queued(c)
        <5> SUFFICES ASSUME NEW k \in DOMAIN reqq, reqq[k] = c PROVE FALSE
          BY DEF Queued
        <5>1. c # "stop"
          BY SizesAssumption
        <5> QED
          BY <1>2, <5>1 DEF Path, Protocol, AskedOnce
      <4> QED
        BY <1>1, <4>1, <4>2, <4>3 DEF Done, Queued, Told, coreVars
    <3> QED
      BY <3>1, <3>2, QuietLink DEF Path
  <2>2. CASE d \notin skip
    <3> DEFINE r2 == Newest(evq, LastOf(Received(d), 0), d)
    <3>1. /\ PipeItems(retries[d], evq', r2, d) /\ PipeAnswers(evq', r2, d)
          /\ d \in inflight => PipeEnd(retries[d], evq', r2, d, sq[d], next[d])
          /\ fut[d] = "SUCCEEDED" => next[d] = Items + 1
      BY <1>12, <2>0, <2>2
    <3>2. LastOf(Received(d)', 0) = r2
      <4>1. CASE d # c
        BY <1>4, <1>8, <1>11, <2>0, <4>1 DEF Newest
      <4>2. CASE d = c /\ i = 0 /\ Answered(c, s)
        BY <1>3, <1>8, <4>2 DEF Answered, Newest
      <4>3. CASE d = c /\ i > 0 /\ Buffered(c, i)
        <5>1. LastOf(Append(Received(c), i), 0) = i
          <6>1. i \in 1..Items /\ Received(c) \in Seq(1..Items)
            BY <1>7, <1>9, <4>3
          <6> QED
            BY <6>1, LastAppended, Zenon
        <5> QED
          BY <1>2, <1>3, <1>9, <4>3, <5>1 DEF Newest
      <4> QED
        BY <1>1, <2>2, <4>1, <4>2, <4>3 DEF Dropped, Overflowed
    <3> HIDE DEF r2
    <3> QED
      BY <1>1, <3>1, <3>2 DEF Linked, coreVars
  <2> QED
    BY <2>1, <2>2
<1>15. Ends'
  <2> SUFFICES ASSUME NEW d \in Streams
               PROVE  /\ pc[d] = "waiting" /\ response'[d] = "SUCCEEDED" => LastOf(Received(d)', 0) = Items
                      /\ outcome[d] = "SUCCEEDED" => pc[d] \in Over /\ LastOf(got[d], 0) = Items
    BY <1>1, <1>5 DEF Ends
  <2>0. /\ d \in Calls
        /\ pc[d] = "waiting" /\ response[d] = "SUCCEEDED" => LastOf(Received(d), 0) = Items
        /\ outcome[d] = "SUCCEEDED" => pc[d] \in Over /\ LastOf(got[d], 0) = Items
    BY SizesAssumption DEF StreamInv, Ends
  <2>1. CASE buffer'[d] = buffer[d] /\ response'[d] = response[d]
    BY <1>8, <2>0, <2>1
  <2>2. CASE d = c /\ Overflowed(c)
    BY <2>0, <2>2 DEF Overflowed
  <2>3. CASE d = c /\ i = 0 /\ Answered(c, s)
    <3> SUFFICES ASSUME pc[d] = "waiting", response'[d] = "SUCCEEDED"
                 PROVE  LastOf(Received(d)', 0) = Items
      BY <2>0
    <3>1. evq[1] = Answer(c, "SUCCEEDED") /\ c \notin skip /\ buffer'[c] = buffer[c]
      BY <1>1, <2>3 DEF Answered, Answer
    <3>2. LastOf(Received(c), 0) = Items
      BY <1>12, <2>3, <3>1
    <3> QED
      BY <1>8, <2>3, <3>1, <3>2
  <2>4. CASE d = c /\ i > 0 /\ Buffered(c, i)
    <3>1. pc[c] = "waiting" /\ c \notin skip /\ response'[c] = response[c]
      BY <1>6, <2>4 DEF Buffered
    <3>2. response[c] = "none"
      BY <1>2, <3>1 DEF Path, Waits
    <3> QED
      BY <2>0, <2>4, <3>1, <3>2
  <2> QED
    BY <1>1, <1>11, <2>0, <2>1, <2>2, <2>3, <2>4 DEF Dropped
<1> QED
  BY <1>13, <1>14, <1>15 DEF StreamInv

\* A request the host takes: nothing was said of it before, and its worker starts
\* at the first item.
LEMMA HandleStreams ==
  ASSUME Types, Path, StreamInv, NEW e \in Calls, HandleCall(e)
  PROVE  StreamInv'
<1>1. UNCHANGED <<nodeVars, response, buffer, skip, retries, sq>>
  BY DEF HandleCall
<1>2. InOrder' /\ Ends'
  BY <1>1, ConsumersStay DEF StreamInv
<1>3. e \notin inflight /\ ~Told(e) /\ got[e] = <<>> /\ buffer[e] = <<>>
  <2>1. 1 \in DOMAIN reqq /\ reqq[1] = e
    <3>1. reqq \in Seq(Calls \cup {"stop"}) /\ reqq # <<>> /\ Head(reqq) = e
      BY DEF HandleCall, Types, TypeLink
    <3> QED
      BY <3>1, HeadAndTail
  <2>2. e # "stop"
    BY SizesAssumption
  <2> QED
    BY <2>1, <2>2 DEF Path, Protocol, AskedOnce
<1>4. sq[e] = <<>> /\ next[e] = 1 /\ fut[e] = "none"
  BY <1>3 DEF Path, Tracked
<1>5. ASSUME NEW c \in Streams, pc'[c] = "waiting", c \notin skip'
      PROVE  Linked(c)'
  <2>1. c \in Calls /\ Linked(c) /\ got'[c] = got[c] /\ buffer'[c] = buffer[c]
    BY <1>1, <1>5, SizesAssumption DEF StreamInv, Links, nodeVars
  <2>2. fut[c] = "SUCCEEDED" => next[c] = Items + 1
    BY <2>1 DEF Linked
  <2>3. DOMAIN fut = Calls /\ DOMAIN next = Calls
    BY DEF Types, TypeCore
  <2>4. CASE ~known
    <3>1. evq' = Append(evq, Answer(e, "error")) /\ UNCHANGED <<fut, next, inflight>>
      BY <2>4 DEF HandleCall
    <3> DEFINE F == <<Answer(e, "error")>>
    <3>2. Answer(e, "error") \in Events /\ Answer(e, "error").item = 0 /\ Answer(e, "error").status = "error"
      BY SizesAssumption DEF Answer, Events, Errors
    <3>3. F \in Seq(Events) /\ DOMAIN F = {1} /\ F[1] = Answer(e, "error")
      BY <3>2
    <3>4. evq' = evq \o F
      BY <3>1, <3>2 DEF Types, TypeLink
    <3> HIDE DEF F
    <3>5. \A x \in DOMAIN F : ~IsItem(c, F[x]) /\ F[x] # Answer(c, "SUCCEEDED")
      BY <3>2, <3>3 DEF IsItem, Answer
    <3> QED
      BY <1>1, <2>1, <2>2, <3>1, <3>3, <3>4, <3>5, LinkStays
  <2>5. CASE known /\ c # e
    <3>1. /\ evq' = evq /\ inflight' = inflight \cup {e}
          /\ fut'[c] = fut[c] /\ next'[c] = next[c]
      BY <2>1, <2>3, <2>5 DEF HandleCall, Submit
    <3>2. <<>> \in Seq(Events) /\ DOMAIN <<>> = {} /\ evq' = evq \o <<>>
      BY <3>1 DEF Types, TypeLink
    <3> QED
      BY <1>1, <2>1, <2>2, <2>5, <3>1, <3>2, LinkStays
  <2>6. CASE known /\ c = e
    <3>1. evq' = evq /\ fut'[c] = "queued" /\ next'[c] = 1
      BY <2>1, <2>3, <2>6 DEF HandleCall, Submit
    <3>2. Received(c)' = Received(c) /\ LastOf(Received(c), 0) = 0
      <4>1. Received(c) = <<>>
        <5>1. Received(c) = <<>> \o <<>> /\ <<>> \o <<>> = <<>>
          BY <1>3, <2>6 DEF Received
        <5> QED
          BY <5>1
      <4> QED
        BY <2>1, <4>1 DEF Received, LastOf
    <3>3. Preceded(evq, 0, c, Len(evq) + 1, 0)
      BY <1>3, <2>6 DEF Preceded, NoItem, IsItem, Told
    <3>4. Chained(retries[c], <<>>, 0) /\ Follows(retries[c], 1, LastOf(<<>>, 0))
      BY DEF Chained, Follows, LastOf
    <3>5. PipeEnd(retries[c], evq, 0, c, <<>>, 1)
      <4>1. 0 \in 0..Items
        BY SizesAssumption
      <4> QED
        BY <3>3, <3>4, <4>1 DEF PipeEnd
    <3> QED
      BY <1>1, <1>4, <2>1, <2>6, <3>1, <3>2, <3>5 DEF Linked
  <2> QED
    BY <2>4, <2>5, <2>6
<1> QED
  BY <1>2, <1>5 DEF StreamInv, Links

\* The last item of a stream is one of them, or the one before.
LEMMA LastIsItem ==
  ASSUME NEW s \in Seq(1..Items), NEW p \in 0..Items
  PROVE  LastOf(s, p) \in 0..Items
<1>1. Len(s) \in Nat /\ DOMAIN s = 1..Len(s) /\ (s = <<>> \/ Len(s) # 0) /\ Items \in Nat
  BY SizesAssumption
<1>2. \A k \in 1..Len(s) : s[k] \in 1..Items
  BY <1>1
<1>3. s # <<>> => s[Len(s)] \in 1..Items
  BY <1>1, <1>2
<1>4. s # <<>> => s[Len(s)] \in 0..Items
  BY <1>1, <1>3
<1> QED
  BY <1>4 DEF LastOf

\* A drain says the first items of each stream, and keeps the others.
LEMMA DrainStreamsInv ==
  ASSUME Types, Path, StreamInv, DrainStreams
  PROVE  StreamInv'
<1>1. /\ UNCHANGED <<nodeVars, response, buffer, skip, retries, inflight, fut, next>>
      /\ evq' = evq \o AllItems
      /\ sq' = [c \in Calls |-> IF c \in inflight THEN Drained(c) ELSE sq[c]]
  BY DEF DrainStreams, AllItems
<1>2. InOrder' /\ Ends'
  BY <1>1, ConsumersStay DEF StreamInv
<1>3. /\ AllItems \in Seq(Events)
      /\ \A x \in DOMAIN AllItems : /\ AllItems[x].call \in inflight
                                    /\ AllItems[x].item > 0
      /\ \A c \in inflight \cap Streams : Says(AllItems, c, Taken(c))
  BY AllItemsFacts
<1> DEFINE F == AllItems
<1> HIDE DEF F
<1>4. ASSUME NEW c \in Streams, pc'[c] = "waiting", c \notin skip'
      PROVE  Linked(c)'
  <2>1. c \in Calls /\ Linked(c) /\ got'[c] = got[c] /\ buffer'[c] = buffer[c]
    BY <1>1, <1>4, SizesAssumption DEF StreamInv, Links, nodeVars
  <2>2. fut[c] = "SUCCEEDED" => next[c] = Items + 1
    BY <2>1 DEF Linked
  <2>3. CASE c \notin inflight
    <3>1. \A x \in DOMAIN F : ~IsItem(c, F[x]) /\ F[x] # Answer(c, "SUCCEEDED")
      BY <1>3, <2>3 DEF IsItem, Answer, F
    <3>2. F \in Seq(Events) /\ evq' = evq \o F
      BY <1>1, <1>3 DEF F
    <3> QED
      BY <1>1, <2>1, <2>2, <2>3, <3>1, <3>2, LinkStays
  <2>4. CASE c \in inflight
    <3> DEFINE r == LastOf(Received(c), 0)
    <3>1. r' = r
      BY <2>1 DEF Received
    <3>2. PipeItems(retries[c], evq, r, c) /\ PipeAnswers(evq, r, c)
      BY <2>1 DEF Linked
    <3>3. PICK p \in 0..Items : /\ Preceded(evq, r, c, Len(evq) + 1, p)
                                /\ Chained(retries[c], sq[c], p)
                                /\ Follows(retries[c], next[c], LastOf(sq[c], p))
      BY <2>1, <2>4 DEF Linked, PipeEnd
    <3> HIDE DEF r
    <3>q. PICK q \in Seq(Events) : q = evq
      BY DEF Types, TypeLink
    <3>4. PICK a, r0 : q = evq /\ a = retries[c] /\ r0 = r
      BY <3>q
    <3>5. PICK s \in Seq(1..Items), u \in Seq(1..Items), v \in Seq(1..Items) :
            s = sq[c] /\ u = Taken(c) /\ v = Drained(c) /\ Splits(s, u, v)
      <4>1. /\ sq[c] \in Seq(1..Items) /\ Taken(c) \in Seq(1..Items) /\ Drained(c) \in Seq(1..Items)
            /\ Len(Taken(c)) \in 0..Len(sq[c]) /\ Len(Drained(c)) = Len(sq[c]) - Len(Taken(c))
            /\ \A j \in 1..Len(Taken(c)) : Taken(c)[j] = sq[c][j]
            /\ \A j \in 1..(Len(sq[c]) - Len(Taken(c))) : Drained(c)[j] = sq[c][Len(Taken(c)) + j]
        BY <2>1, TakenFacts, Zenon
      <4>2. Splits(sq[c], Taken(c), Drained(c))
        BY <4>1, Zenon DEF Splits
      <4> QED
        BY <4>1, <4>2, Zenon
    <3>6. /\ Chained(a, u, p) /\ Chained(a, v, LastOf(u, p))
          /\ LastOf(v, LastOf(u, p)) = LastOf(s, p)
      <4>1. Chained(a, s, p)
        BY <3>3, <3>4, <3>5
      <4>2. Splits(s, u, v)
        BY <3>5
      <4>3. Chained(a, s, p) => Chained(a, u, p) /\ Chained(a, v, LastOf(u, p))
        BY <4>2, ChainParts, Zenon
      <4>4. LastOf(v, LastOf(u, p)) = LastOf(s, p)
        BY <4>2, ChainParts, ZenonT(30)
      <4> QED
        BY <4>1, <4>3, <4>4, Zenon
    <3>7. Says(F, c, u) /\ F \in Seq(Events) /\ \A x \in DOMAIN F : F[x] # Answer(c, "SUCCEEDED")
      BY <1>3, <2>4, <3>5 DEF F, Answer
    <3>8. /\ PipeItems(a, q \o F, r0, c) /\ PipeAnswers(q \o F, r0, c)
          /\ Preceded(q \o F, r0, c, Len(q \o F) + 1, LastOf(u, p))
      BY <2>1, <3>2, <3>3, <3>4, <3>6, <3>7, ItemsSaid
    <3>9. LastOf(u, p) \in 0..Items
      BY LastIsItem
    <3>10. sq'[c] = v /\ evq' = q \o F /\ Follows(a, next[c], LastOf(v, LastOf(u, p)))
      BY <1>1, <2>1, <2>4, <3>3, <3>4, <3>5, <3>6 DEF F
    <3>11. PipeEnd(a, q \o F, r0, c, v, next[c])
      BY <3>6, <3>8, <3>9, <3>10 DEF PipeEnd
    <3> QED
      BY <1>1, <2>2, <3>1, <3>4, <3>8, <3>10, <3>11 DEF Linked, r
  <2> QED
    BY <2>3, <2>4
<1> QED
  BY <1>2, <1>4 DEF StreamInv, Links

\* The answer of a call comes after its items: the good one after all of them.
LEMMA AnswerSaid ==
  ASSUME NEW a, NEW q \in Seq(Events), NEW c \in Calls, NEW r, NEW status \in Finished \cup Errors,
         PipeItems(a, q, r, c), PipeAnswers(q, r, c),
         status = "SUCCEEDED" => Preceded(q, r, c, Len(q) + 1, Items)
  PROVE  /\ PipeItems(a, q \o <<Answer(c, status)>>, r, c)
         /\ PipeAnswers(q \o <<Answer(c, status)>>, r, c)
<1> DEFINE e == Answer(c, status)
<1>1. e \in Events /\ e.item = 0 /\ e.status = status /\ Answer(c, "SUCCEEDED").status = "SUCCEEDED"
  BY SizesAssumption DEF Answer, Events
<1> HIDE DEF e
<1>2. PICK F \in Seq(Events) : F = <<e>> /\ Len(F) = 1 /\ F[1] = e
  <2>1. <<e>> \in Seq(Events) /\ Len(<<e>>) = 1 /\ <<e>>[1] = e
    BY <1>1
  <2> QED
    BY <2>1, Zenon
<1> DEFINE G == q \o F
<1>3. /\ DOMAIN q = 1..Len(q) /\ Len(q) \in Nat /\ DOMAIN G = 1..(Len(q) + 1)
      /\ \A k \in 1..Len(F) : G[Len(q) + k] = F[k]
  <2>1. Len(q) + Len(F) = Len(q) + 1
    BY <1>2
  <2>2. /\ DOMAIN q = 1..Len(q) /\ Len(q) \in Nat /\ DOMAIN G = 1..(Len(q) + Len(F))
        /\ \A k \in 1..Len(F) : G[Len(q) + k] = F[k]
    BY Concat
  <2> HIDE DEF G
  <2> QED
    BY <2>1, <2>2
<1>4. G[Len(q) + 1] = e
  BY <1>2, <1>3
<1>5. \A k \in DOMAIN q : IsItem(c, G[k]) =>
        \E p2 \in 0..Items : Preceded(G, r, c, k, p2) /\ Follows(a, G[k].item, p2)
  BY <1>2, ItemsStay
<1>6. \A k \in DOMAIN q : G[k] = Answer(c, "SUCCEEDED") => Preceded(G, r, c, k, Items)
  BY <1>2, AnswersStay
<1>7. status = "SUCCEEDED" => Preceded(G, r, c, Len(q) + 1, Items)
  <2>1. Len(q) + 1 \in 1..(Len(q) + 1)
    BY <1>3
  <2> QED
    BY <1>2, <2>1, PipeGrows
<1> HIDE DEF G
<1>8. \A k \in DOMAIN G : k \in DOMAIN q \/ k = Len(q) + 1
  BY <1>3
<1>9. PipeItems(a, G, r, c)
  BY <1>1, <1>4, <1>5, <1>8 DEF PipeItems, IsItem
<1>10. PipeAnswers(G, r, c)
  BY <1>1, <1>4, <1>6, <1>7, <1>8 DEF PipeAnswers
<1> QED
  BY <1>2, <1>9, <1>10 DEF G, e

\* What is left of a stream is said before its answer: all of it, as the queue is
\* not longer than a drain.
LEMMA ClosedLink ==
  ASSUME Types, QueueMax <= DrainMax, NEW c \in Calls, c \in inflight, Linked(c),
         NEW status \in Finished \cup Errors, status = "SUCCEEDED" => fut[c] = "SUCCEEDED",
         evq' = Closing(c, status), retries' = retries, got'[c] = got[c], buffer'[c] = buffer[c],
         c \notin inflight', fut'[c] = "none"
  PROVE  Linked(c)'
<1> DEFINE r == LastOf(Received(c), 0)
<1>1. r' = r
  BY DEF Received
<1>2. PipeItems(retries[c], evq, r, c) /\ PipeAnswers(evq, r, c)
  BY DEF Linked
<1>3. PICK p \in 0..Items : /\ Preceded(evq, r, c, Len(evq) + 1, p)
                            /\ Chained(retries[c], sq[c], p)
                            /\ Follows(retries[c], next[c], LastOf(sq[c], p))
  BY DEF Linked, PipeEnd
<1> HIDE DEF r
<1>q. PICK q \in Seq(Events) : q = evq
  BY DEF Types, TypeLink
<1>4. PICK a, r0 : q = evq /\ a = retries[c] /\ r0 = r
  BY <1>q
<1>5. PICK s \in Seq(1..Items), F \in Seq(Events) :
        /\ s = sq[c] /\ F = ItemEvents(c)
        /\ Len(s) \in Nat /\ DOMAIN F = 1..Len(s)
        /\ \A j \in 1..Len(s) : F[j] = Item(c, s[j]) /\ s[j] \in 1..Items
  <2>1. /\ sq[c] \in Seq(1..Items) /\ Len(sq[c]) \in Nat
        /\ \A j \in 1..Len(sq[c]) : sq[c][j] \in 1..Items
        /\ ItemEvents(c) \in Seq(Events) /\ DOMAIN ItemEvents(c) = 1..Len(Taken(c))
        /\ \A j \in 1..Len(Taken(c)) : ItemEvents(c)[j] = Item(c, sq[c][j])
        /\ Len(Taken(c)) = Len(sq[c])
    BY TakenFacts, Zenon
  <2> QED
    BY <2>1, Zenon
<1>6. \A j \in 1..Len(s) : IsItem(c, F[j]) /\ F[j].item = s[j]
  <2> TAKE j \in 1..Len(s)
  <2>1. F[j] = Item(c, s[j]) /\ s[j] \in 1..Items
    BY <1>5
  <2>2. s[j] > 0
    BY <2>1, SizesAssumption, SMTT(30)
  <2>3. Item(c, s[j]).call = c /\ Item(c, s[j]).item = s[j]
    BY DEF Item
  <2> QED
    BY <2>1, <2>2, <2>3, Zenon DEF IsItem
<1>7. Says(F, c, s)
  <2>1. 0 \in Nat /\ 0 + 1 = 1 /\ 0 + Len(s) = Len(s) /\ \A j \in 1..Len(s) : 0 + j = j
    BY <1>5
  <2>2. /\ \A x \in DOMAIN F : IsItem(c, F[x]) <=> x \in (0 + 1)..(0 + Len(s))
        /\ \A j \in 1..Len(s) : 0 + j \in DOMAIN F /\ F[0 + j].item = s[j]
    BY <1>5, <1>6, <2>1
  <2> QED
    BY <2>1, <2>2, Zenon DEF Says
<1>8. \A x \in DOMAIN F : F[x] # Answer(c, "SUCCEEDED")
  BY <1>5, <1>6 DEF IsItem, Answer
<1>9. /\ PipeItems(a, q \o F, r0, c) /\ PipeAnswers(q \o F, r0, c)
      /\ Preceded(q \o F, r0, c, Len(q \o F) + 1, LastOf(s, p))
  BY <1>2, <1>3, <1>4, <1>5, <1>7, <1>8, ItemsSaid
<1>10. fut[c] = "SUCCEEDED" => LastOf(s, p) = Items
  <2>1. LastOf(s, p) \in 0..Items /\ Items \in Nat
    BY LastIsItem, SizesAssumption
  <2>2. fut[c] = "SUCCEEDED" => next[c] = Items + 1
    BY DEF Linked
  <2> QED
    BY <1>3, <1>5, <2>1, <2>2 DEF Follows
<1>11. PICK g \in Seq(Events) : g = q \o F
  <2>1. q \o F \in Seq(Events)
    OBVIOUS
  <2> QED
    BY <2>1, Zenon
<1>12. /\ PipeItems(a, g \o <<Answer(c, status)>>, r0, c)
       /\ PipeAnswers(g \o <<Answer(c, status)>>, r0, c)
  BY <1>9, <1>10, <1>11, AnswerSaid
<1>13. evq' = g \o <<Answer(c, status)>>
  BY <1>4, <1>5, <1>11 DEF Closing
<1> QED
  BY <1>1, <1>4, <1>12, <1>13 DEF Linked, r

\* A future that is done, or broke: its call is answered after its items, or runs
\* again from the first.
LEMMA CompletedStreams ==
  ASSUME Types, Path, StreamInv, QueueMax <= DrainMax, DrainCompleted
  PROVE  StreamInv'
<1>1. UNCHANGED <<nodeVars, response, buffer, skip>>
  BY DEF DrainCompleted
<1>2. /\ DOMAIN fut = Calls /\ DOMAIN next = Calls /\ DOMAIN sq = Calls
      /\ inflight \subseteq Calls /\ retries \in [Calls -> 0..1] /\ evq \in Seq(Events)
  BY DEF Types, TypeCore, TypeLink
<1>3. Links /\ InOrder /\ Ends
  BY DEF StreamInv
<1>4. \A c \in Streams : pc'[c] = "waiting" /\ c \notin skip' =>
        /\ c \in Calls /\ Linked(c) /\ got'[c] = got[c] /\ buffer'[c] = buffer[c]
        /\ fut[c] = "SUCCEEDED" => next[c] = Items + 1
  BY <1>1, <1>3, SizesAssumption DEF Links, Linked, nodeVars
<1>5. <<>> \in Seq(Events) /\ DOMAIN <<>> = {} /\ evq = evq \o <<>>
  BY <1>2
<1>6. CASE \E e \in inflight : Complete(e) \/ GiveUp(e)
  <2>1. PICK e \in inflight : Complete(e) \/ GiveUp(e)
    BY <1>6
  <2>2. PICK status \in Finished \cup Errors :
          evq' = Closing(e, status) /\ (status = "SUCCEEDED" => fut[e] = "SUCCEEDED")
    BY <2>1 DEF Complete, GiveUp, Closing, Errors
  <2>3. /\ sq' = [sq EXCEPT ![e] = <<>>] /\ inflight' = inflight \ {e} /\ retries' = retries
        /\ fut' = [fut EXCEPT ![e] = "none"] /\ next' = [next EXCEPT ![e] = 1]
    BY <2>1 DEF Complete, GiveUp
  <2>4. e \in Calls
    BY <1>2
  <2>5. PICK F \in Seq(Events) :
          /\ evq' = evq \o F /\ Len(Taken(e)) \in Nat
          /\ DOMAIN F = 1..(Len(Taken(e)) + 1)
          /\ \A j \in 1..Len(Taken(e)) : F[j] = Item(e, sq[e][j])
          /\ F[Len(Taken(e)) + 1] = Answer(e, status)
    BY <2>2, <2>4, CloseEvents, Zenon
  <2>6. \A x \in DOMAIN F : F[x].call = e
    <3> TAKE x \in DOMAIN F
    <3>1. x \in 1..Len(Taken(e)) \/ x = Len(Taken(e)) + 1
      BY <2>5
    <3>2. \A j : Item(e, sq[e][j]).call = e
      BY DEF Item
    <3>3. Answer(e, status).call = e
      BY DEF Answer
    <3> QED
      BY <2>5, <3>1, <3>2, <3>3, Zenon
  <2>7. InOrder' /\ Ends'
    BY <1>1, <1>3, <2>3, ConsumersStay
  <2>8. ASSUME NEW c \in Streams, pc'[c] = "waiting", c \notin skip'
        PROVE  Linked(c)'
    <3>1. /\ c \in Calls /\ Linked(c) /\ got'[c] = got[c] /\ buffer'[c] = buffer[c]
          /\ fut[c] = "SUCCEEDED" => next[c] = Items + 1
      BY <1>4, <2>8
    <3>2. CASE c = e
      <4>1. c \in inflight /\ c \notin inflight' /\ fut'[c] = "none"
        BY <1>2, <2>3, <3>1, <3>2
      <4> QED
        BY <2>2, <2>3, <3>1, <3>2, <4>1, ClosedLink
    <3>3. CASE c # e
      <4>1. \A x \in DOMAIN F : ~IsItem(c, F[x]) /\ F[x] # Answer(c, "SUCCEEDED")
        BY <2>6, <3>3 DEF IsItem, Answer
      <4>2. /\ sq'[c] = sq[c] /\ fut'[c] = fut[c] /\ next'[c] = next[c]
            /\ c \in inflight' => c \in inflight
        BY <1>2, <2>3, <3>1, <3>3
      <4> QED
        BY <2>3, <2>5, <3>1, <4>1, <4>2, LinkStays
    <3> QED
      BY <3>2, <3>3
  <2> QED
    BY <2>7, <2>8 DEF StreamInv, Links
<1>7. CASE \E e \in inflight : Recover(e)
  <2>1. PICK e \in inflight : Recover(e)
    BY <1>7
  <2>2. /\ UNCHANGED <<evq, sq, inflight>> /\ e \in Calls
        /\ fut' = [fut EXCEPT ![e] = "queued"] /\ next' = [next EXCEPT ![e] = 1]
        /\ retries' = [retries EXCEPT ![e] = retries[e] + 1]
    BY <1>2, <2>1 DEF Recover, Submit
  <2>3. retries'[e] > 0 /\ \A c \in Calls : c # e => retries'[c] = retries[c]
    BY <1>2, <2>2
  <2>4. \A c \in Calls : retries[c] > 0 => retries'[c] > 0
    BY <2>3
  <2>5. InOrder' /\ Ends'
    BY <1>1, <1>3, <2>4, ConsumersStay
  <2>6. ASSUME NEW c \in Streams, pc'[c] = "waiting", c \notin skip'
        PROVE  Linked(c)'
    <3>1. /\ c \in Calls /\ Linked(c) /\ got'[c] = got[c] /\ buffer'[c] = buffer[c]
          /\ fut[c] = "SUCCEEDED" => next[c] = Items + 1
      BY <1>4, <2>6
    <3>2. sq'[c] = sq[c]
      BY <2>2
    <3>3. ASSUME NEW p, Chained(retries[c], sq[c], p), Follows(retries[c], next[c], LastOf(sq[c], p))
          PROVE  Chained(retries'[c], sq'[c], p) /\ Follows(retries'[c], next'[c], LastOf(sq'[c], p))
      <4>1. Chained(retries'[c], sq'[c], p)
        BY <2>4, <3>1, <3>2, <3>3, ChainRetries
      <4>2. CASE c = e
        BY <1>2, <2>2, <2>3, <4>1, <4>2 DEF Follows
      <4>3. CASE c # e
        BY <1>2, <2>2, <2>3, <3>1, <3>2, <3>3, <4>1, <4>3
      <4> QED
        BY <4>2, <4>3
    <3>4. fut'[c] = "SUCCEEDED" => next'[c] = Items + 1
      BY <1>2, <2>2, <3>1
    <3>5. c \in inflight' => c \in inflight
      BY <2>2
    <3>6. evq' = evq \o <<>>
      BY <1>5, <2>2
    <3> QED
      BY <1>5, <2>4, <3>1, <3>3, <3>4, <3>5, <3>6, LinkStays
  <2> QED
    BY <2>5, <2>6 DEF StreamInv, Links
<1>8. CASE UNCHANGED <<evq, sq, inflight, pool, fut, next, retries>>
  <2>1. InOrder' /\ Ends'
    BY <1>1, <1>3, <1>8, ConsumersStay
  <2>2. ASSUME NEW c \in Streams, pc'[c] = "waiting", c \notin skip'
        PROVE  Linked(c)'
    BY <1>4, <1>5, <1>8, <2>2, LinkStays
  <2> QED
    BY <2>1, <2>2 DEF StreamInv, Links
<1> QED
  BY <1>6, <1>7, <1>8, Zenon DEF DrainCompleted

\* The host gives calls up, or does nothing: the streams among them end with an
\* error.
LEMMA ErrorStreams ==
  ASSUME Types, Path, StreamInv, HandleStop \/ NoRequest \/ (\E late \in SUBSET Calls : Expire(late))
  PROVE  StreamInv'
<1>1. UNCHANGED <<nodeVars, response, buffer, skip, retries>>
  BY Zenon DEF HandleStop, NoRequest, Expire, linkVars, coreVars
<1>2. InOrder' /\ Ends'
  BY <1>1, ConsumersStay DEF StreamInv
<1>3. PICK F \in Seq(Events) :
        evq' = evq \o F /\ \A x \in DOMAIN F : F[x] = Answer(F[x].call, "error") /\ F[x].item = 0
  <2>1. CASE NoRequest
    <3>1. <<>> \in Seq(Events) /\ DOMAIN <<>> = {} /\ evq' = evq \o <<>>
      BY <2>1 DEF NoRequest, linkVars, Types, TypeLink
    <3> QED
      BY <3>1, Zenon
  <2>2. CASE HandleStop
    <3>1. evq' = evq \o FailInflight /\ FailInflight = SetToSeq({Answer(c, "error") : c \in inflight})
      BY <2>2 DEF HandleStop, FailInflight
    <3> QED
      BY <3>1, ErrorsFacts, Zenon
  <2>3. CASE \E late \in SUBSET Calls : Expire(late)
    <3>1. PICK late \in SUBSET Calls : Expire(late)
      BY <2>3
    <3>2. late \subseteq inflight /\ evq' = evq \o SetToSeq({Answer(c, "error") : c \in late})
      BY <3>1 DEF Expire
    <3> QED
      BY <3>2, ErrorsFacts, Zenon
  <2> QED
    BY <2>1, <2>2, <2>3
<1>4. ASSUME NEW c \in Calls
      PROVE  /\ c \in inflight' => c \in inflight /\ sq'[c] = sq[c] /\ next'[c] = next[c]
             /\ fut'[c] = "SUCCEEDED" => fut[c] = "SUCCEEDED" /\ next'[c] = next[c]
  <2>1. CASE NoRequest
    BY <2>1 DEF NoRequest, coreVars
  <2>2. CASE HandleStop
    BY <2>2 DEF HandleStop, CloseHost
  <2>3. CASE \E late \in SUBSET Calls : Expire(late)
    <3>1. PICK late \in SUBSET Calls : Expire(late)
      BY <2>3
    <3>2. /\ inflight' = inflight \ late
          /\ sq' = [d \in Calls |-> IF d \in late THEN <<>> ELSE sq[d]]
          /\ next' = [d \in Calls |-> IF d \in late THEN 1 ELSE next[d]]
          /\ \E f \in ShutDown(fut) : fut' = [d \in Calls |-> IF d \in late THEN "none" ELSE f[d]]
      BY <3>1 DEF Expire
    <3>3. PICK f \in ShutDown(fut) : fut' = [d \in Calls |-> IF d \in late THEN "none" ELSE f[d]]
      BY <3>2
    <3>4. f[c] = "SUCCEEDED" => fut[c] = "SUCCEEDED"
      BY <3>3 DEF ShutDown
    <3> QED
      BY <3>2, <3>3, <3>4
  <2> QED
    BY <2>1, <2>2, <2>3
<1>5. ASSUME NEW c \in Streams, pc'[c] = "waiting", c \notin skip'
      PROVE  Linked(c)'
  <2>1. c \in Calls /\ Linked(c) /\ got'[c] = got[c] /\ buffer'[c] = buffer[c]
    BY <1>1, <1>5, SizesAssumption DEF StreamInv, Links, nodeVars
  <2>2. fut'[c] = "SUCCEEDED" => next'[c] = Items + 1
    BY <1>4, <2>1 DEF Linked
  <2>3. \A x \in DOMAIN F : ~IsItem(c, F[x]) /\ F[x] # Answer(c, "SUCCEEDED")
    <3> TAKE x \in DOMAIN F
    <3>1. F[x] = Answer(F[x].call, "error") /\ F[x].item = 0
      BY <1>3
    <3>2. F[x].status = "error"
      BY <3>1 DEF Answer
    <3> QED
      BY <3>1, <3>2 DEF IsItem, Answer
  <2>4. c \in inflight' => c \in inflight /\ sq'[c] = sq[c] /\ next'[c] = next[c]
    BY <1>4, <2>1
  <2> QED
    BY <1>1, <1>3, <2>1, <2>2, <2>3, <2>4, LinkStays
<1> QED
  BY <1>2, <1>5 DEF StreamInv, Links

\* Every step keeps the streams in order.
LEMMA StreamStep ==
  ASSUME Types, Path, StreamInv, QueueMax <= DrainMax, [Next]_vars
  PROVE  StreamInv'
BY StepsAre, PathStep, CallStreams, NodeStreams, ReadStreams, WorkStreams, HandleStreams,
   DrainStreamsInv, CompletedStreams, ErrorStreams, Zenon DEF LoopStep

\* What a stream yields.
AllOf == [i \in 1..Items |-> i]

\* Without a retry the items are counted from 1 on.
LEMMA Counting ==
  ASSUME NEW a, ~(a > 0), NEW s \in Seq(1..Items), Chained(a, s, 0)
  PROVE  IsPrefix(s, AllOf)
<1>1. Len(s) \in Nat /\ DOMAIN s = 1..Len(s) /\ (\A k \in 1..Len(s) : s[k] \in 1..Items) /\ Items \in Nat
  BY SizesAssumption
<1> DEFINE S == {n \in Nat : n \in 1..Len(s) => s[n] = n}
<1>2. 0 \in S
  OBVIOUS
<1>3. ASSUME NEW n \in Nat, n \in S PROVE n + 1 \in S
  <2> SUFFICES ASSUME n + 1 \in 1..Len(s) PROVE s[n + 1] = n + 1
    OBVIOUS
  <2>1. Follows(a, s[n + 1], Before(s, n + 1, 0))
    BY <1>1 DEF Chained
  <2>2. Before(s, n + 1, 0) = n
    <3>1. CASE n = 0
      BY <3>1 DEF Before
    <3>2. CASE n # 0
      <4>1. n \in 1..Len(s) /\ n + 1 # 1 /\ (n + 1) - 1 = n
        BY <1>1, <3>2
      <4> QED
        BY <1>3, <4>1 DEF Before
    <3> QED
      BY <3>1, <3>2
  <2> QED
    BY <2>1, <2>2 DEF Follows
<1>4. \A n \in Nat : n \in S
  <2> HIDE DEF S
  <2> QED
    BY <1>2, <1>3, Induction, Zenon
<1>5. \A k \in 1..Len(s) : s[k] = k
  BY <1>4
<1>6. Len(s) <= Items
  <2>1. CASE Len(s) = 0
    BY <1>1, <2>1
  <2>2. CASE Len(s) # 0
    <3>1. Len(s) \in 1..Len(s)
      BY <1>1, <2>2
    <3>2. Len(s) \in 1..Items
      BY <1>1, <1>5, <3>1
    <3> QED
      BY <1>1, <3>2
  <2> QED
    BY <2>1, <2>2
<1>7. AllOf \in Seq(1..Items) /\ Len(AllOf) = Items /\ \A k \in 1..Items : AllOf[k] = k
  BY <1>1 DEF AllOf
<1>8. /\ SubSeq(s, 1, Len(s)) = [k \in 1..Len(s) |-> s[k]]
      /\ SubSeq(AllOf, 1, Len(s)) = [k \in 1..Len(s) |-> AllOf[k]]
  BY <1>1, <1>6, <1>7
<1>9. \A k \in 1..Len(s) : s[k] = AllOf[k]
  BY <1>1, <1>5, <1>6, <1>7
<1> QED
  BY <1>6, <1>7, <1>8, <1>9 DEF IsPrefix

\* A chain that ends with the last item ends with all of them.
LEMMA Ending ==
  ASSUME NEW a, NEW s \in Seq(1..Items), Chained(a, s, 0), LastOf(s, 0) = Items
  PROVE  IsSuffix(AllOf, s)
<1> DEFINE n == Len(s)
<1>1. n \in Nat /\ DOMAIN s = 1..n /\ (s = <<>> <=> n = 0) /\ Items \in Nat
  BY SizesAssumption
<1> HIDE DEF n
<1> DEFINE S == {j \in Nat : j < Items => n - j \in 1..n /\ s[n - j] = Items - j}
<1>2. 0 \in S
  <2> SUFFICES ASSUME 0 < Items PROVE n - 0 \in 1..n /\ s[n - 0] = Items - 0
    OBVIOUS
  <2>1. s # <<>> /\ s[n] = Items
    BY <1>1 DEF LastOf, n
  <2> QED
    BY <1>1, <2>1
<1>3. ASSUME NEW j \in Nat, j \in S PROVE j + 1 \in S
  <2> SUFFICES ASSUME j + 1 < Items PROVE n - (j + 1) \in 1..n /\ s[n - (j + 1)] = Items - (j + 1)
    OBVIOUS
  <2> DEFINE k == n - j
  <2>1. k \in 1..n /\ s[k] = Items - j /\ k \in Nat /\ s[k] # 1
    BY <1>1, <1>3
  <2>2. n - (j + 1) = k - 1 /\ Items - (j + 1) = s[k] - 1 /\ s[k] \in Nat
    BY <1>1, <2>1
  <2> HIDE DEF k
  <2>3. Follows(a, s[k], Before(s, k, 0))
    BY <1>1, <2>1 DEF Chained
  <2>4. s[k] = Before(s, k, 0) + 1
    BY <2>1, <2>3 DEF Follows
  <2>5. k # 1 /\ s[k] = s[k - 1] + 1
    BY <2>1, <2>4 DEF Before
  <2>6. k - 1 \in 1..n
    BY <1>1, <2>1, <2>5
  <2>7. s[k - 1] \in 1..Items
    BY <1>1, <2>6 DEF n
  <2>8. s[k - 1] = s[k] - 1
    BY <1>1, <2>5, <2>7
  <2> QED
    BY <2>2, <2>6, <2>8
<1>4. \A j \in Nat : j \in S
  <2> HIDE DEF S
  <2> QED
    BY <1>2, <1>3, Induction, Zenon
<1>5. Items <= n
  <2>1. CASE Items = 0
    BY <1>1, <2>1
  <2>2. CASE Items # 0
    <3>1. Items - 1 \in Nat /\ Items - 1 < Items
      BY <1>1, <2>2
    <3>2. n - (Items - 1) \in 1..n
      BY <1>4, <3>1
    <3> QED
      BY <1>1, <3>1, <3>2
  <2> QED
    BY <2>1, <2>2
<1>6. AllOf \in Seq(1..Items) /\ Len(AllOf) = Items /\ \A k \in 1..Items : AllOf[k] = k
  BY <1>1 DEF AllOf
<1> DEFINE u == Reverse(AllOf)
           v == Reverse(s)
<1>7. u = [k \in 1..Items |-> AllOf[(Items - k) + 1]] /\ v = [k \in 1..n |-> s[(n - k) + 1]]
  BY <1>6 DEF Reverse, n
<1>8. Len(u) = Items /\ Len(v) = n /\ u \in Seq(Nat) /\ v \in Seq(Nat)
  <2>1. \A k \in 1..n : (n - k) + 1 \in 1..n /\ s[(n - k) + 1] \in Nat
    <3> TAKE k \in 1..n
    <3>1. (n - k) + 1 \in 1..n
      BY <1>1
    <3>2. s[(n - k) + 1] \in 1..Items
      BY <1>1, <3>1 DEF n
    <3> QED
      BY <1>1, <3>1, <3>2
  <2>2. \A k \in 1..Items : AllOf[(Items - k) + 1] \in Nat
    BY <1>1, <1>6
  <2> QED
    BY <1>1, <1>7, <2>1, <2>2
<1>9. \A k \in 1..Items : u[k] = v[k]
  <2> TAKE k \in 1..Items
  <2>1. k - 1 \in Nat /\ k - 1 < Items /\ k \in 1..n /\ (Items - k) + 1 \in 1..Items
        /\ n - (k - 1) = (n - k) + 1 /\ Items - (k - 1) = (Items - k) + 1
    BY <1>1, <1>5
  <2>2. s[n - (k - 1)] = Items - (k - 1)
    BY <1>4, <2>1
  <2>3. u[k] = (Items - k) + 1 /\ v[k] = s[(n - k) + 1]
    BY <1>6, <1>7, <2>1
  <2> QED
    BY <2>1, <2>2, <2>3
<1> HIDE DEF u, v
<1>10. SubSeq(u, 1, Items) = [k \in 1..Items |-> u[k]] /\ SubSeq(v, 1, Items) = [k \in 1..Items |-> v[k]]
  BY <1>1, <1>5, <1>8
<1>11. SubSeq(u, 1, Len(u)) = SubSeq(v, 1, Len(u))
  BY <1>8, <1>9, <1>10
<1>12. IsPrefix(u, v)
  BY <1>5, <1>8, <1>11 DEF IsPrefix
<1> QED
  BY <1>12 DEF IsSuffix, u, v

\* What is under way to the consumers is as promised.
LEMMA StreamsPromised ==
  ASSUME Types, StreamInv
  PROVE  StreamExact
<1>1. ASSUME NEW c \in Streams
      PROVE  c \in Calls /\ got[c] \in Seq(1..Items) /\ Chained(retries[c], got[c], 0)
             /\ (outcome[c] = "SUCCEEDED" => LastOf(got[c], 0) = Items)
  <2>1. c \in Calls
    BY SizesAssumption
  <2>2. Chained(retries[c], Received(c), 0) /\ (outcome[c] = "SUCCEEDED" => LastOf(got[c], 0) = Items)
    BY DEF StreamInv, InOrder, Ends
  <2> QED
    BY <2>1, <2>2, Parts
<1>2. AllOf = [i \in 1..Items |-> i]
  BY DEF AllOf
<1>3. StreamComplete
  <2> SUFFICES ASSUME NEW c \in Streams, outcome[c] = "SUCCEEDED"
               PROVE  IsSuffix(AllOf, got[c])
    BY <1>2 DEF StreamComplete
  <2> QED
    BY <1>1, Ending
<1>4. NoRepeatWithoutRetry
  <2> SUFFICES ASSUME NEW c \in Streams, retries[c] = 0
               PROVE  IsPrefix(got[c], AllOf)
    BY <1>2 DEF NoRepeatWithoutRetry
  <2>1. ~(retries[c] > 0)
    OBVIOUS
  <2> QED
    BY <1>1, <2>1, Counting
<1> QED
  BY <1>3, <1>4 DEF StreamExact

-----------------------------------------------------------------------------
(* The theorems *)

\* The invariants hold of a service that has just been created.
LEMMA InitInv == Init => Types /\ Path /\ Counts
<1> SUFFICES ASSUME Init PROVE Types /\ Path /\ Counts
  OBVIOUS
<1>1. <<>> \in Sequences1 /\ <<>> \in Seq(Events) /\ <<>> \in Seq(Calls \cup {"stop"})
      /\ Items \in Nat /\ QueueMax \in Nat /\ IsFiniteSet({}) /\ Cardinality({}) = 0
      /\ Len(<<>>) = 0
  BY FS_EmptySet, SizesAssumption DEF Sequences1
<1>2. TypeNode
  BY <1>1 DEF Init, TypeNode, Steps
<1>3. TypeLink
  BY <1>1 DEF Init, TypeLink
<1>4. \A c \in Calls : Len(sq[c]) <= QueueMax
  BY <1>1 DEF Init
<1>5. TypeCore
  BY <1>1, <1>4 DEF Init, TypeCore
<1>6. Path
  BY DEF Init, Path, Protocol, AskedOnce, AnswerLast, Untouched, Tracked, Waits, Leaves, Over,
     Done, Queued, Told
<1>7. Open = {} /\ Gone = {}
  BY DEF Init, Open, Gone, Waiting
<1>8. Counts
  BY <1>1, <1>7 DEF Init, Counts
<1> QED
  BY <1>2, <1>3, <1>5, <1>6, <1>8 DEF Types

\* The values, what is under way between the node, the client and the host, and
\* the counts are as stated in every state, of any number of calls.
THEOREM Invariant == Spec => [](Types /\ Path /\ Counts)
<1>1. Types /\ Path /\ Counts /\ [Next]_vars => (Types /\ Path /\ Counts)'
  BY TypesStep, PathStep, CountsStep
<1> QED
  BY <1>1, InitInv, PTL DEF Spec

\* The host never has a future queued or running on its workers of a call it has
\* answered (_inflight, _submit_service_future, _expire_timed_out_requests).
THEOREM WorkersTracked == Spec => []RunsAreTracked
<1>1. Path => RunsAreTracked
  BY DEF Path, Tracked, RunsAreTracked
<1> QED
  BY <1>1, Invariant, PTL

\* The counts of the service are the calls under way and the streams whose peer
\* went away, and a wait that is over leaves nothing in the tables of the client
\* (request_count, returned_count, _responses, _stream_events).
THEOREM AccountsExact == Spec => []CallsAccounted
<1>1. Counts => InflightExact
  BY DEF Counts, InflightExact, Gone
<1>2. Path => NoResidue
  BY DEF Path, Leaves, NoResidue, Over
<1> QED
  BY <1>1, <1>2, Invariant, PTL DEF CallsAccounted

\* No stream has been asked for at first.
LEMMA InitStreams == Init => StreamInv
<1> SUFFICES ASSUME Init PROVE StreamInv
  OBVIOUS
<1>1. \A c \in Calls : got[c] = <<>> /\ buffer[c] = <<>> /\ outcome[c] = "none" /\ pc[c] = "idle"
  BY DEF Init
<1>2. InOrder
  <2> SUFFICES ASSUME NEW c \in Streams PROVE Chained(retries[c], Received(c), 0)
    BY DEF InOrder
  <2>1. Received(c) = <<>> \o <<>> /\ <<>> \o <<>> = <<>>
    BY <1>1, SizesAssumption DEF Received
  <2>2. Received(c) = <<>>
    BY <2>1
  <2> QED
    BY <2>2 DEF Chained
<1>3. Links /\ Ends
  BY <1>1, SizesAssumption DEF Links, Ends
<1> QED
  BY <1>2, <1>3 DEF StreamInv

\* A consumer gets the items of its stream in order, from the first on, and all of
\* them before a good end; only a retry starts again.  It holds for any number of
\* calls, items and retries, if one drain takes all that the queue of a worker can
\* hold, as in the code, where both are 32 (_drain_stream_meta).
THEOREM StreamsExact == QueueMax <= DrainMax => (Spec => []StreamExact)
<1> SUFFICES ASSUME QueueMax <= DrainMax PROVE Spec => []StreamExact
  OBVIOUS
<1>1. StreamInv /\ Types /\ Path /\ [Next]_vars => StreamInv'
  BY StreamStep
<1>2. StreamInv /\ Types => StreamExact
  BY StreamsPromised
<1> QED
  BY <1>1, <1>2, InitStreams, Invariant, PTL DEF Spec
=============================================================================
