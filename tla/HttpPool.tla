------------------------------ MODULE HttpPool ------------------------------
(***************************************************************************)
(* The connection pool that every HTTP client of a process shares          *)
(* (controlplane/http_connection_pool.py): request() takes a connection to *)
(* an origin or waits for one, sends, and gives it back.                   *)
(*                                                                         *)
(* One condition variable serves the waiters of all origins.  Calls, and   *)
(* the connections of an origin, are alike but for the steps they are at,  *)
(* so the calls are a bag and the connections are counted.  Time is        *)
(* abstracted: idle connections expire, and deadlines pass, whenever the   *)
(* code looks at them.                                                     *)
(***************************************************************************)
EXTENDS Integers, Bags

CONSTANTS
  Origins,    \* servers
  MaxConns,   \* max_connections_per_origin
  MaxIdle,    \* max_idle_connections_per_origin
  MaxCalls    \* bound: calls of request() at a time

ASSUME HttpPoolAssumption ==
  /\ MaxConns \in Nat \ {0} /\ MaxIdle \in 0 .. MaxConns
  /\ MaxCalls \in Nat

VARIABLES
  count,    \* connection_count of each origin
  idle,     \* how many of its connections are idle
  asks,     \* the calls under way
  poolEnd,  \* _closed of the pool
  crossed   \* history: origins with a waiter whose wakeup another origin's call took

poolVars == <<count, idle, asks, poolEnd, crossed>>

\* Moves one call of the bag B from x to y, or out of it.
Moves(B, x, y) == (B (-) SetToBag({x})) (+) SetToBag({y})
Leaves(B, x)   == B (-) SetToBag({x})

Under(L) == {x \in BagToSet(asks) : x.at \in L}
Waiting(o) == {x \in Under({"asleep"}) : x.origin = o}
\* How many calls have a connection to o in their hands.
Leased(o) ==
  LET Holds(x) == x.origin = o /\ x.at \in {"lease", "keep", "drop"}
  IN  BagCardinality([x \in {y \in BagToSet(asks) : Holds(y)} |-> asks[x]])

PoolInit ==
  /\ count = [o \in Origins |-> 0] /\ idle = [o \in Origins |-> 0]
  /\ asks = EmptyBag /\ poolEnd = FALSE /\ crossed = {}

-----------------------------------------------------------------------------
\* request(): a second attempt is only made for methods that may be repeated.
Call(o, repeatable) ==
  /\ BagCardinality(asks) < MaxCalls
  /\ asks' = asks (+) SetToBag({[at |-> "want", origin |-> o, again |-> repeatable, fresh |-> FALSE]})
  /\ UNCHANGED <<count, idle, poolEnd, crossed>>

\* _acquire, one round under the condition: k expired connections are dropped,
\* and the oldest when the second attempt asks for a fresh one; then an idle one
\* is taken, or a new one made, or the call waits, or its deadline has passed.
Acquire(x, k) ==
  LET o    == x.origin
      drop == IF x.fresh /\ idle[o] > k THEN k + 1 ELSE k
      rest == idle[o] - drop
      n    == count[o] - drop
  IN /\ x.at \in {"want", "woken", "late"} /\ k \in 0 .. idle[o] /\ ~poolEnd
     /\ \/ /\ ~x.fresh /\ rest > 0
           /\ idle' = [idle EXCEPT ![o] = rest - 1] /\ count' = [count EXCEPT ![o] = n]
           /\ asks' = Moves(asks, x, [x EXCEPT !.at = "lease"])
        \/ /\ x.fresh \/ rest = 0
           /\ n < MaxConns
           /\ idle' = [idle EXCEPT ![o] = rest] /\ count' = [count EXCEPT ![o] = n + 1]
           /\ asks' = Moves(asks, x, [x EXCEPT !.at = "lease"])
        \/ /\ x.fresh \/ rest = 0
           /\ n >= MaxConns
           /\ asks' = IF x.at = "late" THEN Leaves(asks, x) ELSE Moves(asks, x, [x EXCEPT !.at = "asleep"])
           /\ UNCHANGED <<idle, count>>
     /\ UNCHANGED <<poolEnd, crossed>>

\* ... or the pool has been closed.
AcquireClosed(x) ==
  /\ x.at \in {"want", "woken", "late"} /\ poolEnd
  /\ asks' = Leaves(asks, x)
  /\ UNCHANGED <<count, idle, poolEnd, crossed>>

\* The deadline of a waiter: it looks once more.
WaitExpires(x) ==
  /\ x.at = "asleep" /\ asks' = Moves(asks, x, [x EXCEPT !.at = "late"])
  /\ UNCHANGED <<count, idle, poolEnd, crossed>>

\* The response has been read, and the connection may serve again or not; or the
\* connection breaks or the answer takes too long.
Respond(x, keep) ==
  /\ x.at = "lease"
  /\ asks' = Moves(asks, x, [x EXCEPT !.at = IF keep THEN "keep" ELSE "drop", !.again = FALSE])
  /\ UNCHANGED <<count, idle, poolEnd, crossed>>

Broken(x) ==
  /\ x.at = "lease" /\ asks' = Moves(asks, x, [x EXCEPT !.at = "drop"])
  /\ UNCHANGED <<count, idle, poolEnd, crossed>>

\* Mutant: nobody is woken.
MutNotify(o, B) == asks' = B /\ UNCHANGED crossed

\* notify() after a release at origin o: one waiter wakes, of any origin.
Notify(o, B) ==
  LET asleep == Under({"asleep"}) IN
  \/ asleep = {} /\ asks' = B /\ UNCHANGED crossed
  \/ \E w \in asleep :
       /\ asks' = Moves(B, w, [w EXCEPT !.at = "woken"])
       /\ crossed' = IF w.origin # o /\ Waiting(o) # {} THEN crossed \cup {o} ELSE crossed

\* _release: the connection goes back to the idle ones or is closed; close() has
\* forgotten the counts.  A call that failed makes its second attempt.
ReleaseConn(x) ==
  LET o     == x.origin
      keeps == x.at = "keep" /\ ~poolEnd /\ idle[o] < MaxIdle
  IN /\ x.at \in {"keep", "drop"}
     /\ idle' = [idle EXCEPT ![o] = IF keeps THEN @ + 1 ELSE @]
     /\ count' = [count EXCEPT ![o] = IF keeps \/ poolEnd THEN @ ELSE @ - 1]
     /\ Notify(o, IF x.again THEN Moves(asks, x, [x EXCEPT !.at = "want", !.again = FALSE, !.fresh = TRUE])
                  ELSE Leaves(asks, x))
     /\ UNCHANGED poolEnd

\* close() of the pool wakes all who wait.
ClosePool ==
  LET Woken(x) == IF x.at = "asleep" THEN [x EXCEPT !.at = "woken"] ELSE x
  IN /\ ~poolEnd /\ poolEnd' = TRUE
     /\ idle' = [o \in Origins |-> 0] /\ count' = [o \in Origins |-> 0]
     /\ asks' = BagOfAll(Woken, asks)
     /\ UNCHANGED crossed

PoolNext ==
  \/ \E o \in Origins, b \in BOOLEAN : Call(o, b)
  \/ \E x \in BagToSet(asks) :
       \/ \E k \in 0 .. MaxIdle : Acquire(x, k)
       \/ AcquireClosed(x) \/ WaitExpires(x) \/ ReleaseConn(x) \/ Broken(x)
       \/ \E keep \in BOOLEAN : Respond(x, keep)
  \/ ClosePool

PoolSpec == PoolInit /\ [][PoolNext]_poolVars

-----------------------------------------------------------------------------
(* Properties. *)

\* The count of an origin, which decides whether its callers wait, is exactly
\* the number of its connections: the idle ones and those in the hands of a call,
\* through expiry, second attempts on a fresh connection, and errors.
\* (_acquire, _release)
ConnsCounted == ~poolEnd => \A o \in Origins : count[o] = idle[o] + Leased(o)

\* Nobody sleeps beside a connection he could have: while a call waits, its
\* origin is at its limit with nothing idle, or a wakeup is on its way, or the
\* wakeup went to a call of another origin (notify in _release).
SleepJustified ==
  \A o \in Origins \ crossed :
    Waiting(o) # {} => \/ count[o] = MaxConns /\ idle[o] = 0
                       \/ Under({"woken", "late"}) # {}
=============================================================================
