------------------------------- MODULE MCDeploy -------------------------------
EXTENDS Deploy

Ask(k, o, c, p, want, need, partial, takeover) ==
    [kind |-> k, owner |-> o, code |-> c, proc |-> p, desired |-> want, required |-> need,
     partial |-> partial, takeover |-> takeover]
Left(f, d, n, k) == [faults |-> f, deaths |-> d, downs |-> n, kills |-> k]
Of(a, b, old, rest) == [plan |-> <<a, b>>, prior |-> old, left |-> rest]

V1(p) == Ask("service", "o1", "c1", p, 2, 1, TRUE, TRUE)
V2(p) == Ask("service", "o1", "c2", p, 2, 2, FALSE, TRUE)
One(p) == Ask("service", "o1", "c1", p, 1, 1, TRUE, TRUE)
Other == Ask("service", "o2", "c1", 2, 2, 1, TRUE, FALSE)
Pool(want) == Ask("task_pool", "o2", "c1", 2, want, 1, TRUE, TRUE)

\* Reuse and replacement of an earlier deployment with a call that fails; the same
\* with a death; a pool and a service on nodes of which one goes down; two owners
\* of one name, and two processes of one owner.
Mixed == {Of(One(1), V2(1), {1}, Left(1, 0, 0, 0)), Of(One(1), V2(1), {1}, Left(0, 1, 0, 0)),
          Of(One(1), Pool(2), {}, Left(1, 0, 1, 0)), Of(V1(1), Other, {}, Left(0, 0, 0, 1)),
          Of(V1(1), V1(2), {}, Left(0, 0, 0, 0))}

\* The disagreements the README describes: HandleAlwaysRecovers, OneHolder and, on
\* three nodes, NotTooMany.
Handle == {Of(V1(1), One(1), {}, Left(0, 2, 0, 0))}
Processes == {Of(V1(1), V1(2), {1}, Left(0, 0, 0, 0))}
Pools == {Of(Pool(2), [Pool(2) EXCEPT !.owner = "o1"], {}, Left(2, 0, 0, 0))}
=============================================================================
