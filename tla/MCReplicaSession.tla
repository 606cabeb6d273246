--------------------------- MODULE MCReplicaSession ---------------------------
EXTENDS ReplicaSession

\* Two nodes, the first of which may restart as another instance.
TwoNodes == <<"a", "b", "a">>

Of(k, f, d, s, r) == [kind |-> k, faults |-> f, deaths |-> d, restarts |-> s, refusals |-> r]
Mixed == {Of("task_pool", 1, 1, 0, 0), Of("service", 0, 1, 1, 0), Of("service", 1, 0, 0, 0),
          Of("service", 0, 1, 0, 1)}

=============================================================================
