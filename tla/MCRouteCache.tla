----------------------------- MODULE MCRouteCache -----------------------------
EXTENDS RouteCache
CONSTANTS r1, r2, c1, c2

\* No action tells two routes or two calls apart.
Symmetry == Permutations(Routes) \union Permutations(Calls)
=============================================================================
