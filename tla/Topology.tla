------------------------------ MODULE Topology ------------------------------
(***************************************************************************)
(* The topology's commitments (topology.cpp) and the check that a removal  *)
(* leaves them standing.  `net' is what was declared: per resource its     *)
(* capacity, reservation and neighbours; the pools, paths, groups and      *)
(* routes.  `st' gives the status of every resource ("absent" when it is   *)
(* not in the topology).  A path is the set of its hops: no check depends  *)
(* on their order.  All quantities are far below 2^64, so the saturating   *)
(* sums and products of the code are plain ones here.                      *)
(***************************************************************************)
EXTENDS Naturals, FiniteSets

LOCAL INSTANCE FiniteSetsExt

CONSTANT MaxRouteDepth \* kMaxRouteDepth: the most nodes a route may have

available(net, x) ==
  IF net.reserved[x] < net.capacity[x] THEN net.capacity[x] - net.reserved[x] ELSE 0

\* Rounds up, so that a fractional headroom is never rounded away.
apply_headroom(required, numerator, denominator) ==
  IF denominator = 0 THEN required
  ELSE (required * numerator + denominator - 1) \div denominator

total_available(net, S) == MapThenSumSet(LAMBDA x : available(net, x), S)

available_pool_capacity(net, st, pool, excluded) ==
  total_available(net, {x \in pool.members \ excluded : st[x] = "in-service"})

\* A hop that is not in the topology is not excluded: it counts as usable.
usable_paths(net, group, excluded) ==
  {p \in group.paths \cap DOMAIN net.paths : net.paths[p] \cap excluded = {}}

\* The nodes at the end of some route of at most n open nodes from `from'.
RouteEnds(net, open, from, n) ==
  LET ends[k \in 1..n] ==
        IF k = 1 THEN {from} \cap open
        ELSE UNION {{x} \cup net.neighbors[x] : x \in ends[k - 1]} \cap open
  IN ends[n]

\* enumerate_routes finds a route, within kMaxRouteExpansions (20000) expansions: the budget
\* is left out, no topology of a run comes near it.  The search starts with `from' on its path,
\* so it never finds the empty route from a node to itself.
has_route(net, st, excluded, route) ==
  LET open == {x \in DOMAIN st : st[x] = "in-service"} \ excluded
  IN /\ route.origin # route.terminus
     /\ route.terminus \in RouteEnds(net, open, route.origin, MaxRouteDepth)

validate_removal_many(net, st, removing, numerator, denominator) ==
  LET excluded == {x \in DOMAIN st : st[x] \in {"unavailable", "failed"}} \cup removing
  IN /\ removing # {}
     /\ \A x \in removing : st[x] # "absent" /\ net.reserved[x] <= net.capacity[x]
     /\ \A pool \in net.pools :
          available_pool_capacity(net, st, pool, excluded)
            >= apply_headroom(pool.required, numerator, denominator)
     /\ \A group \in net.groups :
          Cardinality(usable_paths(net, group, excluded)) >= group.required_available
     /\ \A route \in net.routes : has_route(net, st, excluded, route)
==============================================================================
