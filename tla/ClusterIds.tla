----------------------------- MODULE ClusterIds -----------------------------
(***************************************************************************)
(* What is read off a union-find that is at rest: the numbers of the       *)
(* clusters, for ST_ClusterDBSCAN (UF_get_collapsed_cluster_ids of         *)
(* lwunionfind.c), and the groups of geometries, for ST_ClusterWithin and  *)
(* ST_ClusterIntersecting (combine_geometries of lwgeom_geos_cluster.c).   *)
(*                                                                         *)
(* Both walk through the elements sorted by root.  qsort puts the elements *)
(* of one root in any order.  The calls of UF_find on the way move no      *)
(* element to another root, and are left out.                              *)
(***************************************************************************)
EXTENDS UnionFind, Functions

\* The arrays of all elements, indexed from 0.
Orders == Bijection(Elements, Elements)

\* UF_ordered_by_cluster: those it may return.
UF_ordered_by_cluster ==
  LET root == Up[N]
  IN  {order \in Orders :
         \A k \in 1 .. N - 1 : root[order[k - 1]] <= root[order[k]]}

\* mutant: last_old_id starts at 0 and is compared at once
ChangesFromZero(root, order, S) ==
  {k \in Elements :
     /\ order[k] \in S
     /\ IF \E l \in 0 .. k - 1 : order[l] \in S
        THEN \E l \in 0 .. k - 1 :
               /\ order[l] \in S
               /\ \A m \in l + 1 .. k - 1 : order[m] \notin S
               /\ root[order[l]] # root[order[k]]
        ELSE root[order[k]] # 0}

\* The places where the elements of S come to another root than the one before.
Changes(root, order, S) ==
  {k \in Elements : \E l \in 0 .. k - 1 :
     /\ {order[k], order[l]} \subseteq S
     /\ \A m \in l + 1 .. k - 1 : order[m] \notin S
     /\ root[order[l]] # root[order[k]]}

\* The numbers that the elements of S get: how many changes there were.
UF_get_collapsed_cluster_ids(order, S) ==
  LET changes == Changes(Up[N], order, S)
  IN  [j \in S |-> Cardinality({k \in changes : k <= CHOOSE l \in Elements : order[l] = j})]

\* mutant: the last element does not close its group
LastsButOne(root, order) ==
  {k \in Elements : k # N - 1 /\ root[order[k]] # root[order[k + 1]]}

\* The places where a group ends.
Lasts(root, order) ==
  {k \in Elements : k = N - 1 \/ root[order[k]] # root[order[k + 1]]}

\* combine_geometries: the group that is made at each of those places.
combine_geometries(order) ==
  LET lasts == Lasts(Up[N], order)
  IN  [k \in lasts |-> {order[m] : m \in {x \in 0 .. k : \A l \in lasts : l < k => l < x}}]

-----------------------------------------------------------------------------
\* Between two calls, once anything was united: before, no two elements can be
\* mixed up.
AtRest == call = UFIdle /\ num_clusters < N

\* Whatever qsort does with equal elements, and whichever elements are in a
\* cluster, their numbers are 0, 1, 2, ... without a gap, and two elements have
\* the same one if and only if they were united.
ClusterIdsExact ==
  AtRest =>
    \A order \in UF_ordered_by_cluster, S \in SUBSET Elements :
      LET ids == UF_get_collapsed_cluster_ids(order, S)
          used == {ids[j] : j \in S}
      IN  /\ used = 0 .. Cardinality(used) - 1
          /\ \A i, j \in S : ids[i] = ids[j] <=> P!Together(united, i, j)

\* combine_geometries makes one group of each class, no more than it has room
\* for: "Should not get here - it means that we have more clusters than
\* uf->num_clusters thinks we should."
GroupsExact ==
  AtRest =>
    \A order \in UF_ordered_by_cluster :
      LET groups == combine_geometries(order)
      IN  /\ {groups[k] : k \in DOMAIN groups} = united
          /\ Cardinality(DOMAIN groups) = num_clusters
=============================================================================
