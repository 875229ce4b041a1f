----------------------------- MODULE Clustering -----------------------------
(***************************************************************************)
(* Density clustering: union_dbscan of liblwgeom/lwgeom_geos_cluster.c,    *)
(* behind ST_ClusterDBSCAN, with min_points 1 also what                    *)
(* ST_ClusterWithin and ST_ClusterIntersecting compute.                    *)
(*                                                                         *)
(* One geometry after the other asks a spatial index for candidates and    *)
(* measures the distance to each, in the order the index returns them.     *)
(* Classes only ever grow: what a geometry is found to be later must agree *)
(* with the unions made before.                                            *)
(*                                                                         *)
(* The problem - which pairs are within eps, which geometries are empty -  *)
(* is given; uf is the partition a UnionFind keeps (module Partition).     *)
(***************************************************************************)
EXTENDS Naturals, FiniteSets

CONSTANTS
  NumGeoms,  \* number of geometries
  Problems   \* [near, empty, minPoints] of each problem to solve

Geoms == 0 .. NumGeoms - 1

ASSUME ClusteringAssumption ==
  /\ NumGeoms \in Nat
  /\ \A pr \in Problems :
       /\ pr.minPoints \in Nat
       /\ pr.empty \subseteq Geoms
       /\ \A pair \in pr.near :
            pair \subseteq Geoms \ pr.empty /\ Cardinality(pair) = 2

VARIABLES
  problem,
  uf,             \* the partition
  in_a_cluster,   \* geometries that are in a cluster
  is_in_core,     \* geometries that are core points
  at,             \* p: the geometry whose turn it is
  found,          \* items_found: candidates not looked at yet
  neighbors,      \* those set aside until there are min_points of them
  dbPhase         \* "next" geometry, "visit" its candidates, or the result

dbVars == <<problem, uf, in_a_cluster, is_in_core, at, found, neighbors, dbPhase>>

Q == INSTANCE Partition WITH Elements <- Geoms, classes <- uf

MinPoints == problem.minPoints
General   == MinPoints > 1

\* mindist <= eps
Near(p, q) == p = q \/ {p, q} \in problem.near

Neighborhood(p) == {q \in Geoms \ problem.empty : Near(p, q)}

\* union_dbscan; with min_points 1 every geometry is in a cluster of its own
\* from the start, and with more geometries needed than given there is nothing
\* to do.
DBInit ==
  /\ problem \in Problems
  /\ uf = Q!Alone
  /\ in_a_cluster = IF General THEN {} ELSE Geoms
  /\ is_in_core = {}
  /\ at = 0
  /\ found = {}
  /\ neighbors = {}
  /\ dbPhase = IF General /\ NumGeoms < MinPoints THEN "success" ELSE "next"

\* The geometry at is passed over, or its candidates are exhausted.
Advance ==
  /\ dbPhase' = "next"
  /\ at' = at + 1
  /\ found' = {}
  /\ neighbors' = {}
  /\ UNCHANGED <<problem, uf, in_a_cluster, is_in_core>>

Skip ==
  /\ dbPhase = "next"
  /\ at \in problem.empty
  /\ Advance

\* dbscan_update_context: by its box a geometry finds all that are near, and
\* perhaps others; empty geometries are not in the index.
UpdateContext(candidates) ==
  /\ dbPhase = "next"
  /\ at \in Geoms \ problem.empty
  /\ Neighborhood(at) \subseteq candidates
  /\ IF General /\ Cardinality(candidates) < MinPoints
     THEN Advance
     ELSE /\ found' = candidates
          /\ dbPhase' = "visit"
          /\ UNCHANGED <<problem, uf, in_a_cluster, is_in_core, at, neighbors>>

\* mutant: a border point of another cluster joins the two
JoinsAny(q, core, placed) == TRUE

\* union_if_available unites p with q unless q is a border point elsewhere.
Joins(q, core, placed) == q \notin placed \/ q \in core

UnionIfAvailable(S, core, placed) ==
  /\ uf' = Q!Merge(uf, {at} \cup {q \in S : Joins(q, core, placed)})
  /\ in_a_cluster' = placed \cup S
  /\ is_in_core' = core

\* The distance of q need not be known.
KnownAlready(q) ==
  /\ ~General \/ Cardinality(neighbors) = MinPoints
  /\ \/ Q!Together(uf, at, q)
     \/ General /\ q \in in_a_cluster \ is_in_core

\* min_points = 1: near candidates are united at once.
UniteNow(q) ==
  /\ uf' = Q!Merge(uf, {at, q})
  /\ UNCHANGED <<in_a_cluster, is_in_core, neighbors>>

\* Before there are min_points neighbors, q is set aside; the last one makes
\* the geometry a core point, and all of them are united with it.
SetAside(q) ==
  /\ neighbors' = neighbors \cup {q}
  /\ IF Cardinality(neighbors') = MinPoints
     THEN UnionIfAvailable(neighbors', is_in_core \cup {at}, in_a_cluster \cup {at})
     ELSE UNCHANGED <<uf, in_a_cluster, is_in_core>>

\* Past min_points, q is united at once.
UniteNext(q) ==
  /\ UnionIfAvailable({q}, is_in_core, in_a_cluster)
  /\ UNCHANGED neighbors

Visit(q) ==
  /\ dbPhase = "visit"
  /\ q \in found
  /\ found' = found \ {q}
  /\ IF KnownAlready(q) \/ ~Near(at, q)
     THEN UNCHANGED <<uf, in_a_cluster, is_in_core, neighbors>>
     ELSE \/ ~General /\ UniteNow(q)
          \/ General /\ Cardinality(neighbors) < MinPoints /\ SetAside(q)
          \/ General /\ Cardinality(neighbors) = MinPoints /\ UniteNext(q)
  /\ UNCHANGED <<problem, at, dbPhase>>

\* The distance cannot be computed: LW_FAILURE.  (With min_points 1 the loop
\* over the geometries goes on, to the same result.)
DistanceFails ==
  /\ dbPhase = "visit"
  /\ \E q \in found : ~KnownAlready(q)
  /\ dbPhase' = "failure"
  /\ UNCHANGED <<problem, uf, in_a_cluster, is_in_core, at, found, neighbors>>

CandidatesDone == dbPhase = "visit" /\ found = {} /\ Advance

DBEnds ==
  /\ dbPhase = "next"
  /\ at = NumGeoms
  /\ dbPhase' = "success"
  /\ UNCHANGED <<problem, uf, in_a_cluster, is_in_core, at, found, neighbors>>

DBNext ==
  \/ Skip \/ CandidatesDone \/ DistanceFails \/ DBEnds
  \/ \E candidates \in SUBSET (Geoms \ problem.empty) : UpdateContext(candidates)
  \/ \E q \in Geoms : Visit(q)

DBSpec == DBInit /\ [][DBNext]_dbVars

-----------------------------------------------------------------------------
\* The variables hold values of the types their declarations say: uf is a
\* partition.
DBTypeOK ==
  /\ problem \in Problems
  /\ uf \in SUBSET SUBSET Geoms
  /\ UNION uf = Geoms
  /\ \A c, d \in uf : c = d \/ c \cap d = {}
  /\ {} \notin uf
  /\ in_a_cluster \subseteq Geoms
  /\ is_in_core \subseteq in_a_cluster
  /\ at \in 0 .. NumGeoms
  /\ found \subseteq Geoms
  /\ neighbors \subseteq Geoms
  /\ dbPhase \in {"next", "visit", "success", "failure"}

\* The core points of the problem.
Core == {p \in Geoms \ problem.empty : Cardinality(Neighborhood(p)) >= MinPoints}

\* S has, with each of its geometries, the core points near it.
Spread(S) == \A p \in S, q \in Core : Near(p, q) => q \in S

\* From p, one gets to q by steps from one core point to another near it: no set
\* of core points that spreads has p and not q.
Linked(p, q) ==
  /\ p \in Core /\ q \in Core
  /\ \A S \in SUBSET Core : p \in S /\ Spread(S) => q \in S

\* The definition of the clusters.  Core points are together if and only if
\* core points connect them; the other geometries near a core point are each in
\* the cluster of one of those; and the rest are in none, alone.
IsClustering ==
  /\ \A p, q \in Core : Q!Together(uf, p, q) <=> Linked(p, q)
  /\ \A b \in Geoms \ Core :
       LET cores == Neighborhood(b) \cap Core
       IN  IF cores = {} \/ b \in problem.empty
           THEN {b} \in uf /\ (General => b \notin in_a_cluster)
           ELSE b \in in_a_cluster /\ \E c \in cores : Q!Together(uf, b, c)
  /\ Core \subseteq in_a_cluster

\* Whatever the order in which the geometries and their candidates come, and
\* whatever the boxes add to them, the result is a clustering by the definition.
ClustersExact == dbPhase = "success" => IsClustering

\* A border point stays with the cluster that took it first: once its class
\* holds a core point, a geometry that is not one is never brought together
\* with core points that nothing but border points connect it to.
CoresStayApart == \A p, q \in Core : Q!Together(uf, p, q) => Linked(p, q)
=============================================================================
