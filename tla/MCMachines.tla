----------------------------- MODULE MCMachines -----------------------------
(***************************************************************************)
(* Model-checking instances of the modules of single calls and queries:    *)
(* the cache of a query, a union-find, a clustering, and an index.  They   *)
(* share nothing, and are checked together: a behaviour is one of the      *)
(* machine it starts as, and the others stay at rest.                      *)
(***************************************************************************)
EXTENDS GeomCache, ClusterIds, Clustering, GistIndex

VARIABLE machine

TwoPolys == [k \in Keys |-> IF k = 1 THEN "polyA" ELSE "polyB"]

Pairs(S) == {e \in SUBSET S : Cardinality(e) = 2}

\* Every graph of four geometries, with an empty one among them ...
FourNear ==
  {[near |-> E, empty |-> {3}, minPoints |-> m] : E \in SUBSET Pairs(Geoms \ {3}), m \in 1 .. 3}

\* ... and two core points that share three border points.
SharedBorder ==
  {[near |-> {e \in Pairs(Geoms) : Cardinality(e \cap cores) = 1}, empty |-> {},
    minPoints |-> 4] : cores \in Pairs(Geoms)}

FiveGeoms == FourNear \cup SharedBorder

Box(x1, x2, y1, y2) == [xmin |-> x1, xmax |-> x2, ymin |-> y1, ymax |-> y2]

\* Rows that cross and touch, and two empty ones.
SixRows ==
  <<Box(0, 1, 0, 0), EmptyBox, Box(1, 1, 0, 2), Box(0, 3, 1, 1), EmptyBox, Box(2, 3, 0, 0)>>

ThreeBoxes == {Box(1, 1, 0, 0), Box(0, 1, 0, 0), Box(2, 3, 0, 2)}

-----------------------------------------------------------------------------
CacheRests      == site = "contains" /\ GeomInit
ClusteringRests == problem = [near |-> {}, empty |-> {3}, minPoints |-> 3] /\ DBInit

MachinesInit ==
  \/ machine = "cache" /\ GeomInit /\ UFInit /\ ClusteringRests /\ GistInit
  \/ machine = "union-find" /\ CacheRests /\ UFInit /\ ClusteringRests /\ GistInit
  \/ machine = "clustering" /\ CacheRests /\ UFInit /\ DBInit /\ GistInit
  \/ machine = "index" /\ CacheRests /\ UFInit /\ ClusteringRests /\ GistInit

MachinesNext ==
  /\ UNCHANGED machine
  /\ \/ machine = "cache" /\ GeomNext /\ UNCHANGED <<ufVars, dbVars, gistVars>>
     \/ machine = "union-find" /\ UFNext /\ UNCHANGED <<geomVars, dbVars, gistVars>>
     \/ machine = "clustering" /\ DBNext /\ UNCHANGED <<geomVars, ufVars, gistVars>>
     \/ machine = "index" /\ GistNext /\ UNCHANGED <<geomVars, ufVars, dbVars>>
     \* the query has its clusters, or its error; the table has all its rows
     \/ /\ \/ dbPhase \in {"success", "failure"}
           \/ gist = NoInsertion /\ \A r \in IndexRows : InTree(r)
        /\ UNCHANGED <<geomVars, ufVars, dbVars, gistVars>>

MachinesSpec ==
  /\ MachinesInit
  /\ [][MachinesNext]_<<machine, geomVars, ufVars, dbVars, gistVars>>
  /\ WF_ufVars(UFStep)
=============================================================================
