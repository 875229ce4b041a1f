# Verification of Yukon

Yukon is a spatial extension of an SQL database (a descendant of PostGIS for
openGauss and PostgreSQL): geometry, raster and topology types, the functions
on them, and the programs that load and dump them. This directory holds TLA+
specifications of the parts of it that keep state over several calls, the
instances on which TLC checks them, and proofs of theorems about them. Paths
below are relative to the root of the repository, without the leading `src/`.

1. [The system](#the-system)
2. [Plan](#plan)
3. [Long transactions](#long-transactions)
4. [Topology editing](#topology-editing)
5. [Tables with history](#tables-with-history)
6. [The cache of a query](#the-cache-of-a-query)
7. [Clustering](#clustering)
8. [The spatial index](#the-spatial-index)
9. [What the runs show](#what-the-runs-show)
10. [Where the code and its documentation part](#where-the-code-and-its-documentation-part)
11. [Proofs](#proofs)
12. [What is assumed, and what is not modelled](#what-is-assumed-and-what-is-not-modelled)

## The system

Nearly all of the code is functions that a database server calls, inside one
SQL statement, on values it passes in. They fall in two kinds. Most compute a
result from their arguments and forget it: parsing, printing, measuring,
overlaying, index support. The others keep state, in tables of the database
or in memory that outlives a call; these are where a sequence of calls, or two
sessions, can bring about something that no test of one call would show.

| Component | Where | State | Operations |
|---|---|---|---|
| Long transactions | `postgis/long_xact.sql.in`, `postgis/long_xact.c` | `authorization_table`, a temporary table per session, a trigger per table | `CheckAuth`, `LockRow`, `UnlockRows`, `AddAuth`, enabling and disabling, the row trigger |
| Topology editing | `liblwgeom/lwgeom_topo.c`, `topology/postgis_topology.c` | tables `node`, `edge_data`, `face` of each topology | 14 SQL/MM editing functions, `AddPoint`, `AddLine`, `AddPolygon`, `Polygonize`, queries |
| TopoGeometry layer | `topology/topology.sql.in`, `topology/sql/topogeometry/` | tables `relation`, `layer` | `CreateTopoGeom`, `addElement`, `remElement`, `clearTopoGeom`, `toTopoGeom`, triggers |
| Topology administration | `topology/sql/manage/`, `topology/topology.sql.in` | schema and catalogue of topologies | create, drop, copy, validate |
| Feature history | `extras/history_table/` | a shadow table of versions with dates | rules on INSERT, UPDATE, DELETE |
| Per-call caches | `libpgcommon/lwgeom_cache.c`, `lwgeom_transform.c`, `shared_gserialized.c` | prepared geometries, trees and projections of the running query | look up, build on the second use, evict |
| Clustering | `liblwgeom/lwunionfind.c`, `lwgeom_geos_cluster.c` | a union-find forest during one call | union, find, DBSCAN, intersecting clusters |
| Plane geometry of topology editing | `liblwgeom/ptarray.c`, `gbox.c` | none | point in ring, orientation, area, boxes, nearest segment |
| Geometry library | `liblwgeom/` | none | algorithms on coordinates, `bytebuffer`, `varint` |
| Types, operators, indexes | `postgis/` | none of their own; the index is a tree that the database keeps | input, output, GiST, SP-GiST and BRIN support |
| Output and input formats | `postgis/mvt.c`, `geobuf.c`, `flatgeobuf.c`, ... | aggregate state of one query | conversions |
| Raster | `raster/rt_core`, `raster/rt_pg` | none | pixel arithmetic, GDAL |
| Image pyramid | `pyramid/` | files | a program around GDAL |
| Loader and dumper | `loader/` | a file cursor | shape file to SQL and back |
| 3D functions | `sfcgal/` | none | calls of SFCGAL |
| Geo model | `geomodel/` | none | a data type around a vendored library |
| Grid codes | `geogridcoder/` | none | codes of grid cells |
| Geocoder, address standardizer | `extras/tiger_geocoder`, `extensions/address_standardizer` | reference tables, read only | text matching |
| Vendored libraries | `deps/` | none | flatgeobuf, wagyu, uthash, ryu |

### How the components meet

* **Client and long transactions.** A WFS server (`extras/WFS_locks` has the
  examples) calls `LockRow` in one transaction, and in a later one `AddAuth`
  followed by an UPDATE. What carries over from the first to the second is
  rows in tables, so what each call sees depends on the isolation level and on
  what else committed in between. The trigger function in C is called by the
  server for each row.
* **Topology editing and its back end.** `lwgeom_topo.c` holds the algorithms
  and knows no database. It reads and writes nodes, edges and faces through a
  table of callbacks that `postgis_topology.c` fills in with SQL statements.
  A failure inside raises an ERROR in the server, which undoes the whole
  statement.
* **Topology editing and TopoGeometries.** Before it removes, splits or heals a
  primitive, an editing function asks through `checkTopoGeomRem...` callbacks
  whether a TopoGeometry depends on it, and afterwards has its rows rewritten
  through `updateTopoGeom...` callbacks. In the other direction the layer
  inserts rows in `relation`, where a trigger checks that the element exists.
* **Caches and functions.** A function of the types layer keeps what it
  computed for a constant argument in the memory of the call site, and uses it
  again when the argument compares equal.
* **Clustering and union-find.** A clustering asks a tree of boxes for
  candidates and unites elements of a union-find; numbers and groups are read
  off it at the end.
* **Index and database.** The database keeps the tree of the spatial index. It
  asks the support functions whether to go down to a page, how near it is, what
  the key of two entries together is, and which entries of a full page go where.
* **History and rewrite rules.** The rules turn one statement of a client into
  several queries, which meet those of other sessions row by row.

### What is hard, and what makes each component correct

* *Long transactions.* Two sessions may interleave at any statement; a row is
  purged by the start time of the purging transaction, which may commit much
  later; tokens stay in the temporary table of a session after their
  transaction. Correct means: two clients never hold the same row; a
  lock in force is removed only by its holder; whoever updates a locked row
  has the token.
* *Topology editing.* The tables are a redundant picture of a planar graph.
  Faces are never derived from the geometry again: each function patches the
  links, faces and boxes it believes to be affected, from what earlier calls
  left. Correct means: after every sequence of calls the links turn around
  every node in the order of the plane, the faces are those of the plane, the
  box of a face is exact (lookups rely on it), a legal edit is never refused
  because the tables disagree.
* *TopoGeometry layer.* Editing must change the rows of a TopoGeometry and
  never its shape.
* *Administration:* `ValidateTopology` states what a topology must satisfy.
* *Feature history:* versions of one row neither overlap nor leave gaps, with
  concurrent updates too.
* *Caches:* never the answer for another argument; memory freed once; the
  ring of projections never frees the one in use.
* *Clustering:* the result is that of the definition by connected components,
  whatever the order in which candidates come; no path of parents is a circle.
* *Spatial index:* a scan returns what the operator would return row by row,
  whatever tree the insertions made; a split leaves no page empty.
* *Geometry library:* `varint` decoding undoes encoding at every width.
* The remaining components keep no state between calls; their correctness is
  numerical, or a matter of formats or of external libraries.

PROJECT.json lists the hazards with their lines and the properties that cover
them.

## Plan

Modules, in the order in which they matter.

1. `LongXact` (done): the functions and the trigger as interleaved
   transactions. `SessionProofs`: its typing and its safety across purges,
   updates under a lock, one token per row.
2. `TopoLinks` (done): what every editing function does to `next_left` and
   `next_right`, without coordinates: the abstract specification of the linking
   columns. `TopoLinksProofs`: links follow the plane, and removal and healing
   undo addition and splitting, for any size.
3. `GridGeom` (done): the plane geometry of the editing functions on a grid.
4. `Topology` (done): all tables, on that geometry, with the rows of
   TopoGeometries; composes `GridGeom` and `TopoLinks`, and implements
   `TopoLinks`. `TopologyProofs`: that it does, that lines never overlap, that
   isolated nodes are known, that TopoGeometries keep their points and lines.
   `PlaneProofs`: edges meet at nodes only, and what their rings enclose.
   `FaceProofs`, `FindProofs`: the faces are those of the plane, and
   TopoGeometries keep their areas. `Polygonize`: the faces found from the links
   at once are those of the plane too, after any edits.
5. `HistoryTable` (done): versions of rows under concurrent updates.
   `SessionProofs`, second part: every row has its open version.
6. `GeomCache` (done): the caches of a query and the counted geometries they
   share. `QueryProofs`, first part: the counts are exact.
7. `Partition`, `UnionFind` (done): an abstract partition and the forest that
   implements it. `ClusterIds`: what is read off the forest. `Clustering`:
   density clustering over a partition. `ClusterProofs`: both do what they promise.
8. `GistIndex` (done): the two-dimensional index. `QueryProofs`, second part:
   scans return what the operator accepts.
9. `TopoSessions` (to do): `ST_AddEdge...` and `ST_Rem...` statement by
   statement over snapshots, two sessions editing one topology, on top of the
   transactions of `LongXact`.
10. `TopoGeometries` (to do): `CreateTopoGeom`, hierarchical layers, deletion of
    an element that a higher layer uses, on top of `Topology`.
11. `TopoBuild` (to do): `AddPoint` and `AddLine` as programs over the
    operations of `Topology`; `GetFaceEdges` against the regions of the plane.
12. `VarInt`, `ByteBuffer` (to do): round trip at the bounds of each width,
    growth of the buffer. The n-dimensional index and SP-GiST, in the form of
    `GistIndex`.
13. Loader (to do, if it earns it): its option and statement order.

Two modules compose instances so that one run checks several:
`MCSessions` is `LongXact` or `HistoryTable`, `MCMachines` is one of
`GeomCache`, `ClusterIds`, `Clustering`, `GistIndex`.

Abstract specifications: `TopoLinks` for the links and `Partition` for the
union-find (both done, with refinements checked); worth stating: a "map of the
plane" for `Topology` as a whole, whose steps add and remove walls and merge and
split regions; a lock table with one holder per row for `LongXact` at
serializable.

Theorems worth proving next: those of the modules to come. Of the present ones
each invariant that a passing run checks is a theorem.

Bounds of the runs to come: two sessions and one edge each for
`TopoSessions`; two layers and two TopoGeometries.

## Long transactions

`LongXact` models every function of `long_xact.sql.in` and the trigger of
`long_xact.c`.

| Specification | Code |
|---|---|
| `isolation` | the isolation level of all transactions, chosen at the start |
| `locks` | committed rows of `authorization_table`, with the transaction that inserted them |
| `temp[s]` | `temp_lock_have_table` of session `s`: pairs of transaction and token |
| `trigger`, `enabled` | the trigger `CheckAuth` creates; the tables `EnableLongTransactions` creates |
| `txn[s]` | the running transaction: start time, snapshot, its own uncommitted changes |
| `LockRow` | `LockRow`: delete what has expired, look for a lock on the row, insert one if there is none |
| `UnlockRows`, `AddAuth`, `CheckAuth` | the functions of these names |
| `UpdateRow`, `check_authorization` | an UPDATE or DELETE and the row trigger |
| `Begin`, `Commit`, `Rollback`, `Disconnect`, `Tick` | the database and the clock |

A call is one step. The statements inside a function share the snapshot of the
transaction; at read committed each takes a new one, and a commit of another
session that falls between two of them is modelled as falling before or after
the call, except that the DELETE at the start may wait (see below).
Concurrency is between the calls of different transactions and their commits. What a step
sees is what the isolation level gives it (`Visible`): the snapshot of the
transaction, or what is committed now, with its own changes on top.
Serializable is modelled as PostgreSQL does it, by refusing the commit of a
transaction that would close a cycle of reads and writes (`Cycle`), on
`authorization_table` as a whole. A DELETE of rows another transaction has
deleted waits (`Waits`), and fails if that transaction commits (`Gone`); any
error undoes the transaction (`Undo`).

`AddAuth` looks for its temporary table by name in `pg_class`, where the
temporary tables of all sessions are; `SeesTempTable` says so, and the call
fails if the table is another session's.

Properties:

* `TypeOK`.
* `LockExclusive`: at serializable, no two committed locks in force on a row
  have different tokens. There is no key on the table; two sessions can both
  find no lock and both insert one. At serializable one of them does not commit.
* `LocksOutlivePurges`: a lock in force disappears only if its holder released
  it, or the support was disabled. `LockRow` deletes every expired lock, of
  all rows, by the start time of its transaction.
* `UpdatesAuthorized`: an UPDATE of a locked row that goes through was made by
  a transaction that added or released a token of the row, itself, and not
  an earlier one of the same session.
* `FreshUpdatesAuthorized`: the same at read committed, where each statement
  sees what is committed when it runs.
* `TempTableIsOwn`: the table `AddAuth` finds is its own session's.

The two properties about locks ask for different isolation levels: see
[below](#where-the-code-and-its-documentation-part).

## Topology editing

Four modules: the links, the plane, the tables on both, and the faces found
anew.

**`TopoLinks`** keeps of each edge its two *darts*: edge `e` as it runs, and
`-e` in the opposite direction. This is the code's own convention: `next_left`
of edge 3 is -5 when edge 5 follows and is walked backwards. `start_node` of
`e` is `org[e]`, `end_node` is `org[-e]`, `next_left` is `next[e]`,
`next_right` is `next[-e]`. Of the geometry only the azimuth is left at which
a dart leaves its node. `AddLinks`, `SplitLinks`, `NewSplitLinks`, `RemLinks`,
`HealLinks` are the UPDATEs of the code on these columns, with the same
case distinctions.

**`GridGeom`** is the plane: lines with vertices on a grid, cells, winding
numbers, boxes, and the regions into which a set of walls cuts the cells. The
functions named as in liblwgeom (`azimuth_pt_pt`, `ptarray_contains_point`,
`ptarray_isccw`, `lwgeom_is_simple`, `gbox_merge`) are what the editing code
calls; `Regions` and `RegionBox` are not in the code: they are the reference
to which faces are compared.

**`Topology`** has all columns:

| Variable | Column |
|---|---|
| `at[n]`, `inface[n]` | `node.geom`, `node.containing_face` |
| `geom[e]`, `org`, `next` | `edge_data.geom`, and the linking columns as above |
| `side[e]`, `side[-e]` | `left_face`, `right_face` |
| `face[f]` | `face.mbr` |
| `relation` | rows of `relation`, for TopoGeometries of one collection layer |

| Action | Function |
|---|---|
| `AddIsoNode`, `MoveIsoNode`, `RemoveIsoNode` | `lwt_AddIsoNode`, `lwt_MoveIsoNode`, `lwt_RemoveIsoNode` |
| `AddIsoEdge`, `RemIsoEdge` | `lwt_AddIsoEdge`, `lwt_RemIsoEdge` |
| `AddEdge`, `modFace` TRUE and FALSE | `lwt_AddEdgeModFace`, `lwt_AddEdgeNewFaces` (`_lwt_AddEdge`, `_lwt_AddFaceSplit`) |
| `RemEdge`, `modFace` TRUE and FALSE | `lwt_RemEdgeModFace`, `lwt_RemEdgeNewFace` (`_lwt_RemEdge`) |
| `ModEdgeSplit`, `NewEdgesSplit` | `lwt_ModEdgeSplit`, `lwt_NewEdgesSplit` |
| `HealEdges`, `k` old and new | `lwt_ModEdgeHeal`, `lwt_NewEdgeHeal` (`_lwt_HealEdges`) |
| `ChangeEdgeGeom` | `lwt_ChangeEdgeGeom` |
| `TopoGeom_addElement`, `TopoGeom_remElement`, `clearTopoGeom` | the SQL functions, with `RelationTrigger` |

The trigger, `checkTopoGeomRem...` and `updateTopoGeom...` are part of the
actions that call them. `getRingEdges`, `_lwt_FindAdjacentEdges`,
`_lwt_EdgeInside`, `lwt_GetFaceContainingPoint` are modelled by the algorithm
of the code (a walk along the links, the nearest edge and the side of it on
which the point is), never by what they are meant to find. In particular
`_lwt_AddFaceSplit` looks up the edges and nodes to move by the box of the new
ring, as the code does, and the face it updates keeps the box it computes.

Details of the code that its reader may trip over, and that the model has:

* In a new ring that runs clockwise inside a face, the face that is split is
  the ring's *outside*: the new face takes everything that is not in the ring.
* An edge is inside a ring if its second vertex is; an edge of two points is
  tested by its middle. The first vertex may be on the ring.
* `getClosestEdge` orders by distance alone; between edges at the same
  distance the model takes the lowest identifier. The database may take
  another. Both are edges around the nearest point, so the face is the same;
  this is why `FaceOfPoint` holds only when faces agree around nodes.
* `lwt_ChangeEdgeGeom` looks for swept nodes if there are more than
  `1 + isclosed ? 0 : 1` nodes in the way (line 3365). C reads this as
  `(1 + isclosed) ? 0 : 1`, which is 0: the loop also runs when only the ends
  of the edge are there, and skips them. The outcome is the same.
* `lwt_ChangeEdgeGeom` compares neighbours around the ends, and windings only
  for closed edges.

**`Polygonize`** is `lwt_Polygonize`, which fills in the faces of a topology
that was loaded without any (`lwt_AddLineNoFace`). It builds all rings along
the links; those of positive area are shells and make a face each, and every
other ring gets the face of the closest shell around it. It is a function of
`geom` and `next`, and so is evaluated in the states of `Topology`: after any
sequence of edits it must find, from the linked edges alone, the faces that the
edits arrived at step by step. Shells come from a tree of boxes of an external
library, in an order that nothing promises; the property is about all orders.
It gives no face to isolated nodes, as its header says
(`liblwgeom/liblwgeom_topo.h:1095-1112`). Its refusal when faces exist
is the one thing left out.

**Refinement.** `Topology` implements `TopoLinks` with
`L == INSTANCE TopoLinks WITH nodes <- DOMAIN at, Directions <- 8`: an existing
node is one with a position, and azimuths are computed from the lines. The
property `LinksRefined` is `L!LinkSpec`: every step that real lines can take is
a step of `TopoLinks` with the neighbours its azimuths give, or leaves the
links alone. So the theorems about `TopoLinks` speak of `Topology`.

Properties of `TopoLinks`:

* `LinkTypeOK`: edges run between existing nodes, links name existing edges.
* `Rotation`: the successor of a dart leaves the node where the dart arrives,
  and is the first one clockwise there. Together they say that following links
  walks around a face.
* `RemovalUndoesAdd`, `HealUndoesSplit`: the links are then what they were
  before, in all cases of dead ends, loops and shared nodes.

Properties of `Topology`:

* `TopoTypeOK`: the references between the four tables.
* `FacesMatchPlane`: equal faces are equal regions, face 0 is the unbounded
  one, no face without a region. The regions are found cell by cell.
* `MbrExact`: the box of a face is the box of its region.
* `IsolationExact`: a node has a containing face just if no edge meets it.
* `AddEdgeFindsFace`: an edge that passes the checks on its line is never
  refused as "corrupted topology".
* `FaceOfPoint`: `lwt_GetFaceContainingPoint` is right for all cells and free
  vertices, in each state.
* `PolygonizeExact` (in `Polygonize`): two sides of edges get the same face just
  if they look into the same region, face 0 is the unbounded one, and the boxes
  are exact, whatever the order of the shells.
* `ShapesKept`: no step that adds or removes nodes or edges changes the points
  a TopoGeometry covers.

## Tables with history

`HistoryTable` models the three rewrite rules that
`extras/history_table/history_table.sql` puts on a table.

| Specification | Code |
|---|---|
| `rows[g]` | the row of the table with primary key `g` |
| `history` | the rows of the history table by `history_id`: key, data, `date_added`, `date_deleted` |
| `nextVersion` | the sequence behind `history_id` |
| `histTxn[s]` | the running transaction of a session: `now()`, snapshot, its own changes, the statement it has begun |
| `HistIssue`, `HistRun` | a statement takes its snapshot; its queries run, once the rows they touch are free |
| `RunInsert`, `RunUpdate`, `RunDelete` | the statements with the rules `_postgis_add_insert_rule`, `_postgis_add_update_rule`, `_postgis_add_delete_rule` |
| `HistBegin`, `HistCommit`, `HistRollback`, `HistTick` | the database and the clock |

The rules turn a statement into queries that all find their rows in the
snapshot the statement started with, and wait (`Blocked`) for rows that another
transaction has changed. Then they fail if transactions keep a snapshot
(`Conflict`), and otherwise go on with the row as it is now. So between the
snapshot and the queries another session may commit any number of changes of the
same row: that is why a statement is two steps. `born` and `stamp` are not
columns: they tell a row from another one inserted later with the same key, and
name the version that was written with it.

Properties:

* `HistTypeOK`.
* `HistOpenIsCurrent`: where transactions keep a snapshot, the versions without
  `date_deleted` are exactly the rows of the table, with their data.
* `HistRowIsOpen`: at either level every row has such a version. (At read
  committed it may have two: a statement that waited closes the versions its
  snapshot shows, and not the one it waited for.)
* `HistOneVersionAtATime`: the view of a past time holds no row twice; see
  [below](#where-the-code-and-its-documentation-part).

## The cache of a query

`GeomCache` models what `ST_Contains` and `ST_Intersects` keep between their
calls in one query.

| Specification | Code |
|---|---|
| `geomMem.heap` | the `SHARED_GSERIALIZED` objects: count and geometry |
| `geomMem.held` | the pointers to them in `ToastCache` and in `GeomCache` |
| `toastKey` | `valueid` and `toastrelid` of the entries of the toast cache |
| `argnum`, `index` | `argnum` of each `GeomCache`, and the R-tree or prepared geometry |
| `leftover` | `PrepGeomCache.geom` set without a `prepared_geom` |
| `geomCall` | how far a call has come, and what it fetched |
| `ToastCacheGetGeometry` | the function: in the row, found by key, or fetched and stored |
| `shared_gserialized_ref`, `shared_gserialized_unref` | the functions; a geometry that is not in the query's memory is copied |
| `Ready`, `Build`, `Miss` | the three ways through `GetGeomCache` |
| `AskRtree`, `AskPrep` | `GetRtreeCache` and `GetPrepGeomCache`, with what each function gives them |
| `CannotPrepare`, `RefusesToPrepare` | the failures of `PrepGeomCacheBuilder` |
| `EndQuery` | the query's memory goes |

Properties:

* `GeomTypeOK`.
* `GeomRefsExact`: the count of every shared geometry is the number of slots
  that hold it: none is freed under a slot, none is kept when all have let go.
* `GeomIndexCurrent`: an index lives only as long as its slot holds the geometry
  it points into, and the call that uses it has that value in the argument it
  uses it for. The keys of the two arguments, the slots of the two indexes and
  the argument that the last call matched all have to agree for that.

## Clustering

Four modules. **`Partition`** says what a union-find promises: classes, two of
which may become one. **`UnionFind`** is `lwunionfind.c`, one step of a loop at a
time: `Climb` and `Compress` are the two loops of `UF_find`, `Link` the end of
`UF_union`; `clusters`, `cluster_sizes`, `num_clusters` are the fields of the
struct. The ghost `united` records the unions that were asked for.
**`ClusterIds`** is what is read off: `UF_ordered_by_cluster` (all orders that
`qsort` may give equal elements), `UF_get_collapsed_cluster_ids` for any set of
elements in a cluster, and the groups of `combine_geometries`.
**`Clustering`** is `union_dbscan`: one geometry after the other gets its
candidates (`UpdateContext`: all that are near, perhaps others), looks at
them in any order (`Visit`), sets them aside until there are `minPoints` of them
(`SetAside`), and unites from then on (`UniteNext`), unless a border
point is in another cluster (`UnionIfAvailable`). It holds a `Partition`, as
`UnionFind` implements one.

Properties:

* `UFTypeOK`, `DBTypeOK`.
* `UFOneRoot`: between any two steps of the loops, a class that was asked for
  has one root and is closed under parents.
* `UFSizesExact`: sizes and `num_clusters` are those of the classes; callers
  allocate by `num_clusters`.
* `UFPartition`: read off the arrays alone, the classes only change by the union
  of two: `UnionFind` implements `Partition`.
* `UFReturns` (liveness): every call returns.
* `ClusterIdsExact`: numbers are 0, 1, 2, ... without a gap, and equal just for
  elements that were united.
* `GroupsExact`: one group per class, no more than there is room for.
* `ClustersExact`: the result is a clustering by the definition: core points are
  together if core points connect them (`Linked`: no set of core points that
  contains all core points near its own has one of them without the other), each border point is with one of its
  core points, the rest are alone and in no cluster.
* `CoresStayApart`: at no time does a border point bring two clusters together.

## The spatial index

`GistIndex` models the support functions of `postgis/gserialized_gist_2d.c`,
inside a tree that the database grows.

| Specification | Code |
|---|---|
| `BOX2DF`, `EmptyBox` | the key; all NaN for an empty geometry |
| `top`, `parent`, `key` | the tree: pages and entries of the database (external) |
| `gist` | the insertion that runs; with `op = "split"`, the locals of `gserialized_gist_picksplit_2d` |
| `under` | not in the code: the rows below each page |
| `box2df_overlaps`, ... , `box2df_merge`, `DistanceSquared` | the functions on boxes, with NaN |
| `consistent_leaf`, `consistent_internal` | `gserialized_gist_consistent_leaf_2d`, `..._internal_2d` |
| `Widened`, `compress` | `gserialized_gist_union_2d` with `..._same_2d`; `..._compress_2d` |
| `Acceptable`, `PickSplit` | the two loops over sorted bounds, with `g_box_consider_split` |
| `Distribute`, `PlaceCommon`, `DistributeHalves` | the placement of entries; `fallbackSplit` |
| `GistInsert`, `Descend`, `Put`, `SplitPage`, `SplitTop` | what the database does between the calls (external) |

Where the code prefers one choice by a floating point measure - the penalty of a
page, the overlap and range of a split, the order of common entries - the model
takes any: what is checked and proved holds for every tree that any preference
could make. Choices that decide correctness are exact: which splits are
acceptable, with the counts as they come out of the two loops when some entries
are NaN, and when a group needs all common entries that are left.

Properties:

* `GistTypeOK`: links and `under` agree: no entry is lost or doubled.
* `ScansAgree`: a scan returns exactly the rows the operator accepts when it is
  asked row by row, for each of the twelve operators; besides, `~` and `@` let
  empty geometries pass, on a server that does not test them again.
* `NearestFirst`: no page is farther away than a row below it, so the search for
  nearest neighbours may go by pages.
* `SplitSound`: "Each entry should fit on either left or right group" (the
  assertion at line 2034), and both groups get at least the limit of entries,
  though the limit is checked on sorted bounds and met one entry at a time.

## What the runs show

| Run | Module and cfg | Instance | Distinct states | Shows |
|---|---|---|---|---|
| `sessions_levels` | `MCSessions`, `Sessions_levels.cfg` | long transactions: 2 sessions, 1 row, 2 tokens, times 0..1, 2 transactions, read committed or serializable; history: 2 clients, 1 key, 3 versions, times 0..1, both levels | 477 614 | `TypeOK`, `LockExclusive`, `LocksOutlivePurges`, `FreshUpdatesAuthorized`, `HistTypeOK`, `HistOpenIsCurrent`, `HistRowIsOpen` hold |
| `lx_stale_lock` | `MCLongXact`, `LongXact_stale_lock.cfg` | 3 transactions | stops | `UpdatesAuthorized` fails at serializable |
| `lx_temp_table` | `MCLongXact`, `LongXact_temp_table.cfg` | 3 transactions | stops | `TempTableIsOwn` fails |
| `hist_past` | `MCHistory`, `HistoryTable_past.cfg` | 1 client, 3 versions, times 0..2 | stops | `HistOneVersionAtATime` fails |
| `links_safe` | `MCTopoLinks`, `TopoLinks_safe.cfg` | 3 nodes, 4 edges, 3 azimuths | 106 492 | `LinkTypeOK`, `Rotation`, `RemovalUndoesAdd`, `HealUndoesSplit` hold |
| `links_newsplit` | `MCTopoLinks`, `TopoLinks_newsplit.cfg` | the same, any split | stops | `Rotation` fails |
| `topo_pair` | `MCTopology`, `Topology_pair.cfg` | 2 by 1 cells, 3 nodes, 4 edges, 3 faces, 8 lines | 5 932 | `TopoTypeOK`, `IsolationExact`, `FacesMatchPlane`, `MbrExact`, `AddEdgeFindsFace`, `FaceOfPoint`, `PolygonizeExact` hold |
| `topo_holes` | `MCTopology`, `Topology_holes.cfg` | 5 by 5 cells, 3 nodes, 4 edges, 3 faces, 5 lines | 3 424 | `FacesMatchPlane`, `FaceOfPoint`, `PolygonizeExact` hold with rings in rings |
| `topo_shapes` | `MCTopology`, `Topology_shapes.cfg` | 2 by 1 cells, 3 edges, 2 faces, 4 lines, 1 TopoGeometry | 10 562 | `ShapesKept`, `LinksRefined` hold |
| `topo_reshape` | `MCTopology`, `Topology_reshape.cfg` | 2 by 1 cells, 3 edges, 2 faces, 8 lines, any reshape | stops | `FacesMatchPlane` fails |
| `topo_newsplit` | `MCTopology`, `Topology_newsplit.cfg` | the same with any split instead, 1 TopoGeometry | stops | `SplitServesTopoGeoms` fails |
| `machines` | `MCMachines`, `Machines.cfg` | cache: 2 polygons on disk, a point in the row, 2 copies; union-find: 5 elements; clustering: 5 geometries; index: 6 rows, pages of 3 entries, 9 pages | 81 003 | `GeomTypeOK`, `GeomRefsExact`, `GeomIndexCurrent`, `UFTypeOK`, `UFOneRoot`, `UFSizesExact`, `UFPartition`, `UFReturns`, `ClusterIdsExact`, `GroupsExact`, `DBTypeOK`, `ClustersExact`, `CoresStayApart`, `GistTypeOK`, `ScansAgree`, `NearestFirst`, `SplitSound` hold |

`sessions_levels` and `machines` check several specifications that share
nothing: a behaviour is one of the specification it starts as, and the variables
of the others stay what they are.

### Bounds

* `MaxXid` bounds the transactions of a behaviour. Two overlapping
  transactions are what a race over one row takes; three are needed only to
  have a lock committed by one transaction and missed by another that began
  before, which is what the runs that stop look for.
* `MaxTime` stops the clock. With times 0 and 1 a lock can be in force or
  expired, and a transaction can begin before the expiry and end after it.
* One row and two tokens: `LockRow` purges by time alone, whatever the row, so
  a second row adds nothing but its name to the purge; locks of different rows
  do not interact otherwise.
* `MaxEdge` bounds edges *in use*, and so does `MaxFace` for faces: an
  identifier that is free again may be used again. The code takes new ones from
  a sequence; nothing it compares outlives the row it names (TopoGeometries are
  checked to name existing rows only, by `TopoTypeOK`). Within the bound,
  behaviours have any length.
* Four edges and three nodes in `TopoLinks` allow loops, dead ends, parallel
  edges, a split of one of two parallel edges, and a heal of two edges that have
  both ends in common. `Directions` is 3: up to three edge ends meet at a node,
  the least number for which the neighbours of an edge end on its two sides
  are different and neither is the edge end itself.
* `Sites` and `Lines` are where nodes may be put and lines may run. `PairLines`
  has chains, a ring of one, two or three edges, a closed edge in each
  direction, a wall between two faces, and dead ends inside and outside of
  rings. `WallLines` keeps of these what `topo_shapes` needs for two faces that
  share a wall. `HoleLines` has three rings one within another, the one in
  the middle in the other direction, a bridge from the first to the second, and
  a dead end from the second to the third: faces with holes, moved by the
  winding of the ring that is added. Three is the least depth at which a ring
  has two shells around it, the closest of which `Polygonize` must find.
* `Width` and `Height` are the grid that those lines need.
* `MaxElems` bounds the rows of `relation` inserted by hand; edits add more.
* History: two clients that change one key, inserted, changed and deleted, up to
  three versions: the least with which a version is closed twice. Rows with
  different keys share nothing. `Updates` is a function of the row, so that
  an update lost and an update made on the wrong row differ.
* Cache: two values on disk in each argument, in any order of calls, and a value
  in the row. `MaxCopies` is 2 for each slot: a copy that an index still holds,
  and the one that takes its place. The values differ in type (a point, two
  polygons), which decides the index that is asked for.
* Union-find: five elements make trees of depth 2, in which a search compresses
  a path. `ClusterIdsExact` and `GroupsExact` look at all sorted orders and
  all sets of elements.
* Clustering: `FiveGeoms` has every graph of four geometries beside an empty
  one, for 1 to 3 required neighbours, and two core points which share three
  border points, in every position: the least in which a border point is
  contested and the order of the five decides.
* Index: pages of three entries, six rows and nine pages make trees of three
  levels; the boxes cross, touch and are points, and two rows are empty, so that
  pages have splits by both loops, none, and keys that are NaN. Queries touch,
  contain and miss rows.
* Nodes, sessions, clients, rows and tokens are interchangeable in the
  specifications, and are symmetry sets. The one run with a liveness property,
  `machines`, has no symmetry.
* Two restrictions keep known defects out of the runs that look for others:
  `AnySplit = FALSE` keeps `ST_NewEdgesSplit` to edges that start no other edge
  at one of their nodes; `AnyReshape = FALSE` keeps `ST_ChangeEdgeGeom` to
  lines that turn no ring over. The runs that stop lift them. The restriction
  on reshaping compares windings of the rings of the edge before and after.

### Fairness

`UnionFind` assumes `WF_ufVars(UFStep)`: a call of `UF_find` or `UF_union` that
has begun goes on. Its loops wait for nothing - no lock, message or other
session - so a thread that runs takes the next step. `UFReturns` follows only
because no path of parents is a circle. Nothing obliges a caller to call.

None is assumed elsewhere. Other functions run to their end inside one statement,
so there is no progress to state within a call; between calls clients may stop.
In `LongXact` nothing obliges a client to release a lock, and expiry is what a
later `LockRow` does with it. Deadlock is checked in all runs: a state without a
next step is an error. (`MCMachines` lets a clustering that has its result, and
an index that has all rows, stay as they are.)

## Where the code and its documentation part

* **The trigger at serializable** (`lx_stale_lock`).
  `doc/reference_transaction.xml:16` asks for the serializable isolation level
  for the locking mechanism to operate correctly. At that level the trigger
  reads locks under the snapshot of the updating transaction: one that began before a
  lock was committed updates the row without the token. Read committed does not
  have this problem (`FreshUpdatesAuthorized`), but does not keep two sessions from
  locking one row: neither level gives both.
* **The temporary table of another session** (`lx_temp_table`). `AddAuth`
  looks for `temp_lock_have_table` in all of `pg_class`
  (`postgis/long_xact.sql.in:126`). When another session has one, it does not
  create its own and its INSERT fails.
* **The past of a table with history** (`hist_past`). The rule for UPDATE dates
  the deletion of every version of the row, closed ones too
  (`extras/history_table/history_table.sql:152`; for DELETE line 185). The README
  beside it says that "the current record has 'date_deleted' filled in" (line
  20) and offers "a view of the roads table at any point in the past" (26): after
  two changes that view has the row twice.
* **ST_NewEdgesSplit and links** (`links_newsplit`). The edges that led into
  the old edge are looked up by node and sign, and those that came with
  `next_right` at the start get the second new edge, which does not touch that
  node (`liblwgeom/lwgeom_topo.c:1320`). The effect needs another edge that
  starts at a node of the split one.
* **ST_NewEdgesSplit and TopoGeometries** (`topo_newsplit`). The statement that
  adds the second new edge to a TopoGeometry is put together wrongly
  (`topology/postgis_topology.c:2270`) and the call always fails when there is
  one.
* **ST_ChangeEdgeGeom** (`topo_reshape`). A line that carries one of the two
  edges of a ring to the other side of the other passes all checks
  (`liblwgeom/lwgeom_topo.c:3300`) and leaves `left_face` and `right_face` on
  the wrong sides. The links are not affected: no statement of the function
  that concerns them depends on it.

A remark without a run: the comment at `postgis/long_xact.sql.in:278` says
`DisableLongTransactions` keeps the view `authorized_tables`; the code drops
it (308-311).

## Proofs

TLAPS checks the following for all values of the constants that satisfy the
assumptions stated in the modules (`LongXactAssumption`: bounds are natural
numbers and the isolation levels are among three; `LinksAssumption`: likewise,
with at least one azimuth).

**`SessionProofs`, long transactions**

* `TypeCorrect`: `Spec => []TypeOK`. `TypeOK` is inductive.
* `PurgeTakesExpired`: `Spec => LocksOutlivePurges`, at each isolation level.
  The action property does not follow from types: between the DELETE of
  a purge and its COMMIT other transactions run. The invariant that bridges
  them is `PurgeInv`: the start time of a transaction is never later than the clock, and each
  row it is about to delete had expired when it began or has a token that it
  released. A commit deletes only such rows, and what had expired then is not
  in force now because the clock does not go back.
* `FreshUpdates`: `Spec => FreshUpdatesAuthorized`. `TokenInv`: tokens in a
  session's table are dated with transactions that have begun, and those dated
  with the running one are those it added. An old token can then not be taken
  for a new one, because no transaction gets an identifier again.
* `OneTokenPerRow`: `Spec => []LockExclusive`. `SerialInv`, at serializable: a
  transaction that has added or deleted locks has read the table; its
  snapshot still has every committed lock, or a rival that changed the table
  committed in between; and the locks it adds are compatible with what it sees
  without those it deletes. `LockExclusive` is not inductive: two
  transactions may each hold an uncommitted lock on one row, and only the rival
  keeps the second from committing it.

**`SessionProofs`, feature history**

* `HistoryTypeCorrect`, `RowIsOpen`, `OpenIsCurrent`: `HistSpec` implies
  `[]HistTypeOK`, `[]HistRowIsOpen`, `[]HistOpenIsCurrent`, for any clients, keys,
  data and updates, with the levels that `HistoryAssumption` admits.

The invariant is `HistInv`. `TableOK`: version numbers are below the next one,
and each row has an open version of its own. `RunningOK`, for each running
transaction: the rows it wrote have their versions among those it wrote, the
versions of all other rows are untouched by it, and its snapshot was such a table
too. `AllApart`: two running transactions wrote no row and no version in common,
which is what the row locks are for. `AllRepeat`: where transactions keep a
snapshot, open versions and rows agree, in the table and in what each transaction
sees. The hard step is an UPDATE at read committed, whose rule closes versions
that it sees and whose statement then runs on a later row: the version of
that row is closed only if it was seen (`MissedIsNotClosed`, `FoundIsClosed`).

**`TopoLinksProofs`**, for `AnySplit = FALSE`

* `LinksTyped`: `LinkSpec => []LinkTypeOK`.
* `LinksFollowPlane`: `LinkSpec => []Rotation`.

Neither property is inductive alone. `LinkInv` has three parts, for nodes,
origins, azimuths and links as arguments, so that they can be stated of the
state after a step before it is known to be one:

1. `Typed`: types, and darts come in pairs;
2. `Distinct`: two darts of one node leave it at different azimuths;
3. `Rotated`: `Rotation`.

Types need `Rotated`: the successor that a removed edge leaves to its
predecessor is an existing dart only because predecessors arrive where it
leaves. `Rotated` needs `Distinct`: otherwise the first dart clockwise is not
one dart. The lemmas, from the bottom:

* `NextCW`, `NextCCW`: the CHOOSE of the nearest dart has a value, by
  well-founded induction on angles; what that value satisfies.
* `Before`, `NotBefore`, `Skip`, `TurnInjective`, `OneOrder`: arithmetic of
  clockwise angles, modulo a full turn.
* `NewFollows`, `PrevFollows`, `NotLast`, `OldFollows`: with a dart inserted in
  the turn around a node, it follows the one found counterclockwise, precedes
  the one found clockwise, and all other successors remain; these carry
  `AddEdgeInv`.
* `Renamed`, `RenamedDistinct`, `FreshNext`: a split or a heal
  renames darts and keeps origins and azimuths of those that stay; these carry
  `ModEdgeSplitInv`, `NewEdgesSplitInv` and `HealEdgesInv`.
* `SkipDart`, `NotSelf`, `Removed`: with a dart taken out of a turn its
  predecessor takes over its successor; these carry `RemEdgeInv`.
* `StepInv` puts the nine operations together.
* `RemovalAlwaysUndoesAdd`: `LinkSpec => RemovalUndoesAdd`, and
  `HealAlwaysUndoesSplit`: `LinkSpec => HealUndoesSplit`. Both by one argument:
  with origins and azimuths given, one linking follows the plane
  (`OneLinking`). The links after the addition follow the plane, and removal
  keeps that (`RemovedGood`, the lemma of `RemEdgeInv` for links as an argument);
  so do the links before; origins and azimuths are the same, so the links are. The
  same for the halves of a split (`HealedHalves`, `HealedGood`).

The proof of `NewEdgesSplitInv` is where `AnySplit = FALSE` is used: the case in
which it is needed is the one that `links_newsplit` shows.

**`TopologyProofs`**, for `AnySplit = FALSE`, any grid, and any lines, sites and
bounds that `TopologyAssumption` admits (sites are vertices, and lines run along steps
of the grid)

* `LinksImplemented`: `Spec => LinksRefined`, step by step. What `TopoLinks` is
  proved to do then holds of the full model: `TopologyFollowsPlane` is
  `Spec => []L!Rotation`, with the azimuths that the lines have.
* `EdgesNeverOverlap`: lines run between the nodes of their edges, and no two edges
  share a step of the grid.
* `IsolationAlwaysExact`: `Spec => []IsolationExact`.
* `RowsAlwaysNamed`: rows of nodes and edges in `relation` name existing ones, the
  part of `TopoTypeOK` about them.
* `TopoGeomsKeepPointsAndLines`: `ShapesKept` for the points and the lines of a
  TopoGeometry, the first two of the three parts of a shape.

The invariant is `TopoInv`: `LinkInv` of `TopoLinksProofs` for nodes with a
position; `Tables`, which says that lines run between nodes (`Drawn`), that no step is
taken twice, by two edges or by one (`TakenOnce`), that faces are numbers, and that a
node has a containing face just if no dart leaves it (`Faced`); and that face
numbers are below the bound. The links need the lines: that a new edge leaves its
node at an azimuth that no other edge has there, which `LinkInv` asks for, is so
because equal azimuths on a grid are equal first steps (`Azimuth`), and the check
on a new line refuses a step that is taken. The lines need each
other: healing joins two lines, which is a simple line again only if they shared
nothing before. From the bottom:

* the eight directions, and lines as sequences: first and last steps, a
  line turned around, cut at a vertex or joined with another;
* `TakenOnce` for a line added, removed, cut, joined or replaced;
* one lemma per function for its step in `TopoLinks` and one for its tables, put
  together by `EveryStep` and `Inductive`;
* for TopoGeometries, the points `Marked` and the steps `Inked` by the rows, before
  and after (`CoverKept`): a row that a split adds or a healing takes away covers what
  the halves cover.

**`PlaneProofs`**, for `AnySplit = FALSE` and what `TopologyAssumption` admits

* `EdgesMeetAtNodes`: `Spec => []Planar`: no line passes over a node or over a
  point of another line, except where both end at a node. It is inductive on top of
  `TopoInv`: every function that draws a line checks it, and a split or a heal
  keeps the points.

The rest of the module is the topology of the plane, as far as faces need it: that
a closed line has an inside and an outside, and that the links walk around
one region. Three things that `GridGeom` defines by recursion are characterised
without it.

* A region. `Connected(W, C)`: no map of cells that changes only at the walls `W`
  tells two cells of `C` apart. A set of cells that is enclosed by walls and
  connected is one of `Regions(W)`, and these are all (`ReachIs`, `RegionsAre`):
  the recursive functions on sets are the only ones that satisfy their equations,
  which is shown by counting cells.
* A winding number. For steps that arrive at each vertex as often as they leave it
  (`Balanced`), `Winding` changes across a wall by what runs along it and
  nowhere else (`WindingAcross`, `WindingSmooth`), and is 0 outside.
* An area. `Area` is a fold over a set; it is the sum of the winding numbers of all
  cells (`AreaIs`), because both count the squares below steps.

The steps of a ring of darts are balanced (`RingBalanced`). Where two darts follow
each other around a node there is no wall between the left of one and the left of
the next (`NextSide`), so the winding number is the same all along the left of a
ring, `w`, and on the right `w - 1`, or `w` where the ring goes back along the other
side of an edge (`Windings`). Then `w` is 1 or 0, the ring encloses what it winds
around once, and its area is positive just if `w` is 1, or it goes back
everywhere (`RingEncloses`, `RingTurns`): the test `ptarray_isccw` of
`_lwt_AddFaceSplit`. That the walk ends is a property of permutations of finite sets
(`WalkExists`, `RingIs`).

**`FaceProofs`, `FindProofs`**, for `AnySplit = FALSE` and runs in which no line is
moved, `NoLineChanges == [][~ChangeOps]_vars`

* `FacesAlwaysMatch`, `BoxesAlwaysExact`, `NewEdgesFindTheirFace`,
  `PointsFindTheirFace`: `Spec /\ NoLineChanges` implies `[]FacesMatchPlane`,
  `[]MbrExact`, `[]AddEdgeFindsFace`, `[]FaceOfPoint`.
* `TablesAlwaysTyped`: `Spec /\ NoLineChanges => []TopoTypeOK`.
* `TopoGeomsKeepShapes`: `Spec /\ NoLineChanges => ShapesKept`, with areas.

`NoLineChanges` leaves out `ST_ChangeEdgeGeom` and nothing else, in states that any
other calls have reached. It is not there to make the proof easier: `topo_reshape`
shows that `FacesMatchPlane` is false without it. `AnyReshape = FALSE` is not
enough for all lines: see below, on what is only model-checked.

None of the properties is inductive. The invariant is `TopoInv`, `Planar` and
`FaceInv`: some map gives each cell a face (`FaceMap`), every face has a cell, the
map changes only at walls, and as often as it can (`Finest`), `Outer` has face 0, and
`left_face`, `right_face`, `containing_face` and `mbr` are those of the map.
It is a quantifier over functions, which TLC would have to enumerate; the
runs check what follows from it. One lemma for each kind of call gives the map after
it:

* nodes that come and go, splits and heals leave the map (`MapRedrawn`,
  `NodeOpsFaces`, `SplitOpsFaces`, `HealOpsFaces`);
* taking an edge away fills one face with the other (`FilledMap`, `RemOpsFaces`);
* adding one cuts a face in two or none (`AddEdgeFaces`). The cut is found as
  `_lwt_AddFaceSplit` finds it, by the ring, its area, the boxes of edges that may be
  inside, and a vertex of each (`RingEncloses`, `BoxHolds`, `EdgeInsideIs`), once when a face
  is kept and once when two replace it (`KeepingMapped`, `ReplacingMapped`);
* the face of a point is that of the nearest edge's side: no wall is nearer, so the way
  to it stays in one region, along the grid first where the foot is inside a segment
  and by the bend where it is a vertex (`WallsFarther`, `BendSide`, `FaceFound`).

`TopoTypeOK` needs all of it: when `ST_AddEdgeNewFaces` deletes a face, that no edge still
refers to it is so only because each of its edges is on one of the two sides
of the new ring. The last invariant is `RowsTyped`, that rows of faces name faces that
exist. Rows are rewritten as the map is: what `TakenUpdates` and `FaceRows` say
of the rows before and after is that each cell stays in the same TopoGeometries
(`NewFacesCarried`, `FilledCarried`), and `ShapesKept` follows (`AreasHold`).

* `PolygonizeAlwaysExact`: `Spec => []PolygonizeExact`, for `AnySplit = FALSE`, with
  `ST_ChangeEdgeGeom` among the calls: `lwt_Polygonize` reads lines and links only, and
  `TopoInv` and `Planar` are invariants of all calls.

That a region has one shell (`ShellExists`, `ShellUnique`) is the part on which the
names of its faces rest. In some row the region has a first cell, and the step down
the west side of it is taken by one ring. A ring that faces the region winds around
its left just if it takes that step: further west there is nothing of the region, so
in that row none of its other steps goes down (`FirstCell`). Then every hole must find that
shell. `Surrounds` compares boxes and one point, which may lie on the ring; it decides
rightly whether a shell winds around a hole (`AroundTest`), because what a ring has
inside but not on it is not linked to it (`BeyondLinked`) and meets it nowhere
(`BeyondApart`), while a hole that touches the shell from outside is seen to contain it or
not to be within (`NotInside`). Of the shells around a hole the one of its region is in the
boxes of all others, which are larger (`ShellAround`), so the fold over the shells
ends with it in each order (`FindsClosest`).

**`QueryProofs`, the cache of geometries**

* `GeomTypeCorrect`, `GeomRefsAlwaysExact`, `GeomIndexAlwaysCurrent`: `GeomSpec`
  implies `[]GeomTypeOK`, `[]GeomRefsExact`, `[]GeomIndexCurrent`.

The invariant is `GeomInv`: types; exact counts (`MemOK`); a toast slot with a key
holds a geometry (`ToastOK`); the handles of a running call are those of its
toast slots or copies (`HandlesOK`); each index is on what its slot holds
(`IndexOK`); the call that uses one has its value (`UsingOK`). Counts alone are
not inductive: `Store` lets go of a slot's geometry before it takes the new one,
which may be the same, and only the toast slot behind the handle keeps that from
being freed in between. `DropOK`, `TakeOK` and `StoreOK` are about a memory as
an argument, so that `Miss` can use them twice.

**`ClusterProofs`, union-find**

* `UFTypeCorrect`, `UFOneRootAlways`, `UFSizesAlways`: `UFSpec` implies
  `[]UFTypeOK`, `[]UFOneRoot`, `[]UFSizesExact`.

The invariant is `UFInv`: these three, that `united` is a partition, and
`CallInv`: `element` and `base` stay in the class of the argument, and the roots
that were found are still roots. The assumption is that there is an element.
Compression keeps `UFOneRoot` because `base` is a root of the same class; the
step that hangs one root below another needs that they are of two classes, and
that a class with one root has one size.

* `UFImplementsPartition`, `ClusterIdsAlwaysExact`, `GroupsAlwaysExact`: `UFSpec`
  implies `UFPartition`, `[]ClusterIdsExact`, `[]GroupsExact`.

These are about the roots to which the parents lead, `Up[N]`, a recursive
function. That it does what its definition says is an induction over the natural
numbers, for a set of numbers instead of a predicate (`AllNat`, `AllSteps`,
`UpSteps`). That every element has reached its root after `N` steps (`UpToRoot`)
takes a second invariant, `NoCircles`: a non-empty set of elements that is closed
under parents has a root in it; so a climb that comes back to where it was would
have to have ended before.
Then `Up[N]` is the same for two elements just if they were united
(`SameRootUnited`). The numbers of clusters follow from sums over a sorted walk:
one class is one interval of the walk (`RootsInOrder`), and a change of root is
counted once for each class but the first (`SomeChange`, `IdsWithoutGaps`).

**`ClusterProofs`, clustering**

* `ClusteringTypeCorrect`, `CoresAlwaysApart`, `ClustersAlwaysExact`: `DBSpec`
  implies `[]DBTypeOK`, `[]CoresStayApart`, `[]ClustersExact`, for any set of
  problems.

The invariant is `DBInv`: where the loops are (`LoopInv`); a geometry in no
cluster is alone, and one in a cluster is with a core point near it
(`PlacedInv`); core points whose turn is over are marked, have all their
neighbours in a cluster and are with the core points near them that had their
turn (`TurnsInv`); the same for the candidates of the current geometry that have been
looked at (`VisitInv`); and `CoresStayApart`. The last is not inductive alone: a
union of a core point with a geometry that is in no cluster yet connects nothing
only because that geometry is alone, and `union_if_available` lets a border point be only
because `is_in_core` marks core points and nothing else. When the loops end,
`TurnsInv` is about all core points, and `ClustersExact` follows.

**`QueryProofs`, the spatial index**

* `GistTypeCorrect`, `ScansAlwaysAgree`, `AlwaysNearestFirst`,
  `SplitsAlwaysSound`: `GistSpec` implies `[]GistTypeOK`, `[]ScansAgree`,
  `[]NearestFirst`, `[]SplitSound`, for any finite tables, boxes and page sizes.
  `GistAssumption` says that boxes have their bounds in order and that no row is
  a page.

The invariant is `GistInv`. `TreeOK`: links and ghost agree, rows have their own
boxes as keys. `RowsCovered`: no key of a page leaves out a row below it, from
which scans and distances follow (`Admissible`: if a key covers a box and the
operator accepts the box then the page is not passed over, operator by operator;
`GapsShrink`). `DescentOK`: the keys on the path of an insertion cover the row
before it is there. `OverfullOK`, and `SplitOK`: every entry is in one of four
places, group boxes cover their entries, and - the part that makes splits sound
- each group has, or may still get, as many entries as the limit
(`LeftSide`, `RightSide`). That holds at the start because the counts by which
`g_box_consider_split` accepts a split are bounds of the two sides
(`AcceptableFits`, `CountIsEnough`), and after each placement because an entry
that a group needs is never given to the other (`CommonInv`).

**Model-checked only.**

* What `ST_ChangeEdgeGeom` does to faces. `topo_reshape` shows that it can put them
  on the wrong sides. With `AnyReshape = FALSE` the runs find nothing, but for all
  grids there is no theorem to prove: whether a node is swept over, the function decides by
  winding numbers of lines that are not closed (`liblwgeom/lwgeom_topo.c:3380`),
  and for lines that wind in a spiral they do not tell. Links, isolation and points and lines of
  TopoGeometries are proved with it.
* Liveness, `UFReturns`, and `SplitServesTopoGeoms`, with its ENABLED.
* The properties that are found violated, `TempTableIsOwn`, `HistOneVersionAtATime`
  and the others of the section above.

The modules use recursive functions where they would have RECURSIVE operators,
which the prover has no backend for.

## What is assumed, and what is not modelled

* *The database*: snapshots, row locks, rollback on error, serializable
  transactions by PostgreSQL's rule. DDL waits for transactions that use the
  table. Locks on one table stand for those on all: nothing in the code relates
  two.
* *Numbers*: coordinates of the code are doubles, and tolerance, snapping and
  the third dimension come with them. The grid has none of it: what is checked is
  the logic of the edits for exact geometry. A node lies on an edge or not, and
  an edge is split at a vertex it has.
* *Errors* are calls that are not enabled, since the ERROR undoes their
  statement. `ST_NewEdgesSplit` with TopoGeometries is the one error that a
  property is about.
* *The rest of the per-call caches*: the cache of projections
  (`libpgcommon/lwgeom_transform.c`) belongs to a thread and finds a projection
  by its srid alone, whatever `spatial_ref_sys` says by then. It evicts the one
  with the fewest hits, which it counts in 64 bits and compares in 32
  (572-582): only after 2^32 uses of one projection can that pick a busy one,
  which is then made again. Nothing in the code states what it promises beyond.
  The rectangle tree of geography is used like the R-tree.
* *The rest of clustering*: K-means computes with floating point means.
* *The rest of the index*: coordinates in `GistIndex` are finite: infinite ones are
  stored as the largest floats, and differ from what the operator compares. A
  second operation that runs at the same time is kept apart by page locks of the
  database; deletions leave keys as they are. `~=` of two empty geometries is
  true when it is computed and is never found by a scan; the query box is
  never empty in the model. A server older than 9.5, which is what the build for
  openGauss assumes, tests again every row that a scan returns. SP-GiST,
  BRIN, the n-dimensional index and selectivity estimates have no module.
* *One session edits a topology* in the present modules. The functions take
  no lock; two editors are the subject of `TopoSessions` in the plan.
* *Statements of the code that the guard of an action sums up*: existence
  checks on arguments (the arguments range over what exists), SRID checks,
  messages.
* *Components* with no module yet, and those that keep no state, are listed in
  PROJECT.json with the reason.
