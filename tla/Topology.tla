------------------------------ MODULE Topology ------------------------------
(***************************************************************************)
(* The editing functions of a topology (liblwgeom/lwgeom_topo.c, with the  *)
(* callbacks of topology/postgis_topology.c): the tables node, edge_data,  *)
(* face and relation of one topology, and what each function does to them. *)
(*                                                                         *)
(* A dart is an edge identifier with a sign: e runs from start_node to     *)
(* end_node, -e back.  left_face of edge e is side[e], right_face side[-e].*)
(* The linking columns org and next are those of module TopoLinks, which   *)
(* this module implements.                                                 *)
(*                                                                         *)
(* One function is one step: each runs inside one SQL statement, and an    *)
(* error (lwerror) aborts the statement and undoes what it did, so here a  *)
(* call that fails is a call that is not enabled.                          *)
(***************************************************************************)
EXTENDS GridGeom

CONSTANTS
  Nodes,       \* node identifiers
  MaxEdge,     \* bound: edge identifiers in use at one time
  MaxFace,     \* bound: face identifiers in use at one time
  Sites,       \* the vertices where nodes are put
  Lines,       \* the lines that are added as edges
  AnySplit,    \* FALSE: ST_NewEdgesSplit is only called on edges that start
               \* no other edge at one of their nodes
  AnyReshape,  \* FALSE: ST_ChangeEdgeGeom is only called with lines that turn
               \* no ring of edges over
  TopoGeoms,   \* TopoGeometries, all in one collection layer of level 0
  MaxElems     \* bound: rows of relation added by hand

ASSUME TopologyAssumption ==
  /\ MaxEdge \in Nat /\ MaxFace \in Nat /\ MaxElems \in Nat
  /\ Sites \subseteq Vertices
  /\ \A g \in Lines : /\ g \in Seq(Vertices) /\ Len(g) > 1
                      /\ \A i \in 1 .. Len(g) - 1 : <<g[i], g[i + 1]>> \in GridSteps
                                                 \/ <<g[i + 1], g[i]>> \in GridSteps
  /\ AnySplit \in BOOLEAN /\ AnyReshape \in BOOLEAN

VARIABLES
  at,       \* at[n]: where node n is
  inface,   \* inface[n]: containing_face of n, None if edges meet there
  geom,     \* geom[e]: the line of edge e
  org,      \* org[d]: node that dart d leaves
  next,     \* next[d]: dart that follows d on its left
  side,     \* side[d]: face on the left of d
  face,     \* face[f]: mbr of face f
  relation  \* rows <<TopoGeometry, element type, element>>

vars == <<at, inface, geom, org, next, side, face, relation>>

None     == -1
Universe == 0
NoBox    == [xmin |-> 0, xmax |-> -1, ymin |-> 0, ymax |-> -1]

\* Element types.
NodeType == 1
EdgeType == 2
FaceType == 3

Edges == DOMAIN geom
Darts == DOMAIN next

Path(g, d) == IF d > 0 THEN g[d] ELSE Reverse(g[-d])
RingSteps(g, darts) == UNION {Steps(Path(g, d)) : d \in darts}

Leaving(line)  == azimuth_pt_pt(line[1], line[2])
Arriving(line) == azimuth_pt_pt(Last(line), line[Len(line) - 1])

az == [d \in Darts |-> Leaving(Path(geom, d))]

L == INSTANCE TopoLinks WITH nodes <- DOMAIN at, Directions <- 8

\* Function f with the values for edge e.
WithEdge(f, e, x) == [d \in DOMAIN f \cup {e} |-> IF d = e THEN x ELSE f[d]]

-----------------------------------------------------------------------------
(* Lookups. *)

ExistsCoincidentNode(p) == \E n \in DOMAIN at : at[n] = p
ExistsEdgeIntersectingPoint(p) == \E e \in Edges : p \in Range(geom[e])

\* The line g passes over a node that is not one of its ends, or through an
\* edge other than myself.
CheckEdgeCrossing(g, ends, myself) ==
  \/ \E n \in DOMAIN at \ ends : at[n] \in Range(g)
  \/ \E e \in Edges \ {myself} : InteriorsMeet(geom[e], g)

\* The darts of the ring that d starts, with the links nx.
getRingEdges(nx, d) ==
  LET walk[i \in 0 .. Cardinality(DOMAIN nx) - 1] == IF i = 0 THEN d ELSE nx[walk[i - 1]]
  IN  {walk[i] : i \in DOMAIN walk}

\* mutant: the left face of the neighbour is taken on both sides
FindAdjacentLeftFaces(n, z, a, other) ==
  IF L!Out(n) = {} THEN [cw |-> None, ccw |-> None]
  ELSE LET cw  == L!nextCW(L!Out(n) \cup other, z, a)
           ccw == L!nextCCW(L!Out(n) \cup other, z, a)
       IN  [cw  |-> IF cw \in other THEN None ELSE side[cw],
            ccw |-> IF ccw \in other THEN None ELSE side[ccw]]

\* Faces clockwise and counterclockwise of a dart that leaves node n at azimuth
\* a, among the edges of n and the other end of the dart's edge at that node.
_lwt_FindAdjacentEdges(n, z, a, other) ==
  IF L!Out(n) = {} THEN [cw |-> None, ccw |-> None]
  ELSE LET cw  == L!nextCW(L!Out(n) \cup other, z, a)
           ccw == L!nextCCW(L!Out(n) \cup other, z, a)
       IN  [cw  |-> IF cw \in other THEN None ELSE side[cw],
            ccw |-> IF ccw \in other THEN None ELSE side[-ccw]]

\* "adjacent edges bind different face".
Corrupted(adj) == adj.cw # adj.ccw /\ adj.cw # None /\ adj.ccw # None

-----------------------------------------------------------------------------
(* The face that contains a point.  Points of this section have twice the   *)
(* coordinates of the grid, so that the middle of a cell is one, too.       *)

Twice(p) == <<2 * p[1], 2 * p[2]>>

\* Square of the distance from q to the unit segment from a to b.
Distance(a, b, q) ==
  LET off(lo, hi, x) == IF x < lo THEN lo - x ELSE IF x > hi THEN x - hi ELSE 0
      axis(i) == IF a[i] < b[i] THEN off(2 * a[i], 2 * b[i], q[i]) ELSE off(2 * b[i], 2 * a[i], q[i])
  IN  axis(1) * axis(1) + axis(2) * axis(2)

\* The least argument for which the function of integers is least.
Nearest(dist) ==
  LET least == Min(Range(dist))
  IN  Min({i \in DOMAIN dist : dist[i] = least})

\* The nearest segment of a line, the first if there are several.
ptarray_closest_segment_2d(line, q) ==
  Nearest([i \in 1 .. Len(line) - 1 |-> Distance(line[i], line[i + 1], q)])

\* The nearest edge, the one with the lowest identifier if there are several.
getClosestEdge(q) ==
  Nearest([e \in Edges |-> LET i == ptarray_closest_segment_2d(geom[e], q)
                           IN  Distance(geom[e][i], geom[e][i + 1], q)])

\* mutant: the two neighbours of the vertex are swapped
RightOfBend(line, v, q) ==
  LET last == Len(line)
      S0 == azimuth_pt_pt(line[v], IF v > 1 THEN line[v - 1] ELSE line[last - 1])
      S1 == azimuth_pt_pt(line[v], IF v < last THEN line[v + 1] ELSE line[2])
      SL == azimuth_pt_pt(Twice(line[v]), q)
  IN  L!azdif(S1, SL) < L!azdif(S1, S0)

\* Left of the bend at vertex v of a line: turning clockwise from the previous
\* vertex meets q before the next one.
LeftOfBend(line, v, q) ==
  LET last == Len(line)
      S0 == azimuth_pt_pt(line[v], IF v > 1 THEN line[v - 1] ELSE line[last - 1])
      S1 == azimuth_pt_pt(line[v], IF v < last THEN line[v + 1] ELSE line[2])
      SL == azimuth_pt_pt(Twice(line[v]), q)
  IN  L!azdif(S0, SL) < L!azdif(S0, S1)

\* mutant: the other side
RightOfSegment(a, b, q) ==
  (b[1] - a[1]) * (q[2] - 2 * a[2]) - (b[2] - a[2]) * (q[1] - 2 * a[1]) < 0

LeftOfSegment(a, b, q) ==
  (b[1] - a[1]) * (q[2] - 2 * a[2]) - (b[2] - a[2]) * (q[1] - 2 * a[1]) > 0

\* Only asked of points that are not on an edge.
lwt_GetFaceContainingPoint(q) ==
  IF Edges = {} THEN Universe
  ELSE
    LET e    == getClosestEdge(q)
        line == geom[e]
        i    == ptarray_closest_segment_2d(line, q)
        a    == line[i]
        b    == line[i + 1]
        r    == (q[1] - 2 * a[1]) * (b[1] - a[1]) + (q[2] - 2 * a[2]) * (b[2] - a[2])
        v    == IF r <= 0 THEN i ELSE IF r >= 2 THEN i + 1 ELSE 0
        atNode == v = 1 \/ v = Len(line)
        n    == IF v = 1 THEN org[e] ELSE org[-e]
    IN  IF atNode
        THEN _lwt_FindAdjacentEdges(n, az, azimuth_pt_pt(Twice(line[v]), q), {}).cw
        ELSE IF \/ side[e] = side[-e]
                \/ v # 0 /\ LeftOfBend(line, v, q)
                \/ v = 0 /\ LeftOfSegment(a, b, q)
             THEN side[e] ELSE side[-e]

-----------------------------------------------------------------------------
(* Isolated nodes and edges. *)

Init ==
  /\ at = [n \in {} |-> 0] /\ inface = [n \in {} |-> 0]
  /\ geom = [e \in {} |-> 0]
  /\ org = [d \in {} |-> 0] /\ next = [d \in {} |-> 0] /\ side = [d \in {} |-> 0]
  /\ face = [f \in {Universe} |-> NoBox]
  /\ relation = {}

AddIsoNode(n, p) ==
  /\ n \in Nodes \ DOMAIN at
  /\ ~ExistsCoincidentNode(p)
  /\ ~ExistsEdgeIntersectingPoint(p)
  /\ at' = WithEdge(at, n, p)
  /\ inface' = WithEdge(inface, n, lwt_GetFaceContainingPoint(Twice(p)))
  /\ UNCHANGED <<geom, org, next, side, face, relation>>

MoveIsoNode(n, p) ==
  /\ inface[n] # None
  /\ ~ExistsCoincidentNode(p)
  /\ ~ExistsEdgeIntersectingPoint(p)
  /\ inface[n] = lwt_GetFaceContainingPoint(Twice(p))
  /\ at' = [at EXCEPT ![n] = p]
  /\ UNCHANGED <<inface, geom, org, next, side, face, relation>>

checkTopoGeomRemIsoNode(n) == \A row \in relation : <<row[2], row[3]>> # <<NodeType, n>>

RemoveIsoNode(n) ==
  /\ inface[n] # None
  /\ checkTopoGeomRemIsoNode(n)
  /\ at' = [m \in DOMAIN at \ {n} |-> at[m]]
  /\ inface' = [m \in DOMAIN at \ {n} |-> inface[m]]
  /\ UNCHANGED <<geom, org, next, side, face, relation>>

\* What every function that adds a line between two nodes checks first.
LegalEdge(m, n, g) ==
  /\ at[m] = g[1] /\ at[n] = Last(g)
  /\ lwgeom_is_simple(g)
  /\ ~CheckEdgeCrossing(g, {m, n}, 0)

\* mutant: only the start node stops being isolated
AddIsoEdgeFromStart(e, m, n, g) ==
  /\ m # n
  /\ inface[m] # None /\ inface[m] = inface[n]
  /\ LegalEdge(m, n, g)
  /\ geom' = WithEdge(geom, e, g)
  /\ org' = L!With(org, e, m, n)
  /\ next' = L!With(next, e, -e, e)
  /\ side' = L!With(side, e, inface[m], inface[m])
  /\ inface' = [inface EXCEPT ![m] = None]
  /\ UNCHANGED <<at, face, relation>>

\* mutant: next_left and next_right are swapped
AddIsoEdgeSwapped(e, m, n, g) ==
  /\ m # n
  /\ inface[m] # None /\ inface[m] = inface[n]
  /\ LegalEdge(m, n, g)
  /\ geom' = WithEdge(geom, e, g)
  /\ org' = L!With(org, e, m, n)
  /\ next' = L!With(next, e, e, -e)
  /\ side' = L!With(side, e, inface[m], inface[m])
  /\ inface' = [inface EXCEPT ![m] = None, ![n] = None]
  /\ UNCHANGED <<at, face, relation>>

AddIsoEdge(e, m, n, g) ==
  /\ m # n
  /\ inface[m] # None /\ inface[m] = inface[n]
  /\ LegalEdge(m, n, g)
  /\ geom' = WithEdge(geom, e, g)
  /\ org' = L!With(org, e, m, n)
  /\ next' = L!With(next, e, -e, e)
  /\ side' = L!With(side, e, inface[m], inface[m])
  /\ inface' = [inface EXCEPT ![m] = None, ![n] = None]
  /\ UNCHANGED <<at, face, relation>>

\* Rows that name edge e, with either sign.
RowsOf(e) == {row \in relation : row[2] = EdgeType /\ row[3] \in {e, -e}}

RemIsoEdge(e) ==
  /\ side[e] = side[-e]
  /\ L!Out(org[e]) \cup L!Out(org[-e]) = {e, -e}
  /\ RowsOf(e) = {}
  /\ geom' = [x \in Edges \ {e} |-> geom[x]]
  /\ org' = L!Without(org, e)
  /\ next' = L!Without(next, e)
  /\ side' = L!Without(side, e)
  /\ inface' = [n \in DOMAIN at |-> IF n \in {org[e], org[-e]} THEN side[e] ELSE inface[n]]
  /\ UNCHANGED <<at, face, relation>>

-----------------------------------------------------------------------------
(* Edges that may split a face. *)

\* The face in which the new edge e from m to n lies, from the faces that hold
\* its ends and those next to it around its ends; z holds its azimuths as well.
\* None if these disagree: the call fails.
EdgeFace(e, m, n, z) ==
  LET closed == m = n
      iso   == {inface[m], inface[n]} \ {None}
      span  == _lwt_FindAdjacentEdges(m, z, z[e], IF closed THEN {-e} ELSE {})
      epan  == _lwt_FindAdjacentEdges(n, z, z[-e], IF closed THEN {e} ELSE {})
      first(x) == IF iso # {} THEN CHOOSE f \in iso : TRUE ELSE x
      right == first(span.cw)
      left  == first(span.ccw)
      FaceRight == IF right = None /\ L!Out(n) # {} THEN span.ccw ELSE right
      FaceLeft  == IF left = None /\ L!Out(n) # {} THEN span.cw ELSE left
  IN  IF /\ Cardinality(iso) <= 1
         /\ ~Corrupted(span) /\ ~Corrupted(epan)
         /\ L!Out(n) # {} => right \in {None, epan.ccw} /\ left \in {None, epan.cw}
         /\ FaceLeft = FaceRight
      THEN FaceLeft ELSE None

FreeFace(faces) == Min((1 .. MaxFace + 2) \ DOMAIN faces)

\* mutant: the first point is tested, which may be on the ring
EdgeStartsInside(steps, line) == ptarray_contains_point(steps, line[1])

\* Inside the ring, for an edge that does not cross it.
_lwt_EdgeInside(steps, line) ==
  IF Len(line) > 2 THEN ptarray_contains_point(steps, line[2])
  ELSE Winding(steps, LeftCell(<<line[1], line[2]>>)) # 0

\* Split face f along the ring that dart d starts.  t holds the sides, the
\* containing faces and the faces, and gets the result in id: the new face,
\* 0 if the edge is no ring, None if there is nothing to create on that side.
_lwt_AddFaceSplit(t, nx, g, d, f, mbr_only) ==
  LET ring      == getRingEdges(nx, d)
      inRing(e) == e \in ring \/ -e \in ring
      new       == FreeFace(t.face)
      along(shell, box, isccw) ==
        LET outside == f # Universe /\ ~isccw
            inReach(points) == outside \/ BoxesOverlap(BoxOf(points), box)
            moves(e) == /\ ~inRing(e)
                        /\ inReach(Range(g[e]))
                        /\ _lwt_EdgeInside(shell, g[e]) # outside
        IN  IF f = Universe /\ ~isccw THEN [t EXCEPT !.id = None]
            ELSE IF mbr_only /\ f # Universe
            THEN [t EXCEPT !.id = None, !.face[f] = IF isccw THEN box ELSE @]
            ELSE [id |-> new,
                  face |-> WithEdge(t.face, new, IF outside THEN t.face[f] ELSE box),
                  side |-> [x \in DOMAIN t.side |->
                              IF \/ x \in ring
                                 \/ t.side[x] = f /\ moves(IF x > 0 THEN x ELSE -x)
                              THEN new ELSE t.side[x]],
                  inface |-> [n \in DOMAIN at |->
                                IF /\ t.inface[n] = f
                                   /\ inReach({at[n]})
                                   /\ ptarray_contains_point(shell, at[n]) # outside
                                THEN new ELSE t.inface[n]]]
      around(shell) == along(shell, StepsBox(shell), ptarray_isccw(shell))
  IN  IF -d \in ring THEN [t EXCEPT !.id = 0] ELSE around(RingSteps(g, ring))

\* What the splits of the sides of a new edge come to: ids is the pair of new
\* faces, None where the old one remains; <<>> if nothing is split.
OneNewFace(left, right) ==
  IF left.id = 0 THEN [ids |-> <<>>, t |-> left]
  ELSE IF left.id # None THEN [ids |-> <<left.id, None>>, t |-> right]
  ELSE IF right.id = None THEN [ids |-> <<>>, t |-> right]
  ELSE [ids |-> <<right.id, None>>, t |-> right]

\* mutant: the right side is not tried when the left one makes no face
SplitLeftOnly(t, nx, g, e, f) ==
  LET left == _lwt_AddFaceSplit(t, nx, g, e, f, FALSE)
  IN  IF left.id \in {0, None} THEN [ids |-> <<>>, t |-> left]
      ELSE OneNewFace(left, _lwt_AddFaceSplit(left, nx, g, -e, f, TRUE))

\* mutant: the face that remains keeps the mbr it had
SplitKeepingBox(t, nx, g, e, f) ==
  LET left == _lwt_AddFaceSplit(t, nx, g, e, f, FALSE)
  IN  OneNewFace(left, IF left.id # None THEN left
                       ELSE _lwt_AddFaceSplit(left, nx, g, -e, f, FALSE))

SplitKeepingFace(t, nx, g, e, f) ==
  LET left == _lwt_AddFaceSplit(t, nx, g, e, f, FALSE)
  IN  OneNewFace(left, _lwt_AddFaceSplit(left, nx, g, -e, f, left.id # None))

TwoNewFaces(left, right, f) ==
  IF right.id = 0 THEN [ids |-> <<>>, t |-> right]
  ELSE [ids |-> <<left.id, right.id>>,
        t |-> IF f = Universe THEN left
              ELSE [left EXCEPT !.face = [x \in DOMAIN @ \ {f} |-> @[x]]]]

SplitReplacingFace(t, nx, g, e, f) ==
  LET right == _lwt_AddFaceSplit(t, nx, g, -e, f, FALSE)
  IN  TwoNewFaces(_lwt_AddFaceSplit(right, nx, g, e, f, FALSE), right, f)

\* Rows of the split face name its parts: the new one besides the old one if
\* that remains, both new ones instead of it otherwise.
updateTopoGeomFaceSplit(f, new1, new2) ==
  LET rows == {row \in relation : row[2] = FaceType /\ row[3] = f}
  IN  (IF new2 = None THEN relation ELSE relation \ rows)
      \cup {<<row[1], FaceType, new>> : row \in rows, new \in {new1, new2} \ {None}}

AddEdge(e, m, n, g, modFace) ==
  LET z  == L!With(az, e, Leaving(g), Arriving(g))
      nx == L!AddLinks(e, m, n, z)
      ge == WithEdge(geom, e, g)
      dangling == m # n /\ (inface[m] # None \/ inface[n] # None)
      old(f) == [id |-> 0, face |-> face, side |-> L!With(side, e, f, f),
                 inface |-> [k \in DOMAIN at |-> IF k \in {m, n} THEN None ELSE inface[k]]]
      split(t, f) == IF dangling THEN [ids |-> <<>>, t |-> t]
                     ELSE IF modFace THEN SplitKeepingFace(t, nx, ge, e, f)
                     ELSE SplitReplacingFace(t, nx, ge, e, f)
  IN  /\ LegalEdge(m, n, g)
      /\ geom' = ge
      /\ org' = L!With(org, e, m, n)
      /\ next' = nx
      /\ \E f \in {EdgeFace(e, m, n, z)} \ {None} :
         \E s \in {split(old(f), f)} :
           /\ side' = s.t.side
           /\ inface' = s.t.inface
           /\ face' = s.t.face
           /\ relation' = IF s.ids = <<>> \/ f = Universe THEN relation
                          ELSE updateTopoGeomFaceSplit(f, s.ids[1], s.ids[2])
      /\ UNCHANGED at

-----------------------------------------------------------------------------
(* Splitting and healing edges. *)

\* The two parts of a line at one of its inner vertices.
lwgeom_split(line, p) ==
  LET i == CHOOSE j \in 2 .. Len(line) - 1 : line[j] = p
  IN  <<SubSeq(line, 1, i), SubSeq(line, i, Len(line))>>

_lwt_EdgeSplit(e, p) == p \in InteriorPoints(geom[e]) /\ ~ExistsCoincidentNode(p)

\* Each row of edge e gets company: edge f, with the same sign.
updateTopoGeomEdgeSplit(e, f) ==
  relation \cup {<<row[1], EdgeType, IF row[3] < 0 THEN -f ELSE f>> : row \in RowsOf(e)}

ModEdgeSplit(e, n, p, f) ==
  LET parts == lwgeom_split(geom[e], p)
  IN  /\ n \in Nodes \ DOMAIN at
      /\ _lwt_EdgeSplit(e, p)
      /\ at' = WithEdge(at, n, p)
      /\ inface' = WithEdge(inface, n, None)
      /\ geom' = WithEdge([geom EXCEPT ![e] = parts[1]], f, parts[2])
      /\ org' = L!With([org EXCEPT ![-e] = n], f, n, org[-e])
      /\ next' = L!SplitLinks(e, f)
      /\ side' = L!With(side, f, side[e], side[-e])
      /\ relation' = updateTopoGeomEdgeSplit(e, f)
      /\ UNCHANGED face

\* Fails if a TopoGeometry has the edge: the INSERT of its new rows is put
\* together wrongly (",VALUES (..." and nothing before it).
NewEdgesSplit(e, n, p, f, g) ==
  LET parts == lwgeom_split(geom[e], p)
      two(h, x, y) == L!With(L!With(L!Without(h, e), f, x[1], x[2]), g, y[1], y[2])
  IN  /\ n \in Nodes \ DOMAIN at
      /\ _lwt_EdgeSplit(e, p)
      /\ RowsOf(e) = {}
      /\ AnySplit \/ \A d \in Edges \ {e} : org[d] # org[e] /\ org[d] # org[-e]
      /\ at' = WithEdge(at, n, p)
      /\ inface' = WithEdge(inface, n, None)
      /\ geom' = WithEdge(WithEdge([x \in Edges \ {e} |-> geom[x]], f, parts[1]), g, parts[2])
      /\ org' = two(org, <<org[e], n>>, <<n, org[-e]>>)
      /\ next' = L!NewSplitLinks(e, f, g)
      /\ side' = two(side, <<side[e], side[-e]>>, <<side[e], side[-e]>>)
      /\ UNCHANGED <<face, relation>>

\* mutant: TopoGeometries that have the node are not looked for
SameTopoGeomsHaveEdges(n, e1, e2) ==
  \A t \in TopoGeoms :
    (\E row \in RowsOf(e1) : row[1] = t) <=> (\E row \in RowsOf(e2) : row[1] = t)

\* Every TopoGeometry that has one of the edges has the other, and none has
\* the node between them.
checkTopoGeomRemNode(n, e1, e2) ==
  /\ \A t \in TopoGeoms :
       (\E row \in RowsOf(e1) : row[1] = t) <=> (\E row \in RowsOf(e2) : row[1] = t)
  /\ checkTopoGeomRemIsoNode(n)

\* Rows of the second edge go; those of the first name edge k.
updateTopoGeomEdgeHeal(e1, e2, k) ==
  {IF row \in RowsOf(e1) THEN <<row[1], EdgeType, IF row[3] < 0 THEN -k ELSE k>> ELSE row :
     row \in relation \ RowsOf(e2)}

\* Dart x of edge e1 and dart y of e2 end at the node that goes; edge k, which
\* is e1 (ST_ModEdgeHeal) or new (ST_NewEdgeHeal), runs in the direction of e1.
HealEdges(e1, e2, x, y, k) ==
  LET kd   == IF x > 0 THEN k ELSE -k
      path == Path(geom, x) \o Tail(Path(geom, -y))
      heal(h) == [d \in (DOMAIN h \ {x, -x, y, -y}) \cup {kd, -kd} |->
                    IF d = kd THEN h[x] ELSE IF d = -kd THEN h[y] ELSE h[d]]
      n    == org[-x]
  IN  /\ L!HealsAt(e1, e2, x, y)
      /\ checkTopoGeomRemNode(n, e1, e2)
      /\ at' = [m \in DOMAIN at \ {n} |-> at[m]]
      /\ inface' = [m \in DOMAIN at \ {n} |-> inface[m]]
      /\ geom' = WithEdge([e \in Edges \ {e1, e2} |-> geom[e]], k,
                          IF x > 0 THEN path ELSE Reverse(path))
      /\ org' = heal(org)
      /\ next' = L!HealLinks(next, x, y, k)
      /\ side' = L!With([d \in Darts \ {x, -x, y, -y} |-> side[d]], k, side[e1], side[-e1])
      /\ relation' = updateTopoGeomEdgeHeal(e1, e2, k)
      /\ UNCHANGED face

-----------------------------------------------------------------------------
(* Removing an edge. *)

\* mutant: the faces next to the edge are not compared
NoTopoGeomHasEdge(e) == RowsOf(e) = {}

\* No TopoGeometry has the edge, and each has both faces next to it or none.
checkTopoGeomRemEdge(e) ==
  /\ RowsOf(e) = {}
  /\ \A t \in TopoGeoms : <<t, FaceType, side[e]>> \in relation
                            <=> <<t, FaceType, side[-e]>> \in relation

\* Rows of the two faces become rows of the face that has taken their place.
updateTopoGeomFaceHeal(face1, face2, newface) ==
  LET rows(f) == {row \in relation : row[2] = FaceType /\ row[3] = f}
  IN  IF newface \in {face1, face2}
      THEN relation \ ((rows(face1) \cup rows(face2)) \ rows(newface))
      ELSE (relation \ (rows(face1) \cup rows(face2)))
             \cup {<<row[1], FaceType, newface>> : row \in rows(face2)}

\* mutant: only left_face is updated
UpdateLeftFaceRef(s, gone, newface) ==
  [d \in DOMAIN s |-> IF s[d] \in gone /\ d > 0 THEN newface ELSE s[d]]

\* mutant: the nodes of the faces that are gone are forgotten
UpdateNoNodeFaceRef(in, gone, newface) == in

\* What referred to one of the faces that are gone refers to newface.
_lwt_UpdateEdgeFaceRef(s, gone, newface) ==
  [d \in DOMAIN s |-> IF s[d] \in gone THEN newface ELSE s[d]]

_lwt_UpdateNodeFaceRef(in, gone, newface) ==
  [n \in DOMAIN in |-> IF in[n] \in gone THEN newface ELSE in[n]]

RemEdge(e, modFace) ==
  LET left  == side[e]
      right == side[-e]
      floodface == IF left = right THEN right
                   ELSE IF Universe \in {left, right} THEN Universe
                   ELSE IF modFace THEN right ELSE FreeFace(face)
      gone == {left, right} \ {floodface}
      alone(n) == n \in {org[e], org[-e]} /\ L!Out(n) \subseteq {e, -e}
  IN  /\ checkTopoGeomRemEdge(e)
      /\ geom' = [x \in Edges \ {e} |-> geom[x]]
      /\ org' = L!Without(org, e)
      /\ next' = L!RemLinks(org, next, e)
      /\ side' = _lwt_UpdateEdgeFaceRef(L!Without(side, e), gone, floodface)
      /\ inface' = [n \in DOMAIN at |->
                      IF alone(n) THEN floodface
                      ELSE _lwt_UpdateNodeFaceRef(inface, gone, floodface)[n]]
      /\ face' = [f \in (DOMAIN face \ gone) \cup {floodface} |->
                    IF f = floodface /\ f # Universe /\ gone # {}
                    THEN gbox_merge(face[left], face[right]) ELSE face[f]]
      /\ relation' = IF left = right THEN relation
                     ELSE updateTopoGeomFaceHeal(right, left, floodface)
      /\ UNCHANGED at

-----------------------------------------------------------------------------
(* Changing the line of an edge. *)

\* The cells that the edges of face f enclose, with the lines g, holes and all:
\* only whether there are any and their box matter.
lwt_GetFaceGeometry(g, f) ==
  LET bounds == {e \in Edges : f \in {side[e], side[-e]}}
  IN  Cells \ Reach(UNION {Undirected(Steps(g[e])) : e \in bounds}, {Outer})

\* LW_INSIDE of ptarray_contains_point_partial, for lines that need not close.
SweptOver(line, p) == p \notin Range(line) /\ Winding(Steps(line), p) # 0

ChangeEdgeGeom(e, g) ==
  LET ends  == {org[e], org[-e]}
      z     == [az EXCEPT ![e] = Leaving(g), ![-e] = Arriving(g)]
      ge    == [geom EXCEPT ![e] = g]
      touched == IF BoxOf(Range(g)) = BoxOf(Range(geom[e])) THEN {}
                 ELSE {side[e], side[-e]} \ {Universe}
      motion == gbox_merge(BoxOf(Range(g)), BoxOf(Range(geom[e])))
      turned(d) == LET ring == getRingEdges(next, d)
                   IN  ptarray_isccw(RingSteps(ge, ring)) # ptarray_isccw(RingSteps(geom, ring))
  IN  /\ g[1] = geom[e][1] /\ Last(g) = Last(geom[e])
      /\ lwgeom_is_simple(g)
      /\ org[e] = org[-e] => ptarray_isccw(Steps(g)) = ptarray_isccw(Steps(geom[e]))
      /\ ~CheckEdgeCrossing(g, ends, e)
      /\ \A n \in DOMAIN at \ ends :
           BoxesOverlap(BoxOf({at[n]}), motion)
             => (SweptOver(g, at[n]) <=> SweptOver(geom[e], at[n]))
      /\ L!SameNeighbours(e, z) /\ L!SameNeighbours(-e, z)
      /\ \A f \in touched : lwt_GetFaceGeometry(ge, f) # {}
      /\ AnyReshape \/ \A d \in {e, -e} : ~turned(d)
      /\ geom' = ge
      /\ face' = [f \in DOMAIN face |->
                    IF f \in touched THEN RegionBox(lwt_GetFaceGeometry(ge, f)) ELSE face[f]]
      /\ UNCHANGED <<at, inface, org, next, side, relation>>

-----------------------------------------------------------------------------
(* TopoGeometries. *)

\* RelationTrigger: the element exists and is not the universe.
ElementExists(type, x) ==
  \/ type = NodeType /\ x \in DOMAIN at
  \/ type = EdgeType /\ x \in Darts
  \/ type = FaceType /\ x \in DOMAIN face \ {Universe}

TopoGeom_addElement(t, type, x) ==
  /\ Cardinality(relation) < MaxElems
  /\ ElementExists(type, x)
  /\ relation' = relation \cup {<<t, type, x>>}
  /\ UNCHANGED <<at, inface, geom, org, next, side, face>>

TopoGeom_remElement(t, type, x) ==
  /\ relation' = relation \ {<<t, type, x>>}
  /\ UNCHANGED <<at, inface, geom, org, next, side, face>>

clearTopoGeom(t) ==
  /\ relation' = {row \in relation : row[1] # t}
  /\ UNCHANGED <<at, inface, geom, org, next, side, face>>

-----------------------------------------------------------------------------
NodeOps ==
  \/ \E n \in Nodes, p \in Sites : AddIsoNode(n, p)
  \/ \E n \in DOMAIN at, p \in Sites : MoveIsoNode(n, p)
  \/ \E n \in DOMAIN at : RemoveIsoNode(n)

AddOps ==
  \E e \in L!NewEdgeIds(Edges), m, n \in DOMAIN at, g \in Lines :
    AddIsoEdge(e, m, n, g) \/ \E modFace \in BOOLEAN : AddEdge(e, m, n, g, modFace)

SplitOps ==
  \E e \in Edges, n \in Nodes, p \in Sites, f \in L!NewEdgeIds(Edges) :
    \/ ModEdgeSplit(e, n, p, f)
    \/ \E g \in L!NewEdgeIds(Edges \cup {f}) : NewEdgesSplit(e, n, p, f, g)

HealOps ==
  \E e1, e2 \in Edges : \E x \in {e1, -e1}, y \in {e2, -e2} :
    \E k \in {e1} \cup L!NewEdgeIds(Edges) : HealEdges(e1, e2, x, y, k)

RemOps == \E e \in Edges : RemIsoEdge(e) \/ \E modFace \in BOOLEAN : RemEdge(e, modFace)

ChangeOps == \E e \in Edges, g \in Lines : ChangeEdgeGeom(e, g)

RelationOps ==
  \E t \in TopoGeoms :
    \/ \E n \in DOMAIN at : TopoGeom_addElement(t, NodeType, n)
    \/ \E d \in Darts : TopoGeom_addElement(t, EdgeType, d)
    \/ \E f \in DOMAIN face : TopoGeom_addElement(t, FaceType, f)
    \/ \E row \in relation : TopoGeom_remElement(t, row[2], row[3])
    \/ clearTopoGeom(t)

Next ==
  /\ NodeOps \/ AddOps \/ SplitOps \/ HealOps \/ RemOps \/ ChangeOps \/ RelationOps
  /\ DOMAIN face' \subseteq 0 .. MaxFace

Spec == Init /\ [][Next]_vars

-----------------------------------------------------------------------------
(* What is promised.  The faces are compared with the regions into which    *)
(* the edges cut the plane, found cell by cell, not by rings and windings.  *)

Walls == UNION {Undirected(Steps(geom[e])) : e \in Edges}

\* Every face identifier the tables mention, with the region it is meant to be.
Claims ==
  LET regions == Regions(Walls)
      region(c) == CHOOSE r \in regions : c \in r
  IN  (UNION {{<<side[d], region(LeftCell(s))>> : s \in Steps(Path(geom, d))} : d \in Darts})
      \cup {<<inface[n], region(CellAt(at[n][1], at[n][2]))>> :
              n \in {m \in DOMAIN at : L!Out(m) = {}}}
      \cup {<<Universe, region(Outer)>>}

\* Tables refer to one another: edges to nodes, faces and edges, TopoGeometries
\* to primitives that exist and are not the universe.
TopoTypeOK ==
  /\ at \in [DOMAIN at -> Vertices] /\ DOMAIN at \subseteq Nodes
  /\ DOMAIN inface = DOMAIN at
  /\ Edges \subseteq L!EdgeIds /\ Darts = Edges \cup {-e : e \in Edges}
  /\ org \in [Darts -> DOMAIN at] /\ next \in [Darts -> Darts]
  /\ DOMAIN face \subseteq 0 .. MaxFace /\ Universe \in DOMAIN face
  /\ side \in [Darts -> DOMAIN face]
  /\ \A n \in DOMAIN at : inface[n] \in DOMAIN face \cup {None}
  /\ \A row \in relation : row[1] \in TopoGeoms /\ ElementExists(row[2], row[3])

\* left_face, right_face and containing_face name faces as the plane has them:
\* two of them are equal just if they stand for the same region, face 0 is the
\* unbounded one, and every row of table face is one of them.
FacesMatchPlane ==
  LET claims == Claims
  IN  /\ \A a, b \in claims : a[1] = b[1] <=> a[2] = b[2]
      /\ {a[1] : a \in claims} = DOMAIN face

\* A node has a containing face just if no edge meets it.
IsolationExact == \A n \in DOMAIN at : inface[n] = None <=> L!Out(n) # {}

\* The mbr of a face is the bounding box of its region.
MbrExact == \A a \in Claims : a[1] # Universe => face[a[1]] = RegionBox(a[2])

\* An edge that passes all checks of ST_AddEdge never fails over the faces
\* around it.
AddEdgeFindsFace ==
  \A e \in L!NewEdgeIds(Edges), m, n \in DOMAIN at, g \in Lines :
    LegalEdge(m, n, g) =>
      EdgeFace(e, m, n, L!With(az, e, Leaving(g), Arriving(g))) # None

\* GetFaceContainingPoint finds the face of every point that is on no edge.
FaceOfPoint ==
  LET claims == Claims
      actual(c) == (CHOOSE a \in claims : c \in a[2])[1]
  IN  /\ \A c \in Cells \ {Outer} :
           lwt_GetFaceContainingPoint(<<2 * c[1] + 1, 2 * c[2] + 1>>) = actual(c)
      /\ \A p \in Vertices :
           ~ExistsEdgeIntersectingPoint(p)
             => lwt_GetFaceContainingPoint(Twice(p)) = actual(CellAt(p[1], p[2]))

\* The points, steps and cells that TopoGeometry t covers.
Shape(t) ==
  LET elems(type) == {row[3] : row \in {r \in relation : r[1] = t /\ r[2] = type}}
  IN  <<{at[n] : n \in elems(NodeType)},
        UNION {Undirected(Steps(Path(geom, d))) : d \in elems(EdgeType)},
        UNION {UNION {a[2] : a \in {b \in Claims : b[1] = f}} : f \in elems(FaceType)}>>

\* Adding or removing nodes and edges changes the shape of no TopoGeometry.
ShapesKept ==
  [][DOMAIN at' # DOMAIN at \/ DOMAIN geom' # DOMAIN geom
       => \A t \in TopoGeoms : Shape(t)' = Shape(t)]_vars

\* ST_NewEdgesSplit splits an edge wherever no node is, whatever TopoGeometries
\* the edge belongs to.
SplitServesTopoGeoms ==
  \A e \in Edges, n \in Nodes \ DOMAIN at, p \in Sites, f \in L!NewEdgeIds(Edges) :
    \A g \in L!NewEdgeIds(Edges \cup {f}) :
      _lwt_EdgeSplit(e, p) => ENABLED NewEdgesSplit(e, n, p, f, g)

\* The linking columns behave as TopoLinks says: this is L!LinkSpec, with the
\* steps that leave those columns alone told apart first.
LinksRefined ==
  L!LinkInit /\ [][\/ UNCHANGED <<DOMAIN at, org, az, next>>
                  \/ L!LinkNext]_<<DOMAIN at, org, az, next>>
=============================================================================
