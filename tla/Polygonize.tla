----------------------------- MODULE Polygonize -----------------------------
(***************************************************************************)
(* lwt_Polygonize of liblwgeom/lwgeom_topo.c: the faces of a topology      *)
(* whose edges are linked but know no faces, as lwt_AddLineNoFace leaves   *)
(* them.  It finds all faces at once from the rings of edges, where the    *)
(* editing functions patch those that are there.  It is a function of geom *)
(* and next, evaluated here in every state of the editing model.           *)
(***************************************************************************)
EXTENDS Topology

\* The order in which the sides of edges are visited.
Rank(d) == IF d > 0 THEN 2 * d ELSE 1 - 2 * d

\* The rings, each named by the dart it is built from: the first one visited.
RingName(d) ==
  LET ring == getRingEdges(next, d)
  IN  CHOOSE x \in ring : \A y \in ring : Rank(x) <= Rank(y)

EdgeRings == {RingName(d) : d \in Darts}

EdgeRing(d) == RingSteps(geom, getRingEdges(next, d))

\* mutant: any ring that does not run clockwise is a shell
EdgeRingNotClockwise(ring) == Area(ring) >= 0

\* Here a ring of no area is not counterclockwise.
_lwt_EdgeRingIsCCW(ring) == Area(ring) > 0

Shells == {d \in EdgeRings : _lwt_EdgeRingIsCCW(EdgeRing(d))}

\* The ring meets a ray to the east from p an odd number of times.
_lwt_EdgeRingContainsPoint(ring, p) == Winding(ring, p) % 2 = 1

RingBox(d) == StepsBox(EdgeRing(d))

\* Shell s is around the ring of d: it is not the other side of the same edge,
\* its box is larger and the first point of the edge is within it.
Surrounds(s, d) ==
  /\ s # -d
  /\ RingBox(s) # RingBox(d)
  /\ gbox_contains_2d(RingBox(s), RingBox(d))
  /\ _lwt_EdgeRingContainsPoint(EdgeRing(s), geom[IF d > 0 THEN d ELSE -d][1])

\* mutant: the last shell found remains, not the closest
FindFaceLast(shells, d) ==
  FoldLeft(LAMBDA found, s : IF Surrounds(s, d) THEN s ELSE found, Universe, shells)

\* The shell around the ring of d, or the universe.  The shells come as the tree
\* of their boxes yields them; one whose box is not within the box of a shell
\* found before is passed over.
_lwt_FindFaceContainingRing(shells, d) ==
  LET closer(s, found) == found = Universe \/ gbox_contains_2d(RingBox(found), RingBox(s))
  IN  FoldLeft(LAMBDA found, s : IF closer(s, found) /\ Surrounds(s, d) THEN s ELSE found,
               Universe, shells)

\* The sides and the faces it registers, each face named by its shell.
lwt_Polygonize(shells) ==
  LET faceOf(r) == IF r \in Shells THEN r ELSE _lwt_FindFaceContainingRing(shells, r)
  IN  [side |-> [d \in Darts |-> faceOf(RingName(d))],
       face |-> [r \in Shells |-> RingBox(r)]]

-----------------------------------------------------------------------------
\* What Polygonize finds is what the plane has, in whatever order the tree
\* yields the shells: two sides get the same face just if they look into the
\* same region, face 0 is the unbounded one, and the box of each face is that
\* of its region.
PolygonizeExact ==
  LET regions == Regions(Walls)
      region(c) == CHOOSE r \in regions : c \in r
      facing == [d \in Darts |-> region(LeftCell(CHOOSE s \in Steps(Path(geom, d)) : TRUE))]
  IN  \A shells \in SetToSeqs(Shells) :
        LET p == lwt_Polygonize(shells)
            claims == {<<p.side[d], facing[d]>> : d \in Darts} \cup {<<Universe, region(Outer)>>}
        IN  /\ \A a, b \in claims : a[1] = b[1] <=> a[2] = b[2]
            /\ \A a \in claims : a[1] # Universe => p.face[a[1]] = RegionBox(a[2])
=============================================================================
