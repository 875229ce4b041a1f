----------------------------- MODULE FaceProofs -----------------------------
(***************************************************************************)
(* Faces as colours of the cells of the plane.  The tables are right if    *)
(* some map gives each cell a face so that it changes only at edges, as    *)
(* often as it can, and left_face, right_face, containing_face and mbr are *)
(* those of the map: FaceInv.  It implies what the runs check of faces.    *)
(*                                                                         *)
(* A split or a heal leaves the map; taking an edge away fills one face    *)
(* with the other; and a new edge that closes a ring has the part inside   *)
(* coloured anew.  That AddFaceSplit does so with the tables, from the     *)
(* area of the ring, the boxes of the edges and the links, is shown for    *)
(* the call that keeps a face and for the two that replace it.             *)
(***************************************************************************)
EXTENDS PlaneProofs

-----------------------------------------------------------------------------
(* Faces as colours of the cells. *)

\* What changes nowhere but at walls is the same for cells of one colour.
Finest(walls, col) ==
  \A k : Smooth(walls, k) => \A c, d \in Cells : col[c] = col[d] => k[c] = k[d]

\* The cells of colour f.
Part(col, f) == {c \in Cells : col[c] = f}

\* Faces F, with lines G of darts D that leave the nodes o: col[c] is the face
\* that cell c is in, sides s and containing faces in are those of cells.
FaceMap(a, in, G, D, s, F, col) ==
  /\ col \in [Cells -> DOMAIN F] /\ \A f \in DOMAIN F : \E c \in Cells : col[c] = f
  /\ Smooth(WallsOf(G), col) /\ Finest(WallsOf(G), col)
  /\ col[Outer] = Universe
  /\ \A d \in D : s[d] = col[LeftOf(G, d)]
  /\ \A n \in DOMAIN a : in[n] # None => in[n] = col[CellAt(a[n][1], a[n][2])]
  /\ \A f \in DOMAIN F \ {Universe} : F[f] = RegionBox(Part(col, f))
\* Some map of the plane gives every cell a face, as the tables have it.
FaceInv == \E col : FaceMap(at, inface, geom, Darts, side, face, col)

\* The tables are a net of darts and lines.
LEMMA NetHolds ==
  ASSUME TopoInv, Planar
  PROVE  Net(at, geom, org, next)
<1>1. at \in [DOMAIN at -> Vertices] /\ Lined(geom, Darts) /\ Drawn(geom, org, at) /\ TakenOnce(geom)
      /\ az = Turning(geom, Darts)
  BY InvFacts
<1>2. LP!Good(DOMAIN at, org, az, next)  BY DEF TopoInv, LP!LinkInv
<1>3. QED  BY <1>1, <1>2 DEF Net, Planar, Darts

\* So they are after a step.
LEMMA NetHoldsNext ==
  ASSUME TopoInv', Planar'
  PROVE  Net(at', geom', org', next')
<1>1. Tables(at', inface', geom', org', Darts', side')  BY DEF TopoInv
<1>2. at' \in [DOMAIN at' -> Vertices] /\ Lined(geom', Darts') /\ Drawn(geom', org', at') /\ TakenOnce(geom')
  BY <1>1 DEF Tables
<1>3. LP!Good(DOMAIN at', org', az', next')  BY DEF TopoInv, LP!LinkInv
<1>4. az' = Turning(geom', Darts')  BY NextTurning
<1>5. Meeting(at', geom')  BY DEF Planar
<1>6. Darts' = DOMAIN next'  BY DEF Darts
<1>7. QED  BY <1>2, <1>3, <1>4, <1>5, <1>6 DEF Net

\* A region is the cells of one colour.
LEMMA RegionColour ==
  ASSUME NEW walls, NEW col, Smooth(walls, col), Finest(walls, col), NEW c \in Cells
  PROVE  Region(walls, c) = Part(col, col[c])
<1> DEFINE R == Region(walls, c)
           k == [x \in Cells |-> IF x \in R THEN 1 ELSE 0]
<1>1. Enclosed(walls, R) /\ c \in R /\ R \in SUBSET Cells  BY EnclosedRegion DEF Region
<1>2. Smooth(walls, k)
  <2>1. SUFFICES ASSUME NEW b \in Borders, b.step \notin walls, NEW x \in b.cells, NEW y \in b.cells
                 PROVE  k[x] = k[y]
    BY DEF Smooth
  <2>2. x \in Cells /\ y \in Cells  BY BorderCells
  <2>3. x \in R => b.cells \subseteq R  BY <1>1, <2>1 DEF Enclosed
  <2>4. y \in R => b.cells \subseteq R  BY <1>1, <2>1 DEF Enclosed
  <2>5. x \in R <=> y \in R  BY <2>1, <2>3, <2>4
  <2>6. QED  BY <2>2, <2>5
<1>3. ASSUME NEW d \in Cells, col[d] = col[c]  PROVE d \in R
  <2>1. k[c] = k[d]  BY <1>2, <1>3 DEF Finest
  <2>2. QED  BY <1>1, <2>1
<1>4. ASSUME NEW d \in R  PROVE col[d] = col[c]
  <2>1. Connected(walls, c, d)  BY DEF Region
  <2>2. QED  BY <2>1, SmoothConnected
<1>5. QED  BY <1>1, <1>3, <1>4 DEF Part

\* What changes nowhere is the same everywhere.
LEMMA SmoothNowhere ==
  ASSUME NEW walls, NEW k, Smooth(walls, k), \A w : w \notin walls, NEW c \in Cells
  PROVE  k[c] = k[Outer]
<1>1. PICK x, y \in Int : c = CellAt(x, y) /\ x \in -1 .. Width - 1 /\ y \in -1 .. Height - 1
  BY CellIntro
<1>10. \A j \in Int : k[CellAt(x, j)] = k[CellAt(x, j - 1)]
  <2>1. SUFFICES ASSUME NEW j \in Int  PROVE k[CellAt(x, j)] = k[CellAt(x, j - 1)]
    OBVIOUS
  <2>2. /\ {<<x, j>>, <<x + 1, j>>} \notin walls => k[CellAt(x, j)] = k[CellAt(x, j - 1)]
        /\ {<<x, j>>, <<x, j + 1>>} \notin walls => k[CellAt(x - 1, j)] = k[CellAt(x, j)]
    BY SmoothRows
  <2>3. QED  BY <2>2
<1> DEFINE P == {i \in Nat : k[CellAt(x, i - 1)] = k[Outer]}
<1>2. Height \in Nat /\ Height > 0 /\ Width \in Nat  BY GridSize
<1>3. 0 \in P
  <2>1. CellAt(x, 0 - 1) = Outer
    <3>1. 0 - 1 \in Int /\ ~(0 - 1 \in 0 .. Height - 1)  BY <1>2
    <3>2. QED  BY <1>1, <3>1, CellFacts
  <2>2. QED  BY <2>1
<1>4. ASSUME NEW i \in 0 .. Height, i > 0, i - 1 \in P  PROVE i \in P
  <2>1. k[CellAt(x, i - 1)] = k[CellAt(x, (i - 1) - 1)]
    <3>1. i - 1 \in Int  OBVIOUS
    <3>2. QED  BY <1>10, <3>1
  <2>2. QED  BY <1>4, <2>1
<1>5. 0 .. Height \subseteq P
  <2> HIDE DEF P
  <2>1. QED  BY <1>2, <1>3, <1>4, Downward
<1>6. y + 1 \in 0 .. Height /\ (y + 1) - 1 = y  BY <1>1, <1>2
<1>7. y + 1 \in P  BY <1>5, <1>6
<1>8. k[CellAt(x, (y + 1) - 1)] = k[Outer]  BY <1>7
<1>9. QED  BY <1>1, <1>6, <1>8

\* What the tables claim of a face is so.
LEMMA WallsAre == Walls = WallsOf(geom)
BY DEF Walls, WallsOf, Edges

\* The region of cell c.
RegionAt(c) == CHOOSE r \in Regions(Walls) : c \in r

\* A region is all that has one colour.
LEMMA ClaimedRegion ==
  ASSUME NEW col, Smooth(WallsOf(geom), col), Finest(WallsOf(geom), col), NEW c \in Cells
  PROVE  RegionAt(c) = Part(col, col[c])
<1> DEFINE W == WallsOf(geom)
<1>1. Regions(Walls) = {Region(W, d) : d \in Cells}  BY WallsAre, RegionsAre
<1>2. Region(W, c) \in Regions(Walls)  BY <1>1
<1>3. c \in Region(W, c)  BY EnclosedRegion
<1>4. ASSUME NEW r \in Regions(Walls), c \in r  PROVE r = Region(W, c)
  <2>1. PICK d \in Cells : r = Region(W, d)  BY <1>1
  <2>2. Region(W, c) = Region(W, d)  BY <1>4, <2>1, SameRegion
  <2>3. QED  BY <2>1, <2>2
<1>5. RegionAt(c) = Region(W, c)
  <2> HIDE DEF W
  <2>1. QED  BY <1>2, <1>3, <1>4 DEF RegionAt
<1>6. QED  BY <1>5, RegionColour

\* The parts of Claims: what the sides of edges claim ...
SideClaims == UNION {{<<side[d], RegionAt(LeftCell(s))>> : s \in Steps(Path(geom, d))} : d \in Darts}
\* ... and what nodes without edges do.
NodeClaims ==
  {<<inface[n], RegionAt(CellAt(at[n][1], at[n][2]))>> : n \in {m \in DOMAIN at : L!Out(m) = {}}}

\* There is no other claim but that of the outside.
LEMMA ClaimsParts == Claims = SideClaims \cup NodeClaims \cup {<<Universe, RegionAt(Outer)>>}
BY DEF Claims, SideClaims, NodeClaims, RegionAt

\* What a cell claims of its face.
Claimed(col, c) == <<col[c], Part(col, col[c])>>
\* The map col is that of the tables.
NowMap(col) == FaceMap(at, inface, geom, Darts, side, face, col)

\* What that means.
LEMMA MapFacts ==
  ASSUME NEW col, NowMap(col)
  PROVE  /\ col \in [Cells -> DOMAIN face] /\ \A f \in DOMAIN face : \E c \in Cells : col[c] = f
         /\ Smooth(WallsOf(geom), col) /\ Finest(WallsOf(geom), col)
         /\ col[Outer] = Universe
         /\ \A d \in Darts : side[d] = col[LeftOf(geom, d)]
         /\ \A n \in DOMAIN at : inface[n] # None => inface[n] = col[CellAt(at[n][1], at[n][2])]
         /\ \A f \in DOMAIN face \ {Universe} : face[f] = RegionBox(Part(col, f))
BY DEF NowMap, FaceMap

\* There is a cell at every vertex.
LEMMA NodeCell ==
  ASSUME NEW v \in Vertices
  PROVE  CellAt(v[1], v[2]) \in Cells /\ v[1] \in Int /\ v[2] \in Int
<1>1. v[1] \in Int /\ v[2] \in Int  BY VertexParts
<1>2. QED  BY <1>1, CellFacts

\* Every claim is that of a cell.
LEMMA ClaimsAre ==
  ASSUME TopoInv, Planar, NEW col, NowMap(col), NEW q \in Claims
  PROVE  \E c \in Cells : q = Claimed(col, c)
<1>1. Net(at, geom, org, next) /\ Darts = DOMAIN next  BY NetHolds DEF Darts
<1>2. \A c \in Cells : <<col[c], RegionAt(c)>> = Claimed(col, c)
  BY ClaimedRegion, MapFacts DEF Claimed
<1>3. CASE q \in SideClaims
  <2>1. PICK d \in Darts : \E s \in Steps(Path(geom, d)) : q = <<side[d], RegionAt(LeftCell(s))>>
    BY <1>3 DEF SideClaims
  <2>2. PICK s \in Steps(Path(geom, d)) : q = <<side[d], RegionAt(LeftCell(s))>>  BY <2>1
  <2>3. d \in DOMAIN next  BY <1>1
  <2>4. col[LeftCell(s)] = col[LeftOf(geom, d)]  BY <1>1, <2>3, MapFacts, Sides
  <2>5. LeftCell(s) \in Cells  BY <1>1, <2>3, LeftIsCell
  <2>6. side[d] = col[LeftOf(geom, d)]  BY MapFacts
  <2>7. QED  BY <1>2, <2>2, <2>4, <2>5, <2>6
<1>4. CASE q \in NodeClaims
  <2>1. PICK n \in DOMAIN at : L!Out(n) = {} /\ q = <<inface[n], RegionAt(CellAt(at[n][1], at[n][2]))>>
    BY <1>4 DEF NodeClaims
  <2>2. inface[n] # None  BY <2>1, InvFacts
  <2>3. CellAt(at[n][1], at[n][2]) \in Cells
    <3>1. at[n] \in Vertices  BY InvFacts
    <3>2. QED  BY <3>1, NodeCell
  <2>4. inface[n] = col[CellAt(at[n][1], at[n][2])]  BY <2>2, MapFacts
  <2>5. QED  BY <1>2, <2>1, <2>3, <2>4
<1>5. CASE q = <<Universe, RegionAt(Outer)>>
  <2>1. Outer \in Cells  BY DEF Cells
  <2>2. QED  BY <1>2, <1>5, <2>1, MapFacts
<1>6. QED  BY <1>3, <1>4, <1>5, ClaimsParts

\* Every face is claimed.
LEMMA ClaimsAll ==
  ASSUME TopoInv, Planar, NEW col, NowMap(col), NEW f \in DOMAIN face
  PROVE  \E q \in Claims : q[1] = f
<1>1. Net(at, geom, org, next) /\ Darts = DOMAIN next  BY NetHolds DEF Darts
<1>2. CASE f = Universe
  <2>1. PICK q : q = <<Universe, RegionAt(Outer)>>  OBVIOUS
  <2>2. q \in Claims /\ q[1] = Universe  BY <2>1, ClaimsParts
  <2>3. QED  BY <1>2, <2>2
<1>3. CASE f # Universe
  <2>1. SUFFICES ASSUME \A q \in Claims : q[1] # f  PROVE FALSE  OBVIOUS
  <2>2. ASSUME NEW d \in Darts  PROVE side[d] # f
    <3>1. <<Path(geom, d)[1], Path(geom, d)[2]>> \in Steps(Path(geom, d))  BY <1>1, LeftIsCell
    <3>2. <<side[d], RegionAt(LeftOf(geom, d))>> \in SideClaims  BY <3>1 DEF SideClaims, LeftOf
    <3>3. QED  BY <2>1, <3>2, ClaimsParts
  <2> DEFINE k == [x \in Cells |-> IF col[x] = f THEN 1 ELSE 0]
  <2>3. PICK none : none = {}  OBVIOUS
  <2>4. Smooth(none, k)
    <3>1. SUFFICES ASSUME NEW s \in UnitSteps  PROVE k[LeftCell(s)] = k[RightCell(s)]
      BY SmoothIntro
    <3>2. LeftCell(s) \in Cells /\ RightCell(s) \in Cells  BY StepCells
    <3>3. CASE {s[1], s[2]} \notin WallsOf(geom)
      <4>1. col[LeftCell(s)] = col[RightCell(s)]  BY <3>3, MapFacts, SmoothAcross
      <4>2. QED  BY <3>2, <4>1
    <3>4. CASE {s[1], s[2]} \in WallsOf(geom)
      <4>1. PICK e \in Edges : {s[1], s[2]} \in Undirected(Steps(geom[e]))
        BY <3>4 DEF WallsOf, Edges
      <4>2. PICK r \in Steps(geom[e]) : {s[1], s[2]} = {r[1], r[2]}  BY <4>1 DEF Undirected
      <4>3. e \in DOMAIN next /\ Path(geom, e) = geom[e] /\ -e \in DOMAIN next
        BY <1>1, NetFacts DEF Edges
      <4>4. r \in Steps(Path(geom, e))  BY <4>2, <4>3
      <4>5. col[LeftCell(r)] = col[LeftOf(geom, e)] /\ col[RightCell(r)] = col[LeftOf(geom, -e)]
        BY <1>1, <4>3, <4>4, MapFacts, Sides
      <4>6. col[LeftCell(r)] # f /\ col[RightCell(r)] # f
        BY <1>1, <2>2, <4>3, <4>5, MapFacts
      <4>7. r \in UnitSteps  BY <1>1, <4>3, <4>4, LeftIsCell
      <4>8. s = r \/ s = Back(r)
        <5>1. s = <<s[1], s[2]>> /\ r = <<r[1], r[2]>>  BY <4>7, UnitPoints
        <5>2. (s[1] = r[1] /\ s[2] = r[2]) \/ (s[1] = r[2] /\ s[2] = r[1])  BY <4>2
        <5>3. QED  BY <5>1, <5>2 DEF Back
      <4>9. LeftCell(Back(r)) = RightCell(r) /\ RightCell(Back(r)) = LeftCell(r)
        BY <4>7, StepCells
      <4>10. col[LeftCell(s)] # f /\ col[RightCell(s)] # f  BY <4>6, <4>8, <4>9
      <4>11. QED  BY <3>2, <4>10
    <3>5. QED  BY <3>3, <3>4
  <2>5. PICK c \in Cells : col[c] = f  BY MapFacts
  <2>6. k[c] = k[Outer]
    <3> HIDE DEF k
    <3>1. \A w : w \notin none  BY <2>3
    <3>2. QED  BY <2>4, <3>1, SmoothNowhere
  <2>7. Outer \in Cells  BY DEF Cells
  <2>8. k[c] = 1 /\ k[Outer] = 0  BY <1>3, <2>5, <2>7, MapFacts
  <2>9. QED  BY <2>6, <2>8
<1>4. QED  BY <1>2, <1>3

\* Where there is a map the faces match the plane.
LEMMA MapMatches ==
  ASSUME TopoInv, Planar, NEW col, NowMap(col)
  PROVE  FacesMatchPlane /\ MbrExact
<1>1. \A q \in Claims : \E c \in Cells : q = Claimed(col, c)  BY ClaimsAre
<1>2. ASSUME NEW p \in Claims, NEW q \in Claims  PROVE p[1] = q[1] <=> p[2] = q[2]
  <2>1. PICK c \in Cells : p = Claimed(col, c)  BY <1>1
  <2>2. PICK d \in Cells : q = Claimed(col, d)  BY <1>1
  <2>3. p[1] = col[c] /\ p[2] = Part(col, col[c]) /\ q[1] = col[d] /\ q[2] = Part(col, col[d])
    BY <2>1, <2>2 DEF Claimed
  <2>4. c \in Part(col, col[c])  BY DEF Part
  <2>5. c \in Part(col, col[d]) => col[c] = col[d]  BY DEF Part
  <2>6. QED  BY <2>3, <2>4, <2>5
<1>3. {q[1] : q \in Claims} = DOMAIN face
  <2>1. ASSUME NEW q \in Claims  PROVE q[1] \in DOMAIN face
    <3>1. PICK c \in Cells : q = Claimed(col, c)  BY <1>1
    <3>2. col \in [Cells -> DOMAIN face]  BY MapFacts
    <3>3. QED  BY <3>1, <3>2 DEF Claimed
  <2>2. \A f \in DOMAIN face : \E q \in Claims : q[1] = f  BY ClaimsAll
  <2>3. QED  BY <2>1, <2>2
<1>4. ASSUME NEW q \in Claims, q[1] # Universe  PROVE face[q[1]] = RegionBox(q[2])
  <2>1. PICK c \in Cells : q = Claimed(col, c)  BY <1>1
  <2>2. q[1] = col[c] /\ q[2] = Part(col, col[c])  BY <2>1 DEF Claimed
  <2>3. col[c] \in DOMAIN face  BY MapFacts
  <2>4. QED  BY <1>4, <2>2, <2>3, MapFacts
<1>5. FacesMatchPlane  BY <1>2, <1>3 DEF FacesMatchPlane
<1>6. MbrExact  BY <1>4 DEF MbrExact
<1>7. QED  BY <1>5, <1>6

\* The invariant implies what the runs check.
LEMMA FacesHold ==
  ASSUME TopoInv, Planar, FaceInv
  PROVE  FacesMatchPlane /\ MbrExact
<1>1. PICK col : NowMap(col)  BY DEF FaceInv, NowMap
<1>2. QED  BY <1>1, MapMatches

-----------------------------------------------------------------------------
(* Calls that leave the walls where they are. *)

\* Walls that other darts draw keep the map, where their sides and nodes do.
LEMMA MapRedrawn ==
  ASSUME NEW a, NEW in, NEW G, NEW o, NEW nx, Net(a, G, o, nx), NEW s, NEW F, NEW col,
         FaceMap(a, in, G, DOMAIN nx, s, F, col),
         NEW H, WallsOf(H) = WallsOf(G), NEW D2, NEW s2,
         \A d \in D2 : \E c \in DOMAIN nx : s2[d] = col[LeftOf(G, c)] /\ FirstOf(H, d) \in Steps(Path(G, c)),
         NEW a2, NEW in2,
         \A n \in DOMAIN a2 : in2[n] # None => n \in DOMAIN a /\ a2[n] = a[n] /\ in2[n] = in[n]
  PROVE  FaceMap(a2, in2, H, D2, s2, F, col)
<1>1. /\ col \in [Cells -> DOMAIN F] /\ \A f \in DOMAIN F : \E c \in Cells : col[c] = f
      /\ Smooth(WallsOf(G), col) /\ Finest(WallsOf(G), col)
      /\ col[Outer] = Universe
      /\ \A d \in DOMAIN nx : s[d] = col[LeftOf(G, d)]
      /\ \A n \in DOMAIN a : in[n] # None => in[n] = col[CellAt(a[n][1], a[n][2])]
      /\ \A f \in DOMAIN F \ {Universe} : F[f] = RegionBox(Part(col, f))
  BY DEF FaceMap
<1>2. ASSUME NEW d \in D2  PROVE s2[d] = col[LeftOf(H, d)]
  <2>1. PICK c \in DOMAIN nx : s2[d] = col[LeftOf(G, c)] /\ FirstOf(H, d) \in Steps(Path(G, c))  OBVIOUS
  <2>2. col[LeftCell(FirstOf(H, d))] = col[LeftOf(G, c)]  BY <1>1, <2>1, Sides
  <2>3. LeftCell(FirstOf(H, d)) = LeftOf(H, d)  BY DEF LeftOf, FirstOf
  <2>4. QED  BY <2>1, <2>2, <2>3
<1>3. ASSUME NEW n \in DOMAIN a2, in2[n] # None  PROVE in2[n] = col[CellAt(a2[n][1], a2[n][2])]
  BY <1>1, <1>3
<1>4. Smooth(WallsOf(H), col) /\ Finest(WallsOf(H), col)  BY <1>1
<1>5. QED  BY <1>1, <1>2, <1>3, <1>4 DEF FaceMap

\* A part of a line backwards is part of the line backwards.
LEMMA StepsReversed ==
  ASSUME NEW g, IsLine(g), NEW h, IsLine(h), Steps(h) \subseteq Steps(g)
  PROVE  Steps(Reverse(h)) \subseteq Steps(Reverse(g))
<1>1. SUFFICES ASSUME NEW s \in Steps(Reverse(h))  PROVE s \in Steps(Reverse(g))  OBVIOUS
<1>2. IsLine(Reverse(h)) /\ Reverse(Reverse(h)) = h  BY ReverseLine
<1>3. Back(s) \in Steps(h) /\ s = <<s[1], s[2]>>  BY <1>1, <1>2, StepsBack
<1>4. Back(Back(s)) \in Steps(Reverse(g))  BY <1>3, StepsBack
<1>5. Back(Back(s)) = s  BY <1>3 DEF Back
<1>6. QED  BY <1>4, <1>5

\* A dart starts on its line.
LEMMA FirstIn ==
  ASSUME NEW G, NEW d, IsLine(Path(G, d))
  PROVE  FirstOf(G, d) \in Steps(Path(G, d))
<1>1. Len(Path(G, d)) \in Nat /\ Len(Path(G, d)) > 1  BY LineFacts
<1>2. 1 \in 1 .. Len(Path(G, d)) - 1 /\ 1 + 1 = 2  BY <1>1
<1>3. QED  BY <1>2, PathSteps DEF FirstOf

\* The parts of a line are steps of it.
LEMMA CutSteps ==
  ASSUME NEW g, IsLine(g), NEW c \in 2 .. Len(g) - 1, NEW s, NEW t, Cut(g, c, s, t)
  PROVE  /\ IsLine(s) /\ IsLine(t) /\ Steps(s) \subseteq Steps(g) /\ Steps(t) \subseteq Steps(g)
<1>1. Len(g) \in Nat /\ Len(g) > 1  BY LineFacts
<1>2. 1 \in 1 .. Len(g) /\ c \in 1 .. Len(g) /\ 1 < c /\ Len(g) \in 1 .. Len(g) /\ c < Len(g)
      /\ c \in Int
  BY <1>1
<1>3. /\ IsLine(s) /\ Len(s) = c - 1 + 1 /\ \A i \in 1 .. c - 1 + 1 : s[i] = g[1 + i - 1]
  BY <1>2, PartOfLine DEF Cut
<1>4. /\ IsLine(t) /\ Len(t) = Len(g) - c + 1 /\ \A i \in 1 .. Len(g) - c + 1 : t[i] = g[c + i - 1]
  BY <1>2, PartOfLine DEF Cut
<1>5. ASSUME NEW i \in 1 .. Len(s) - 1  PROVE <<s[i], s[i + 1]>> \in Steps(g)
  <2>1. i \in 1 .. c - 1 + 1 /\ i + 1 \in 1 .. c - 1 + 1 /\ 1 + i - 1 = i /\ 1 + (i + 1) - 1 = i + 1
        /\ i \in 1 .. Len(g) - 1
    BY <1>1, <1>2, <1>3
  <2>2. s[i] = g[i] /\ s[i + 1] = g[i + 1]  BY <1>3, <2>1
  <2>3. QED  BY <2>1, <2>2, PathSteps
<1>6. ASSUME NEW i \in 1 .. Len(t) - 1  PROVE <<t[i], t[i + 1]>> \in Steps(g)
  <2>1. /\ i \in 1 .. Len(g) - c + 1 /\ i + 1 \in 1 .. Len(g) - c + 1 /\ c + (i + 1) - 1 = (c + i - 1) + 1
        /\ c + i - 1 \in 1 .. Len(g) - 1
    BY <1>1, <1>2, <1>4
  <2>2. t[i] = g[c + i - 1] /\ t[i + 1] = g[(c + i - 1) + 1]  BY <1>4, <2>1
  <2>3. PICK j \in 1 .. Len(g) - 1 : j = c + i - 1  BY <2>1
  <2>4. <<t[i], t[i + 1]>> = <<g[j], g[j + 1]>>  BY <2>2, <2>3
  <2>5. QED  BY <2>4, PathSteps
<1>7. Steps(s) \subseteq Steps(g)
  <2>1. ASSUME NEW q \in Steps(s)  PROVE q \in Steps(g)
    <3>1. PICK i \in 1 .. Len(s) - 1 : q = <<s[i], s[i + 1]>>  BY <2>1, PathSteps
    <3>2. QED  BY <1>5, <3>1
  <2>2. QED  BY <2>1
<1>8. Steps(t) \subseteq Steps(g)
  <2>1. ASSUME NEW q \in Steps(t)  PROVE q \in Steps(g)
    <3>1. PICK i \in 1 .. Len(t) - 1 : q = <<t[i], t[i + 1]>>  BY <2>1, PathSteps
    <3>2. QED  BY <1>6, <3>1
  <2>2. QED  BY <2>1
<1>9. QED  BY <1>3, <1>4, <1>7, <1>8

\* Edges k and g in the place of edge e.
LEMMA MapCut ==
  ASSUME NEW a, NEW in, NEW G, NEW o, NEW nx, Net(a, G, o, nx), NEW s, NEW F, NEW col,
         FaceMap(a, in, G, DOMAIN nx, s, F, col),
         NEW e, NEW c, NEW k, NEW g, NEW H, CutLines(G, e, c, k, g, H),
         NEW a2, NEW o2, NEW nx2, Net(a2, H, o2, nx2), NEW s2,
         s2[k] = s[e] /\ s2[g] = s[e] /\ s2[-k] = s[-e] /\ s2[-g] = s[-e],
         \A u \in DOMAIN G \ {e} : s2[u] = s[u] /\ s2[-u] = s[-u],
         NEW in2,
         \A n \in DOMAIN a2 : in2[n] # None => n \in DOMAIN a /\ a2[n] = a[n] /\ in2[n] = in[n]
  PROVE  FaceMap(a2, in2, H, DOMAIN nx2, s2, F, col)
<1>1. /\ e \in DOMAIN G /\ IsLine(G[e]) /\ c \in 2 .. Len(G[e]) - 1 /\ k # g
      /\ DOMAIN H = (DOMAIN G \ {e}) \cup {k, g} /\ Cut(G[e], c, H[k], H[g])
      /\ \A u \in DOMAIN G \ {e} : H[u] = G[u]
  BY DEF CutLines
<1>2. /\ IsLine(H[k]) /\ IsLine(H[g])
      /\ Steps(H[k]) \subseteq Steps(G[e]) /\ Steps(H[g]) \subseteq Steps(G[e])
  BY <1>1, CutSteps
<1>3. WallsOf(H) = WallsOf(G)
  <2>1. Stroke(G[e]) = Stroke(H[k]) \cup Stroke(H[g])  BY <1>1, StrokeCut
  <2>2. ASSUME NEW w  PROVE w \in WallsOf(H) <=> w \in WallsOf(G)
    <3>1. w \in WallsOf(H) <=> \E u \in DOMAIN H : w \in Stroke(H[u])  BY DEF WallsOf, Stroke
    <3>2. w \in WallsOf(G) <=> \E u \in DOMAIN G : w \in Stroke(G[u])  BY DEF WallsOf, Stroke
    <3>3. QED  BY <1>1, <2>1, <3>1, <3>2
  <2>3. QED  BY <2>2
<1>4. \A d \in DOMAIN nx : s[d] = col[LeftOf(G, d)]  BY DEF FaceMap
<1>5. \A d \in DOMAIN nx2 : /\ d \in Int /\ d # 0 /\ -(-d) = d /\ EdgeOf(d) \in DOMAIN H
                            /\ IsLine(Path(H, d)) /\ FirstOf(H, d) \in Steps(Path(H, d))
                            /\ d = EdgeOf(d) \/ d = -EdgeOf(d)
  <2>1. \A d \in DOMAIN nx2 : /\ d \in Int /\ d # 0 /\ -(-d) = d /\ EdgeOf(d) \in DOMAIN H
                              /\ IsLine(Path(H, d))
    BY NetFacts
  <2>2. QED  BY <2>1, FirstIn DEF EdgeOf
<1>6. \A u \in DOMAIN H : /\ u \in Int /\ u > 0 /\ Path(H, u) = H[u] /\ Path(H, -u) = Reverse(H[u])
  <2>1. \A u \in DOMAIN H : u \in DOMAIN nx2 /\ u > 0 /\ Path(H, u) = H[u]  BY NetFacts
  <2>2. \A u \in DOMAIN H : u \in Int /\ Path(H, -u) = Reverse(Path(H, u))  BY <2>1, NetFacts
  <2>3. QED  BY <2>1, <2>2
<1>7. \A u \in DOMAIN G : /\ u \in DOMAIN nx /\ -u \in DOMAIN nx /\ IsLine(G[u])
                          /\ Path(G, u) = G[u] /\ Path(G, -u) = Reverse(G[u])
  <2>1. \A u \in DOMAIN G : u \in DOMAIN nx /\ u > 0 /\ Path(G, u) = G[u] /\ IsLine(G[u])  BY NetFacts
  <2>2. \A u \in DOMAIN G : -u \in DOMAIN nx /\ Path(G, -u) = Reverse(Path(G, u))  BY <2>1, NetFacts
  <2>3. QED  BY <2>1, <2>2

\* Each edge of the new lines is part of an old one.
<1>8. \A u \in DOMAIN H : \E v \in DOMAIN G :
        /\ Steps(H[u]) \subseteq Steps(G[v]) /\ s2[u] = s[v] /\ s2[-u] = s[-v] /\ IsLine(H[u])
  <2>1. SUFFICES ASSUME NEW u \in DOMAIN H
                 PROVE  \E v \in DOMAIN G : /\ Steps(H[u]) \subseteq Steps(G[v]) /\ s2[u] = s[v]
                                            /\ s2[-u] = s[-v] /\ IsLine(H[u])
    OBVIOUS
  <2>2. CASE u = k  BY <1>1, <1>2, <2>2
  <2>3. CASE u = g  BY <1>1, <1>2, <2>3
  <2>4. CASE u \in DOMAIN G \ {e}  BY <1>1, <1>7, <2>4
  <2>5. QED  BY <1>1, <2>2, <2>3, <2>4
<1>9. ASSUME NEW d \in DOMAIN nx2
      PROVE  \E x \in DOMAIN nx : s2[d] = col[LeftOf(G, x)] /\ FirstOf(H, d) \in Steps(Path(G, x))
  <2>1. PICK u \in DOMAIN H : u = EdgeOf(d) /\ (d = u \/ d = -u)  BY <1>5
  <2>2. PICK v \in DOMAIN G :
          /\ Steps(H[u]) \subseteq Steps(G[v]) /\ s2[u] = s[v] /\ s2[-u] = s[-v] /\ IsLine(H[u])
    BY <1>8
  <2>3. Steps(Reverse(H[u])) \subseteq Steps(Reverse(G[v]))  BY <1>7, <2>2, StepsReversed
  <2>4. CASE d = u  BY <1>4, <1>5, <1>6, <1>7, <2>2, <2>4
  <2>5. CASE d = -u  BY <1>4, <1>5, <1>6, <1>7, <2>2, <2>3, <2>5
  <2>6. QED  BY <2>1, <2>4, <2>5
<1>10. QED
  BY <1>3, <1>9, MapRedrawn

\* Splits keep the map, ...
LEMMA SplitOpsFaces ==
  ASSUME TopoInv, Planar, TopoInv', Planar', SplitOps, NEW col, NowMap(col)
  PROVE  NowMap(col)'
<1>2. PICK e, n, c, k, g : SplitCall(e, n, c, k, g)  BY SplitCalls
<1>3. Net(at, geom, org, next) /\ Net(at', geom', org', next')  BY NetHolds, NetHoldsNext
<1>4. FaceMap(at, inface, geom, DOMAIN next, side, face, col)  BY DEF NowMap, Darts
<1> DEFINE a2 == at'
           in2 == inface'
           H == geom'
           o2 == org'
           nx2 == next'
           s2 == side'
<1>5. /\ DOMAIN a2 = DOMAIN at \cup {n} /\ in2[n] = None
      /\ \A m \in DOMAIN at : a2[m] = at[m] /\ in2[m] = inface[m]
      /\ CutLines(geom, e, c, k, g, H) /\ face' = face
      /\ s2[k] = side[e] /\ s2[g] = side[e] /\ s2[-k] = side[-e] /\ s2[-g] = side[-e]
      /\ \A u \in DOMAIN geom \ {e} : s2[u] = side[u] /\ s2[-u] = side[-u]
      /\ Net(a2, H, o2, nx2)
  BY <1>2, <1>3 DEF SplitCall, Edges
<1> HIDE DEF a2, in2, H, o2, nx2, s2
<1>6. \A m \in DOMAIN a2 : in2[m] # None => m \in DOMAIN at /\ a2[m] = at[m] /\ in2[m] = inface[m]
  BY <1>5
<1>7. FaceMap(a2, in2, H, DOMAIN nx2, s2, face, col)
  BY <1>3, <1>4, <1>5, <1>6, MapCut
<1>8. QED  BY <1>5, <1>7 DEF NowMap, a2, in2, H, nx2, s2, Darts

\* What lies on the left of a dart that ends at a node where only one other edge
\* ends lies on the left of that edge.
LEMMA NextOfTwo ==
  ASSUME TopoInv, NEW n, NEW e1, NEW e2, NEW x, NEW y, EndAt(n, e1, e2, x, y)
  PROVE  next[y] = -x
<1>1. /\ y \in Darts /\ -y \in Darts /\ -x \in Darts /\ -(-y) = y /\ org[-x] = n /\ org[-y] = n /\ -x # -y
      /\ \A d \in Darts : org[d] = n <=> d \in {-x, -y}
  <2>1. /\ y \in Darts /\ -y \in Darts /\ -x \in Darts /\ -(-y) = y /\ org[-x] = n /\ org[-y] = n
        /\ \A d \in Darts : org[d] = n <=> d \in {-x, -y}
        /\ x # y /\ -(-x) = x
    BY DEF EndAt
  <2>2. -x # -y  BY <2>1
  <2>3. QED  BY <2>1, <2>2
<1>2. LP!Good(DOMAIN at, org, az, next)  BY DEF TopoInv, LP!LinkInv
<1>3. LP!Follows(org, az, y, next[y]) /\ next[y] \in Darts /\ org[next[y]] = org[-y]
  BY <1>1, <1>2 DEF LP!Good, LP!Typed, LP!Rotated, LP!Follows, Darts
<1>4. next[y] \in {-x, -y}  BY <1>1, <1>3
<1>5. next[y] # -y
  <2>1. DOMAIN org = Darts /\ az \in [DOMAIN org -> LP!Azimuths]
    BY <1>2, Linking, LP!GoodFacts DEF Darts
  <2>2. ~LP!Follows(org, az, y, -y)
    <3>1. -x \in DOMAIN org /\ -x # -y /\ org[-x] = org[-y] /\ -y \in DOMAIN org  BY <1>1, <2>1
    <3>2. PICK c, r : c = -y /\ r = -x  OBVIOUS
    <3>3. c \in DOMAIN org /\ r \in DOMAIN org /\ r # c /\ org[r] = org[c] /\ -y = c  BY <3>1, <3>2
    <3>4. ~LP!Follows(org, az, y, c)  BY <2>1, <3>3, Linking, LP!NotSelf
    <3>5. QED  BY <3>2, <3>4
  <2>3. QED  BY <1>3, <2>2
<1>6. QED  BY <1>4, <1>5

\* Heals leave the walls, ...
LEMMA HealWalls ==
  ASSUME NEW G, NEW e, NEW f, NEW P, NEW Q, NEW j, NEW k, NEW H, HealedLines(G, e, f, P, Q, j, k, H)
  PROVE  WallsOf(H) = WallsOf(G)
<1>1. /\ \A u \in DOMAIN G : IsLine(G[u])
      /\ e \in DOMAIN G /\ f \in DOMAIN G
      /\ P \in {G[e], Reverse(G[e])} /\ Q \in {G[f], Reverse(G[f])} /\ Along(j, P, Q)
      /\ DOMAIN H = (DOMAIN G \ {e, f}) \cup {k} /\ H[k] \in {j, Reverse(j)}
      /\ \A u \in DOMAIN G \ {e, f} : H[u] = G[u]
      /\ k \notin DOMAIN G \ {e, f}
  BY DEF HealedLines
<1>2. Stroke(P) = Stroke(G[e]) /\ Stroke(Q) = Stroke(G[f])  BY <1>1, StrokeReversed
<1>3. IsLine(P) /\ IsLine(Q)  BY <1>1, ReverseLine
<1>4. IsLine(j) /\ Joins(j, P, Q)  BY <1>1 DEF Along
<1>5. Stroke(j) = Stroke(P) \cup Stroke(Q)  BY <1>3, <1>4, StrokeJoined
<1>6. Stroke(H[k]) = Stroke(j)  BY <1>1, <1>4, StrokeReversed
<1>7. ASSUME NEW w  PROVE w \in WallsOf(H) <=> w \in WallsOf(G)
  <2>1. w \in WallsOf(H) <=> \E u \in DOMAIN H : w \in Stroke(H[u])  BY DEF WallsOf, Stroke
  <2>2. w \in WallsOf(G) <=> \E u \in DOMAIN G : w \in Stroke(G[u])  BY DEF WallsOf, Stroke
  <2>3. w \in Stroke(H[k]) <=> w \in Stroke(G[e]) \/ w \in Stroke(G[f])  BY <1>2, <1>5, <1>6
  <2>4. QED  BY <1>1, <2>1, <2>2, <2>3
<1>8. QED  BY <1>7

\* How a line that runs along two others starts, and how it ends.
LEMMA AlongEnds ==
  ASSUME NEW j, NEW P, NEW Q, IsLine(P), IsLine(Q), Along(j, P, Q)
  PROVE  /\ IsLine(j) /\ j[1] = P[1] /\ j[2] = P[2]
         /\ Reverse(j)[1] = Reverse(Q)[1] /\ Reverse(j)[2] = Reverse(Q)[2]
         /\ Reverse(Reverse(j)) = j
<1>1. /\ IsLine(j) /\ Len(j) = Len(P) + Len(Q) - 1 /\ Last(j) = Last(Q)
      /\ \A i \in 1 .. Len(P) : j[i] = P[i]
      /\ \A i \in 1 .. Len(Q) : j[Len(P) + i - 1] = Q[i]
  BY DEF Along, Joins
<1>2. Len(P) \in Nat /\ Len(P) > 1 /\ Len(Q) \in Nat /\ Len(Q) > 1  BY LineFacts
<1>3. 1 \in 1 .. Len(P) /\ 2 \in 1 .. Len(P) /\ Len(Q) - 1 \in 1 .. Len(Q)
      /\ Len(P) + (Len(Q) - 1) - 1 = (Len(P) + Len(Q) - 1) - 1
  BY <1>2
<1>4. j[Len(j) - 1] = Q[Len(Q) - 1]
  <2>1. j[Len(P) + (Len(Q) - 1) - 1] = Q[Len(Q) - 1]  BY <1>1, <1>3
  <2>2. Len(j) - 1 = Len(P) + (Len(Q) - 1) - 1  BY <1>1, <1>3
  <2>3. QED  BY <2>1, <2>2
<1>5. /\ Reverse(j)[1] = Last(j) /\ Reverse(j)[2] = j[Len(j) - 1] /\ Reverse(Reverse(j)) = j
  BY <1>1, ReverseLine
<1>6. Reverse(Q)[1] = Last(Q) /\ Reverse(Q)[2] = Q[Len(Q) - 1]  BY ReverseLine
<1>7. QED  BY <1>1, <1>3, <1>4, <1>5, <1>6

\* ... and keep the map, ...
LEMMA HealOpsFaces ==
  ASSUME TopoInv, Planar, TopoInv', Planar', HealOps, NEW col, NowMap(col)
  PROVE  NowMap(col)'
<1>2. PICK e1, e2, x, y, k, P, Q, j, n : HealCall(e1, e2, x, y, k, P, Q, j, n)  BY HealCalls
<1>3. Net(at, geom, org, next) /\ Net(at', geom', org', next') /\ Darts = DOMAIN next
  BY NetHolds, NetHoldsNext DEF Darts
<1>4. FaceMap(at, inface, geom, DOMAIN next, side, face, col)  BY <1>3 DEF NowMap
<1> DEFINE a2 == at'
           in2 == inface'
           H == geom'
           o2 == org'
           nx2 == next'
           s2 == side'
<1>5. /\ EndAt(n, e1, e2, x, y) /\ P = Path(geom, x) /\ Q = Path(geom, -y) /\ k \in Int /\ k > 0
      /\ HealedLines(geom, e1, e2, P, Q, j, k, H) /\ H[k] = (IF x > 0 THEN j ELSE Reverse(j))
      /\ DOMAIN a2 = DOMAIN at \ {n} /\ \A m \in DOMAIN a2 : a2[m] = at[m] /\ in2[m] = inface[m]
      /\ s2 = L!With([d \in Darts \ {x, -x, y, -y} |-> side[d]], k, side[e1], side[-e1])
      /\ face' = face /\ Net(a2, H, o2, nx2)
  BY <1>2, <1>3 DEF HealCall
<1> HIDE <1>2
<1> HIDE DEF a2, in2, H, o2, nx2, s2
<1>6. /\ e1 # e2 /\ x \in Darts /\ -x \in Darts /\ y \in Darts /\ -y \in Darts
      /\ -(-x) = x /\ -(-y) = y /\ EdgeOf(x) = e1 /\ {x, -x} = {e1, -e1} /\ {y, -y} = {e2, -e2}
  BY <1>5 DEF EndAt
<1>7. /\ e1 \in Edges /\ e2 \in Edges /\ Along(j, P, Q)
      /\ DOMAIN H = (Edges \ {e1, e2}) \cup {k} /\ k \notin Edges \ {e1, e2}
      /\ \A u \in Edges \ {e1, e2} : H[u] = geom[u]
  BY <1>5 DEF HealedLines, Edges
<1>8. WallsOf(H) = WallsOf(geom)  BY <1>5, HealWalls
<1>9. IsLine(P) /\ IsLine(Q) /\ Reverse(Q) = Path(geom, y)
  <2>1. \A d \in Darts : IsLine(Path(geom, d)) /\ Path(geom, -d) = Reverse(Path(geom, d))
    BY <1>3, NetFacts
  <2>2. QED  BY <1>5, <1>6, <2>1
<1>10. /\ IsLine(j) /\ j[1] = P[1] /\ j[2] = P[2]
       /\ Reverse(j)[1] = Reverse(Q)[1] /\ Reverse(j)[2] = Reverse(Q)[2]
       /\ Reverse(Reverse(j)) = j
  BY <1>7, <1>9, AlongEnds
<1>11. \A d \in Darts : side[d] = col[LeftOf(geom, d)]  BY MapFacts
<1>12. side[-x] = col[LeftOf(geom, y)]
  <2>1. next[y] = -x  BY <1>5, NextOfTwo
  <2>2. Smooth(WallsOf(geom), col)  BY MapFacts
  <2>3. col[LeftOf(geom, next[y])] = col[LeftOf(geom, y)]  BY <1>3, <1>6, <2>2, NextSide
  <2>4. QED  BY <1>6, <1>11, <2>1, <2>3
<1>13. \A d \in DOMAIN nx2 : /\ d \in Int /\ d # 0 /\ EdgeOf(d) \in DOMAIN H
                             /\ d = EdgeOf(d) \/ d = -EdgeOf(d)
  <2>1. \A d \in DOMAIN nx2 : d \in Int /\ d # 0 /\ EdgeOf(d) \in DOMAIN H  BY <1>5, NetFacts
  <2>2. QED  BY <2>1 DEF EdgeOf
<1>14. \A u \in Edges : u \in Int /\ u > 0 /\ u \in Darts /\ -u \in Darts  BY InvFacts
<1>15. ASSUME NEW d \in DOMAIN nx2
       PROVE  \E c \in DOMAIN next : s2[d] = col[LeftOf(geom, c)] /\ FirstOf(H, d) \in Steps(Path(geom, c))
  <2>1. CASE EdgeOf(d) \in Edges \ {e1, e2}
    <3>1. PICK u \in Edges \ {e1, e2} : u = EdgeOf(d) /\ (d = u \/ d = -u)  BY <1>13, <2>1
    <3>2. u # k  BY <1>7
    <3>3. u \in Int /\ u > 0 /\ e1 \in Int /\ e1 > 0 /\ e2 \in Int /\ e2 > 0  BY <1>7, <1>14
    <3>4. d \notin {e1, -e1, e2, -e2} /\ d \notin {k, -k}
      BY <1>5, <3>1, <3>2, <3>3
    <3>5. d \in Darts \ {x, -x, y, -y}  BY <1>6, <1>14, <3>1, <3>4
    <3>6. s2[d] = side[d]  BY <1>5, <3>4, <3>5 DEF L!With
    <3>7. Path(H, d) = Path(geom, d)  BY <1>7, <3>1, SamePath
    <3>8. FirstOf(H, d) \in Steps(Path(geom, d))
      <4>1. IsLine(Path(H, d))  BY <1>5, NetFacts
      <4>2. QED  BY <3>7, <4>1, FirstIn
    <3>9. QED  BY <1>3, <1>11, <3>5, <3>6, <3>8
  <2>2. CASE EdgeOf(d) = k
    <3>1. d = k \/ d = -k  BY <1>13, <2>2
    <3>2. x \in Int /\ x # 0 /\ e1 \in Int /\ e1 > 0  BY <1>6, <1>7, <1>14, InvFacts
    <3>3. k # -k /\ -k < 0 /\ ~(-k > 0) /\ -(-k) = k  BY <1>5
    <3>4. s2[k] = side[e1] /\ s2[-k] = side[-e1]  BY <1>5, <3>3 DEF L!With
    <3>5. (x > 0 => x = e1) /\ (~(x > 0) => x = -e1)  BY <1>6, <3>2 DEF EdgeOf
    <3>6. Path(H, k) = H[k] /\ Path(H, -k) = Reverse(H[k])  BY <1>5, <3>3 DEF Path
    <3> DEFINE kd == IF x > 0 THEN k ELSE -k
    <3>7. /\ Path(H, kd) = j /\ Path(H, -kd) = Reverse(j) /\ s2[kd] = side[x] /\ s2[-kd] = side[-x]
          /\ d = kd \/ d = -kd
      <4>1. CASE x > 0  BY <1>5, <3>1, <3>4, <3>5, <3>6, <4>1
      <4>2. CASE ~(x > 0)
        <5>1. kd = -k /\ -kd = k  BY <3>3, <4>2
        <5>2. Path(H, -k) = j /\ Path(H, k) = Reverse(j)  BY <1>5, <1>10, <3>6, <4>2
        <5>3. x = -e1 /\ -x = e1  BY <3>2, <3>5, <4>2
        <5>4. QED  BY <3>1, <3>4, <5>1, <5>2, <5>3
      <4>3. QED  BY <4>1, <4>2
    <3>8. \A c \in Darts : FirstOf(geom, c) \in Steps(Path(geom, c))
      <4>1. \A c \in Darts : IsLine(Path(geom, c))  BY <1>3, NetFacts
      <4>2. QED  BY <4>1, FirstIn
    <3>9. CASE d = kd
      <4>1. FirstOf(H, d) = FirstOf(geom, x)  BY <1>5, <1>10, <3>7, <3>9 DEF FirstOf
      <4>2. QED  BY <1>3, <1>6, <1>11, <3>7, <3>8, <3>9, <4>1
    <3>10. CASE d = -kd
      <4>1. FirstOf(H, d) = FirstOf(geom, y)  BY <1>9, <1>10, <3>7, <3>10 DEF FirstOf
      <4>2. QED  BY <1>3, <1>6, <1>12, <3>7, <3>8, <3>10, <4>1
    <3>11. QED  BY <3>7, <3>9, <3>10
  <2>3. QED  BY <1>7, <1>13, <2>1, <2>2
<1>16. \A m \in DOMAIN a2 : in2[m] # None => m \in DOMAIN at /\ a2[m] = at[m] /\ in2[m] = inface[m]
  BY <1>5
<1>17. FaceMap(a2, in2, H, DOMAIN nx2, s2, face, col)
  BY <1>3, <1>4, <1>8, <1>15, <1>16, MapRedrawn
<1>18. QED  BY <1>5, <1>17 DEF NowMap, a2, in2, H, nx2, s2, Darts

-----------------------------------------------------------------------------
(* Nodes that come and go, and edges that go. *)

\* At a node that no dart leaves there is no wall.
LEMMA NodeFree ==
  ASSUME NEW a, NEW G, NEW o, NEW nx, Net(a, G, o, nx), NEW n \in DOMAIN a, \A d \in DOMAIN nx : o[d] # n
  PROVE  \A w \in WallsOf(G) : a[n] \notin w
<1>1. SUFFICES ASSUME NEW w \in WallsOf(G), a[n] \in w  PROVE FALSE  OBVIOUS
<1>2. PICK e \in DOMAIN G : \E i \in Places(G[e]) : w = StepAt(G[e], i)  BY WallIs
<1>3. PICK i \in Places(G[e]) : w = StepAt(G[e], i)  BY <1>2
<1>4. PICK g : g = G[e]  OBVIOUS
<1>5. IsLine(g) /\ Len(g) \in Nat  BY <1>4, NetFacts, LineFacts
<1>6. i \in 1 .. Len(g) /\ i + 1 \in 1 .. Len(g) /\ i \in 1 .. Len(g) - 1
  BY <1>4, <1>5 DEF Places
<1>7. g[i] \in Vertices /\ g[i + 1] \in Vertices /\ Adjacent(g[i], g[i + 1])
  BY <1>5, <1>6, LineFacts DEF IsLine
<1>8. Adjacent(g[i + 1], g[i])  BY <1>7, AdjacentSymmetric
<1>9. w = {g[i], g[i + 1]}  BY <1>3, <1>4 DEF StepAt
<1>10. PICK v, u : v \in Vertices /\ u \in Vertices /\ Adjacent(v, u) /\ w = {v, u} /\ v = a[n]
  BY <1>1, <1>7, <1>8, <1>9
<1>11. PICK j : j = azimuth_pt_pt(v, u)  OBVIOUS
<1>12. j \in Ways /\ <<v, u>> = Ray(v, j)  BY <1>10, <1>11, StepRay
<1>13. RayWall(a[n], j) = w  BY <1>10, <1>12 DEF RayWall
<1>14. \E d \in DOMAIN nx : o[d] = n /\ Turning(G, DOMAIN nx)[d] = j
  BY <1>12, <1>13, NodeWalls
<1>15. QED  BY <1>14

\* ... and so does to take nodes away ...
LEMMA FewerNodes ==
  ASSUME NEW a, NEW in, NEW G, NEW D, NEW s, NEW F, NEW col, FaceMap(a, in, G, D, s, F, col),
         NEW a2, NEW in2,
         \A n \in DOMAIN a2 : in2[n] # None => n \in DOMAIN a /\ a2[n] = a[n] /\ in2[n] = in[n]
  PROVE  FaceMap(a2, in2, G, D, s, F, col)
<1>1. \A n \in DOMAIN a : in[n] # None => in[n] = col[CellAt(a[n][1], a[n][2])]  BY DEF FaceMap
<1>2. \A n \in DOMAIN a2 : in2[n] # None => in2[n] = col[CellAt(a2[n][1], a2[n][2])]  BY <1>1
<1>3. QED  BY <1>2 DEF FaceMap

\* Removal of an isolated node.
LEMMA RemoveNodeFaces ==
  ASSUME TopoInv, NEW n, RemoveIsoNode(n), NEW col, NowMap(col)
  PROVE  NowMap(col)'
<1>1. FaceMap(at, inface, geom, Darts, side, face, col)  BY DEF NowMap
<1> DEFINE a2 == at'
           in2 == inface'
<1>2. /\ a2 = [m \in DOMAIN at \ {n} |-> at[m]] /\ in2 = [m \in DOMAIN at \ {n} |-> inface[m]]
      /\ geom' = geom /\ Darts' = Darts /\ side' = side /\ face' = face
  BY DEF RemoveIsoNode, Darts
<1> HIDE DEF a2, in2
<1>3. \A m \in DOMAIN a2 : in2[m] # None => m \in DOMAIN at /\ a2[m] = at[m] /\ in2[m] = inface[m]
  BY <1>2
<1>4. FaceMap(a2, in2, geom, Darts, side, face, col)  BY <1>1, <1>3, FewerNodes
<1>5. QED  BY <1>2, <1>4 DEF NowMap, a2, in2

\* Calls on TopoGeometries touch no face.
LEMMA RelationOpsFaces ==
  ASSUME RelationOps \/ UNCHANGED vars, NEW col, NowMap(col)
  PROVE  NowMap(col)'
<1>1. UNCHANGED <<at, inface, geom, org, next, side, face>>
  BY DEF RelationOps, TopoGeom_addElement, TopoGeom_remElement, clearTopoGeom, vars
<1>2. Darts' = Darts  BY <1>1 DEF Darts
<1>3. QED  BY <1>1, <1>2 DEF NowMap

-----------------------------------------------------------------------------
\* Colours that change only at walls do so when there are more of them.
LEMMA MoreWalls ==
  ASSUME NEW walls, NEW more, \A w : w \in walls => w \in more, NEW k, Smooth(walls, k)
  PROVE  Smooth(more, k)
BY DEF Smooth

\* The box of two regions.
LEMMA Boxes ==
  ASSUME NEW P \in SUBSET Vertices, P # {}, NEW Q \in SUBSET Vertices, Q # {}
  PROVE  BoxOf(P \cup Q) = gbox_merge(BoxOf(P), BoxOf(Q))
<1>1. PICK R : R = P \cup Q  OBVIOUS
<1>2. R \in SUBSET Vertices /\ R # {}  BY <1>1
<1>3. PICK p : p = BoxOf(P)  OBVIOUS
<1>4. PICK q : q = BoxOf(Q)  OBVIOUS
<1>5. PICK r : r = BoxOf(R)  OBVIOUS
<1>6. \A v \in Vertices : v[1] \in Int /\ v[2] \in Int  BY VertexParts
<1>7. /\ p.xmin \in Nat /\ p.xmax \in Nat /\ p.ymin \in Nat /\ p.ymax \in Nat
      /\ \A v \in P : p.xmin <= v[1] /\ v[1] <= p.xmax /\ p.ymin <= v[2] /\ v[2] <= p.ymax
      /\ \E v \in P : p.xmin = v[1]
      /\ \E v \in P : p.xmax = v[1]
      /\ \E v \in P : p.ymin = v[2]
      /\ \E v \in P : p.ymax = v[2]
  BY <1>3, BoxHolds
<1>8. /\ q.xmin \in Nat /\ q.xmax \in Nat /\ q.ymin \in Nat /\ q.ymax \in Nat
      /\ \A v \in Q : q.xmin <= v[1] /\ v[1] <= q.xmax /\ q.ymin <= v[2] /\ v[2] <= q.ymax
      /\ \E v \in Q : q.xmin = v[1]
      /\ \E v \in Q : q.xmax = v[1]
      /\ \E v \in Q : q.ymin = v[2]
      /\ \E v \in Q : q.ymax = v[2]
  BY <1>4, BoxHolds
<1>9. /\ r = [xmin |-> r.xmin, xmax |-> r.xmax, ymin |-> r.ymin, ymax |-> r.ymax]
      /\ r.xmin \in Nat /\ r.xmax \in Nat /\ r.ymin \in Nat /\ r.ymax \in Nat
      /\ \A v \in R : r.xmin <= v[1] /\ v[1] <= r.xmax /\ r.ymin <= v[2] /\ v[2] <= r.ymax
      /\ \E v \in R : r.xmin = v[1]
      /\ \E v \in R : r.xmax = v[1]
      /\ \E v \in R : r.ymin = v[2]
      /\ \E v \in R : r.ymax = v[2]
  BY <1>2, <1>5, BoxHolds
<1>10. \A i, j \in Nat : /\ Min({i, j}) \in {i, j} /\ Min({i, j}) <= i /\ Min({i, j}) <= j
                         /\ Max({i, j}) \in {i, j} /\ Max({i, j}) >= i /\ Max({i, j}) >= j
  <2>1. SUFFICES ASSUME NEW i \in Nat, NEW j \in Nat
                 PROVE  /\ Min({i, j}) \in {i, j} /\ Min({i, j}) <= i /\ Min({i, j}) <= j
                        /\ Max({i, j}) \in {i, j} /\ Max({i, j}) >= i /\ Max({i, j}) >= j
    OBVIOUS
  <2>2. PICK S : S = {i, j}  OBVIOUS
  <2>3. i + j \in Nat /\ S \in SUBSET (0 .. i + j) /\ S # {} /\ S \in SUBSET Nat  BY <2>2
  <2>4. Min(S) \in S /\ \A x \in S : Min(S) <= x  BY <2>3, LeastOf
  <2>5. Max(S) \in S /\ \A x \in S : x <= Max(S)  BY <2>3, MostOf
  <2>6. i \in S /\ j \in S  BY <2>2
  <2>7. QED  BY <2>2, <2>4, <2>5, <2>6
<1>11. r.xmin = Min({p.xmin, q.xmin})
  <2>1. PICK v \in R : r.xmin = v[1]  BY <1>9
  <2>2. PICK v1 \in P : p.xmin = v1[1]  BY <1>7
  <2>3. PICK v2 \in Q : q.xmin = v2[1]  BY <1>8
  <2>4. r.xmin <= p.xmin /\ r.xmin <= q.xmin  BY <1>1, <1>9, <2>2, <2>3
  <2>5. p.xmin <= r.xmin \/ q.xmin <= r.xmin  BY <1>1, <1>7, <1>8, <2>1
  <2>6. PICK m : m = Min({p.xmin, q.xmin})  OBVIOUS
  <2>7. m \in {p.xmin, q.xmin} /\ m <= p.xmin /\ m <= q.xmin  BY <1>7, <1>8, <1>10, <2>6
  <2>8. QED  BY <1>7, <1>8, <1>9, <2>4, <2>5, <2>6, <2>7
<1>12. r.xmax = Max({p.xmax, q.xmax})
  <2>1. PICK v \in R : r.xmax = v[1]  BY <1>9
  <2>2. PICK v1 \in P : p.xmax = v1[1]  BY <1>7
  <2>3. PICK v2 \in Q : q.xmax = v2[1]  BY <1>8
  <2>4. r.xmax >= p.xmax /\ r.xmax >= q.xmax  BY <1>1, <1>7, <1>8, <1>9, <2>2, <2>3
  <2>5. p.xmax >= r.xmax \/ q.xmax >= r.xmax  BY <1>1, <1>7, <1>8, <1>9, <2>1
  <2>6. PICK m : m = Max({p.xmax, q.xmax})  OBVIOUS
  <2>7. m \in {p.xmax, q.xmax} /\ m >= p.xmax /\ m >= q.xmax  BY <1>7, <1>8, <1>10, <2>6
  <2>8. QED  BY <1>7, <1>8, <1>9, <2>4, <2>5, <2>6, <2>7
<1>13. r.ymin = Min({p.ymin, q.ymin})
  <2>1. PICK v \in R : r.ymin = v[2]  BY <1>9
  <2>2. PICK v1 \in P : p.ymin = v1[2]  BY <1>7
  <2>3. PICK v2 \in Q : q.ymin = v2[2]  BY <1>8
  <2>4. r.ymin <= p.ymin /\ r.ymin <= q.ymin  BY <1>1, <1>9, <2>2, <2>3
  <2>5. p.ymin <= r.ymin \/ q.ymin <= r.ymin  BY <1>1, <1>7, <1>8, <2>1
  <2>6. PICK m : m = Min({p.ymin, q.ymin})  OBVIOUS
  <2>7. m \in {p.ymin, q.ymin} /\ m <= p.ymin /\ m <= q.ymin  BY <1>7, <1>8, <1>10, <2>6
  <2>8. QED  BY <1>7, <1>8, <1>9, <2>4, <2>5, <2>6, <2>7
<1>14. r.ymax = Max({p.ymax, q.ymax})
  <2>1. PICK v \in R : r.ymax = v[2]  BY <1>9
  <2>2. PICK v1 \in P : p.ymax = v1[2]  BY <1>7
  <2>3. PICK v2 \in Q : q.ymax = v2[2]  BY <1>8
  <2>4. r.ymax >= p.ymax /\ r.ymax >= q.ymax  BY <1>1, <1>7, <1>8, <1>9, <2>2, <2>3
  <2>5. p.ymax >= r.ymax \/ q.ymax >= r.ymax  BY <1>1, <1>7, <1>8, <1>9, <2>1
  <2>6. PICK m : m = Max({p.ymax, q.ymax})  OBVIOUS
  <2>7. m \in {p.ymax, q.ymax} /\ m >= p.ymax /\ m >= q.ymax  BY <1>7, <1>8, <1>10, <2>6
  <2>8. QED  BY <1>7, <1>8, <1>9, <2>4, <2>5, <2>6, <2>7
<1>15. r = gbox_merge(p, q)  BY <1>9, <1>11, <1>12, <1>13, <1>14 DEF gbox_merge
<1>16. QED  BY <1>1, <1>3, <1>4, <1>5, <1>15

\* The lower left and upper right corners of cells.
Corners(C) == UNION {{<<c[1], c[2]>>, <<c[1] + 1, c[2] + 1>>} : c \in C}

\* The box of cells is that of their corners.
LEMMA CornersIn ==
  ASSUME NEW C \in SUBSET Cells, Outer \notin C
  PROVE  /\ Corners(C) \in SUBSET Vertices /\ (C # {} => Corners(C) # {})
         /\ RegionBox(C) = BoxOf(Corners(C))
<1>1. ASSUME NEW c \in C  PROVE <<c[1], c[2]>> \in Vertices /\ <<c[1] + 1, c[2] + 1>> \in Vertices
  <2>1. c \in (0 .. Width - 1) \X (0 .. Height - 1)  BY <1>1 DEF Cells
  <2>2. QED  BY <2>1, GridSize DEF Vertices
<1>2. \A c \in C : {<<c[1], c[2]>>, <<c[1] + 1, c[2] + 1>>} \in SUBSET Vertices  BY <1>1
<1>3. Corners(C) \in SUBSET Vertices  BY <1>2 DEF Corners
<1>4. \A c \in C : <<c[1], c[2]>> \in Corners(C)  BY DEF Corners
<1>5. C # {} => Corners(C) # {}  BY <1>4
<1>6. RegionBox(C) = BoxOf(Corners(C))  BY DEF Corners, RegionBox
<1>7. QED  BY <1>3, <1>5, <1>6

\* The box of two parts together is their boxes merged.
LEMMA RegionBoxes ==
  ASSUME NEW C \in SUBSET Cells, NEW D \in SUBSET Cells, Outer \notin C, Outer \notin D, C # {}, D # {}
  PROVE  RegionBox(C \cup D) = gbox_merge(RegionBox(C), RegionBox(D))
<1>1. PICK E : E = C \cup D  OBVIOUS
<1>2. Corners(E) = Corners(C) \cup Corners(D)  BY <1>1 DEF Corners
<1>3. E \in SUBSET Cells /\ Outer \notin E  BY <1>1
<1>4. /\ Corners(C) \in SUBSET Vertices /\ Corners(C) # {} /\ RegionBox(C) = BoxOf(Corners(C))
      /\ Corners(D) \in SUBSET Vertices /\ Corners(D) # {} /\ RegionBox(D) = BoxOf(Corners(D))
      /\ RegionBox(E) = BoxOf(Corners(E))
  BY <1>3, CornersIn
<1>5. BoxOf(Corners(C) \cup Corners(D)) = gbox_merge(BoxOf(Corners(C)), BoxOf(Corners(D)))
  BY <1>4, Boxes
<1>6. QED  BY <1>1, <1>2, <1>4, <1>5

\* Faces l and r become face fl, those of gone being no longer needed.
Flood(l, r, fl, gone, F, F2) ==
  /\ gone = {l, r} \ {fl} /\ (fl \in {l, r} \/ fl \notin DOMAIN F)
  /\ l = r => fl = l
  /\ Universe \in {l, r} => fl = Universe
  /\ DOMAIN F2 = (DOMAIN F \ gone) \cup {fl}
  /\ \A f \in DOMAIN F2 :
       F2[f] = IF f = fl /\ f # Universe /\ gone # {} THEN gbox_merge(F[l], F[r]) ELSE F[f]
\* Face fl takes over the faces gone.
Filled(fl, gone, f) == IF f \in gone THEN fl ELSE f
\* The map with them filled.
FilledMap(fl, gone, col) == [c \in Cells |-> Filled(fl, gone, col[c])]

\* The faces of the filled map are those that are left.
LEMMA FloodFaces ==
  ASSUME NEW l, NEW r, NEW fl, NEW gone, NEW F, NEW F2, Flood(l, r, fl, gone, F, F2),
         l \in DOMAIN F, r \in DOMAIN F, Universe \in DOMAIN F,
         NEW col \in [Cells -> DOMAIN F], \A f \in DOMAIN F : \E c \in Cells : col[c] = f,
         \A f \in DOMAIN F \ {Universe} : F[f] = RegionBox(Part(col, f)),
         col[Outer] = Universe, NEW col2, col2 = FilledMap(fl, gone, col)
  PROVE  /\ col2 \in [Cells -> DOMAIN F2] /\ \A f \in DOMAIN F2 : \E c \in Cells : col2[c] = f
         /\ \A f \in DOMAIN F2 \ {Universe} : F2[f] = RegionBox(Part(col2, f))
         /\ col2[Outer] = Universe
         /\ \A c, d \in Cells : col2[c] = col2[d] => col[c] = col[d] \/ {col[c], col[d]} \subseteq {l, r}
         /\ Filled(fl, gone, l) = fl /\ Filled(fl, gone, r) = fl
<1>1. /\ gone = {l, r} \ {fl} /\ (fl \in {l, r} \/ fl \notin DOMAIN F)
      /\ (l = r => fl = l)
      /\ (Universe \in {l, r} => fl = Universe)
      /\ DOMAIN F2 = (DOMAIN F \ gone) \cup {fl}
      /\ \A f \in DOMAIN F2 :
           F2[f] = IF f = fl /\ f # Universe /\ gone # {} THEN gbox_merge(F[l], F[r]) ELSE F[f]
  BY DEF Flood
<1>2. \A c \in Cells : col2[c] = IF col[c] \in gone THEN fl ELSE col[c]  BY DEF FilledMap, Filled
<1>3. DOMAIN col2 = Cells /\ col2 = [c \in Cells |-> col2[c]]  BY DEF FilledMap
<1>4. \A c \in Cells : col2[c] \in DOMAIN F2  BY <1>1, <1>2
<1>5. col2 \in [Cells -> DOMAIN F2]  BY <1>3, <1>4
<1>6. \E c \in Cells : col2[c] = fl
  <2>1. PICK c \in Cells : col[c] = l  OBVIOUS
  <2>2. col2[c] = fl  BY <1>1, <1>2, <2>1
  <2>3. QED  BY <2>2
<1>7. ASSUME NEW f \in DOMAIN F2  PROVE \E c \in Cells : col2[c] = f
  <2>1. CASE f = fl  BY <1>6, <2>1
  <2>2. CASE f # fl
    <3>1. f \in DOMAIN F /\ f \notin gone  BY <1>1, <2>2
    <3>2. PICK c \in Cells : col[c] = f  BY <3>1
    <3>3. col2[c] = f  BY <1>2, <3>1, <3>2
    <3>4. QED  BY <3>3
  <2>3. QED  BY <2>1, <2>2
<1>8. Outer \in Cells  BY DEF Cells
<1>9. col2[Outer] = Universe  BY <1>1, <1>2, <1>8
<1>10. ASSUME NEW c \in Cells, NEW d \in Cells, col2[c] = col2[d], col[c] # col[d]
       PROVE  {col[c], col[d]} \subseteq {l, r}
  <2>1. col[c] \in DOMAIN F /\ col[d] \in DOMAIN F  OBVIOUS
  <2>2. QED  BY <1>1, <1>2, <1>10, <2>1
<1>11. ASSUME NEW f \in DOMAIN F2 \ {Universe}  PROVE F2[f] = RegionBox(Part(col2, f))
  <2>1. CASE f # fl
    <3>1. f \in DOMAIN F /\ f \notin gone  BY <1>1, <2>1
    <3>2. \A c \in Cells : col2[c] = f <=> col[c] = f  BY <1>2, <2>1, <3>1
    <3>3. Part(col2, f) = Part(col, f)  BY <3>2 DEF Part
    <3>4. F2[f] = F[f]  BY <1>1, <1>11, <2>1
    <3>5. QED  BY <1>11, <3>1, <3>3, <3>4
  <2>2. CASE f = fl /\ gone = {}
    <3>1. \A c \in Cells : col2[c] = col[c]  BY <1>2, <2>2
    <3>2. Part(col2, f) = Part(col, f)  BY <3>1 DEF Part
    <3>3. F2[f] = F[f]  BY <1>1, <1>11, <2>2
    <3>4. f \in DOMAIN F  BY <1>1, <2>2
    <3>5. QED  BY <1>11, <3>2, <3>3, <3>4
  <2>3. CASE f = fl /\ gone # {}
    <3>1. l # r /\ l # Universe /\ r # Universe  BY <1>1, <1>11, <2>3
    <3>2. \A c \in Cells : col2[c] = f <=> col[c] \in {l, r}
      <4>1. \A c \in Cells : col[c] \in DOMAIN F  OBVIOUS
      <4>2. QED  BY <1>1, <1>2, <2>3, <4>1
    <3>3. Part(col2, f) = Part(col, l) \cup Part(col, r)  BY <3>2 DEF Part
    <3>4. /\ Part(col, l) \in SUBSET Cells /\ Outer \notin Part(col, l) /\ Part(col, l) # {}
          /\ Part(col, r) \in SUBSET Cells /\ Outer \notin Part(col, r) /\ Part(col, r) # {}
      BY <3>1 DEF Part
    <3>5. RegionBox(Part(col, l) \cup Part(col, r)) = gbox_merge(RegionBox(Part(col, l)), RegionBox(Part(col, r)))
      BY <3>4, RegionBoxes
    <3>6. F[l] = RegionBox(Part(col, l)) /\ F[r] = RegionBox(Part(col, r))  BY <3>1
    <3>7. F2[f] = gbox_merge(F[l], F[r])  BY <1>1, <1>11, <2>3
    <3>8. QED  BY <3>3, <3>5, <3>6, <3>7
  <2>4. QED  BY <2>1, <2>2, <2>3
<1>12. Filled(fl, gone, l) = fl /\ Filled(fl, gone, r) = fl  BY <1>1 DEF Filled
<1>13. QED  BY <1>5, <1>7, <1>9, <1>10, <1>11, <1>12

\* The faces around nodes when edge e goes.
NodesFlooded(a, in, o, e, o2, nx2, fl, gone, in2) ==
  \A n \in DOMAIN a : in2[n] # None =>
    \/ in[n] # None /\ in2[n] = Filled(fl, gone, in[n])
    \/ in2[n] = fl /\ n \in {o[e], o[-e]} /\ \A d \in DOMAIN nx2 : o2[d] # n

\* Edge e goes, and the faces on its sides become one.
LEMMA LineGone ==
  ASSUME NEW a, NEW in, NEW G, NEW o, NEW nx, Net(a, G, o, nx), NEW s, NEW F, NEW col,
         FaceMap(a, in, G, DOMAIN nx, s, F, col), Universe \in DOMAIN F,
         NEW e \in DOMAIN G, NEW H, LessLine(H, G, e),
         NEW o2, NEW nx2, Net(a, H, o2, nx2), DOMAIN nx2 = DOMAIN nx \ {e, -e},
         NEW l, l = s[e], NEW r, r = s[-e],
         NEW fl, NEW gone, NEW F2, Flood(l, r, fl, gone, F, F2),
         NEW s2, \A d \in DOMAIN nx2 : s2[d] = Filled(fl, gone, s[d]),
         NEW in2, NodesFlooded(a, in, o, e, o2, nx2, fl, gone, in2)
  PROVE  FaceMap(a, in2, H, DOMAIN nx2, s2, F2, FilledMap(fl, gone, col))
<1>1. /\ col \in [Cells -> DOMAIN F] /\ \A f \in DOMAIN F : \E c \in Cells : col[c] = f
      /\ Smooth(WallsOf(G), col) /\ Finest(WallsOf(G), col)
      /\ col[Outer] = Universe
      /\ \A d \in DOMAIN nx : s[d] = col[LeftOf(G, d)]
      /\ \A n \in DOMAIN a : in[n] # None => in[n] = col[CellAt(a[n][1], a[n][2])]
      /\ \A f \in DOMAIN F \ {Universe} : F[f] = RegionBox(Part(col, f))
  BY DEF FaceMap
<1>2. /\ e \in DOMAIN nx /\ -e \in DOMAIN nx /\ Path(G, e) = G[e] /\ -(-e) = e
      /\ LeftOf(G, e) \in Cells /\ LeftOf(G, -e) \in Cells
  <2>1. e \in DOMAIN nx /\ Path(G, e) = G[e]  BY NetFacts
  <2>2. -e \in DOMAIN nx /\ -(-e) = e  BY <2>1, NetFacts
  <2>3. QED  BY <2>1, <2>2, LeftIsCell
<1>3. l = col[LeftOf(G, e)] /\ r = col[LeftOf(G, -e)] /\ l \in DOMAIN F /\ r \in DOMAIN F
  BY <1>1, <1>2
<1>4. PICK col2 : col2 = FilledMap(fl, gone, col)  OBVIOUS
<1>5. /\ col2 \in [Cells -> DOMAIN F2] /\ \A f \in DOMAIN F2 : \E c \in Cells : col2[c] = f
      /\ \A f \in DOMAIN F2 \ {Universe} : F2[f] = RegionBox(Part(col2, f))
      /\ col2[Outer] = Universe
      /\ \A c, d \in Cells : col2[c] = col2[d] => col[c] = col[d] \/ {col[c], col[d]} \subseteq {l, r}
      /\ Filled(fl, gone, l) = fl /\ Filled(fl, gone, r) = fl
  BY <1>1, <1>3, <1>4, FloodFaces
<1>6. \A c \in Cells : col2[c] = Filled(fl, gone, col[c])  BY <1>4 DEF FilledMap
<1> DEFINE W == WallsOf(G)
           X == WallsOf(H)
<1>7. DOMAIN H = DOMAIN G \ {e} /\ \A x \in DOMAIN G \ {e} : H[x] = G[x]  BY DEF LessLine
<1>8. \A w : w \in W <=> w \in X \/ w \in Stroke(G[e])
  <2>1. ASSUME NEW w  PROVE w \in W <=> w \in X \/ w \in Stroke(G[e])
    <3>1. w \in X <=> \E u \in DOMAIN H : w \in Stroke(H[u])  BY DEF WallsOf, Stroke
    <3>2. w \in W <=> \E u \in DOMAIN G : w \in Stroke(G[u])  BY DEF WallsOf, Stroke
    <3>3. QED  BY <1>7, <3>1, <3>2
  <2>2. QED  BY <2>1

\* The steps of the edge have l and r on their sides.
<1>9. \A t \in Steps(G[e]) : /\ t \in UnitSteps /\ LeftCell(t) \in Cells /\ RightCell(t) \in Cells
                             /\ col[LeftCell(t)] = l /\ col[RightCell(t)] = r
  <2>1. ASSUME NEW t \in Steps(G[e])
        PROVE  /\ t \in UnitSteps /\ LeftCell(t) \in Cells /\ RightCell(t) \in Cells
               /\ col[LeftCell(t)] = l /\ col[RightCell(t)] = r
    <3>1. t \in Steps(Path(G, e))  BY <1>2, <2>1
    <3>2. t \in UnitSteps /\ LeftCell(t) \in Cells /\ RightCell(t) \in Cells  BY <1>2, <3>1, LeftIsCell
    <3>3. col[LeftCell(t)] = col[LeftOf(G, e)] /\ col[RightCell(t)] = col[LeftOf(G, -e)]
      BY <1>1, <1>2, <3>1, Sides
    <3>4. QED  BY <1>3, <3>2, <3>3
  <2>2. QED  BY <2>1
<1>10. Smooth(X, col2)
  <2>1. SUFFICES ASSUME NEW t \in UnitSteps, {t[1], t[2]} \notin X
                 PROVE  col2[LeftCell(t)] = col2[RightCell(t)]
    BY SmoothIntro
  <2>2. LeftCell(t) \in Cells /\ RightCell(t) \in Cells  BY StepCells
  <2>3. CASE {t[1], t[2]} \notin W
    <3>1. col[LeftCell(t)] = col[RightCell(t)]  BY <1>1, <2>3, SmoothAcross
    <3>2. QED  BY <1>6, <2>2, <3>1
  <2>4. CASE {t[1], t[2]} \in W
    <3>1. {t[1], t[2]} \in Undirected(Steps(G[e]))  BY <1>8, <2>1, <2>4 DEF Stroke
    <3>2. PICK q \in Steps(G[e]) : {t[1], t[2]} = {q[1], q[2]}  BY <3>1 DEF Undirected
    <3>3. q \in UnitSteps /\ col[LeftCell(q)] = l /\ col[RightCell(q)] = r  BY <1>9
    <3>4. t = q \/ t = Back(q)
      <4>1. t = <<t[1], t[2]>> /\ q = <<q[1], q[2]>>  BY <3>3, UnitPoints
      <4>2. (t[1] = q[1] /\ t[2] = q[2]) \/ (t[1] = q[2] /\ t[2] = q[1])  BY <3>2
      <4>3. QED  BY <4>1, <4>2 DEF Back
    <3>5. LeftCell(Back(q)) = RightCell(q) /\ RightCell(Back(q)) = LeftCell(q)  BY <3>3, StepCells
    <3>6. col[LeftCell(t)] \in {l, r} /\ col[RightCell(t)] \in {l, r}  BY <3>3, <3>4, <3>5
    <3>7. col2[LeftCell(t)] = fl /\ col2[RightCell(t)] = fl  BY <1>5, <1>6, <2>2, <3>6
    <3>8. QED  BY <3>7
  <2>5. QED  BY <2>3, <2>4

\* The first step of the edge is no wall any more.
<1>11. PICK t \in Steps(G[e]) : t = <<G[e][1], G[e][2]>>
  <2>1. <<Path(G, e)[1], Path(G, e)[2]>> \in Steps(Path(G, e))  BY <1>2, LeftIsCell
  <2>2. QED  BY <1>2, <2>1
<1>12. {t[1], t[2]} \notin X
  <2>1. SUFFICES ASSUME {t[1], t[2]} \in X  PROVE FALSE  OBVIOUS
  <2>2. PICK f \in DOMAIN H : \E j \in Places(H[f]) : {t[1], t[2]} = StepAt(H[f], j)  BY <2>1, WallIs
  <2>3. PICK j \in Places(H[f]) : {t[1], t[2]} = StepAt(H[f], j)  BY <2>2
  <2>4. f \in DOMAIN G /\ f # e /\ H[f] = G[f]  BY <1>7
  <2>5. 1 \in Places(G[e]) /\ {t[1], t[2]} = StepAt(G[e], 1)
    <3>1. IsLine(G[e])  BY NetFacts
    <3>2. Len(G[e]) \in Nat /\ Len(G[e]) > 1  BY <3>1, LineFacts
    <3>3. QED  BY <1>11, <3>2 DEF Places, StepAt
  <2>6. OnceIn(G, DOMAIN G)  BY DEF Net, TakenOnce
  <2>7. QED  BY <2>3, <2>4, <2>5, <2>6 DEF OnceIn
<1>13. Finest(X, col2)
  <2>1. SUFFICES ASSUME NEW k, Smooth(X, k), NEW c \in Cells, NEW d \in Cells, col2[c] = col2[d]
                 PROVE  k[c] = k[d]
    BY DEF Finest
  <2>2. Smooth(W, k)  BY <1>8, <2>1, MoreWalls
  <2>3. k[LeftCell(t)] = k[RightCell(t)]  BY <1>9, <1>12, <2>1, SmoothAcross
  <2>4. \A x, y \in Cells : col[x] = col[y] => k[x] = k[y]  BY <1>1, <2>2 DEF Finest
  <2>5. \A x \in Cells : col[x] \in {l, r} => k[x] = k[LeftCell(t)]  BY <1>9, <2>3, <2>4
  <2>6. QED  BY <1>5, <2>1, <2>4, <2>5
<1>14. ASSUME NEW d \in DOMAIN nx2  PROVE s2[d] = col2[LeftOf(H, d)]
  <2>1. EdgeOf(d) \in DOMAIN H  BY NetFacts
  <2>2. Path(H, d) = Path(G, d)  BY <1>7, <2>1, SamePath
  <2>3. LeftOf(H, d) = LeftOf(G, d)  BY <2>2 DEF LeftOf
  <2>4. LeftOf(G, d) \in Cells /\ s[d] = col[LeftOf(G, d)]  BY <1>1, LeftIsCell
  <2>5. QED  BY <1>6, <2>3, <2>4
<1>15. ASSUME NEW n \in DOMAIN a, in2[n] # None  PROVE in2[n] = col2[CellAt(a[n][1], a[n][2])]
  <2>1. a[n] \in Vertices  BY NetFacts
  <2>2. CellAt(a[n][1], a[n][2]) \in Cells  BY <2>1, NodeCell
  <2>3. CASE in[n] # None /\ in2[n] = Filled(fl, gone, in[n])
    <3>1. in[n] = col[CellAt(a[n][1], a[n][2])]  BY <1>1, <2>3
    <3>2. QED  BY <1>6, <2>2, <2>3, <3>1
  <2>4. CASE in2[n] = fl /\ n \in {o[e], o[-e]} /\ \A d \in DOMAIN nx2 : o2[d] # n
    <3>1. \A w \in X : a[n] \notin w  BY <2>4, NodeFree
    <3>2. PICK d \in {e, -e} : o[d] = n  BY <2>4
    <3>3. PICK p : p = Path(G, d)  OBVIOUS
    <3>4. IsLine(p) /\ p[1] = a[n] /\ d \in DOMAIN nx  BY <1>2, <3>2, <3>3, NetFacts
    <3>5. p[1] \in Vertices /\ p[2] \in Vertices /\ Adjacent(p[1], p[2])  BY <3>4, LineFacts
    <3>6. col2[LeftCell(<<a[n], p[2]>>)] = col2[CellAt(a[n][1], a[n][2])]
      <4>1. p[2] \in Vertices /\ Adjacent(a[n], p[2])  BY <3>4, <3>5
      <4>2. PICK v, u : v = a[n] /\ u = p[2]  OBVIOUS
      <4>3. PICK Y : Y = X  OBVIOUS
      <4>6. v \in Vertices /\ u \in Vertices /\ Adjacent(v, u)  BY <2>1, <4>1, <4>2
      <4>7. \A w \in Y : v \notin w  BY <3>1, <4>2, <4>3
      <4>8. Smooth(Y, col2)  BY <1>10, <4>3
      <4>4. /\ col2[LeftCell(<<u, v>>)] = col2[CellAt(v[1], v[2])]
            /\ col2[LeftCell(<<v, u>>)] = col2[CellAt(v[1], v[2])]
        BY <4>6, <4>7, <4>8, BesideFree
      <4>5. QED  BY <4>2, <4>4
    <3>7. LeftCell(<<a[n], p[2]>>) = LeftOf(G, d)  BY <3>3, <3>4 DEF LeftOf
    <3>8. col2[LeftOf(G, d)] = fl  BY <1>2, <1>3, <1>5, <1>6, <3>2
    <3>9. QED  BY <2>4, <3>6, <3>7, <3>8
  <2>5. QED  BY <1>15, <2>3, <2>4 DEF NodesFlooded
<1>16. FaceMap(a, in2, H, DOMAIN nx2, s2, F2, col2)
  BY <1>5, <1>10, <1>13, <1>14, <1>15 DEF FaceMap
<1>17. QED  BY <1>4, <1>16

\* TopoGeometries with faces l and r, which become fl.
RowsMerge(l, r, fl) ==
  /\ \A t \in TopoGeoms : <<t, FaceType, l>> \in relation <=> <<t, FaceType, r>> \in relation
  /\ relation' = IF l = r THEN relation ELSE updateTopoGeomFaceHeal(r, l, fl)

\* Edge e goes; fl takes the place of the faces gone.
RemCall(e, fl, gone) ==
  /\ e \in Edges /\ at' = at /\ LessLine(geom', geom, e)
  /\ DOMAIN next' = DOMAIN next \ {e, -e}
  /\ Flood(side[e], side[-e], fl, gone, face, face')
  /\ \A d \in DOMAIN next' : side'[d] = Filled(fl, gone, side[d])
  /\ \A n \in DOMAIN at : inface'[n] # None =>
       \/ inface[n] # None /\ inface'[n] = Filled(fl, gone, inface[n])
       \/ inface'[n] = fl /\ n \in {org[e], org[-e]} /\ \A d \in DOMAIN next' : org'[d] # n
  /\ RowsMerge(side[e], side[-e], fl)

\* Removal of an isolated edge floods nothing, ...
LEMMA RemIsoEdgeCall ==
  ASSUME TopoInv, NEW e \in Edges, RemIsoEdge(e), side[e] \in DOMAIN face
  PROVE  RemCall(e, side[e], {})
<1>1. /\ side[e] = side[-e]
      /\ L!Out(org[e]) \cup L!Out(org[-e]) = {e, -e}
      /\ geom' = [x \in Edges \ {e} |-> geom[x]] /\ org' = L!Without(org, e)
      /\ next' = L!Without(next, e) /\ side' = L!Without(side, e) /\ at' = at /\ face' = face
      /\ inface' = [n \in DOMAIN at |-> IF n \in {org[e], org[-e]} THEN side[e] ELSE inface[n]]
  BY DEF RemIsoEdge
<1>2. DOMAIN org = Darts /\ DOMAIN next = Darts /\ DOMAIN side = Darts  BY InvFacts DEF Darts
<1>3. LessLine(geom', geom, e)  BY <1>1 DEF LessLine, Edges
<1>4. DOMAIN next' = DOMAIN next \ {e, -e}  BY <1>1 DEF L!Without
<1>5. ASSUME NEW d \in DOMAIN next'
      PROVE  /\ side'[d] = side[d] /\ org'[d] = org[d] /\ org[d] \notin {org[e], org[-e]}
  <2>1. d \in Darts /\ d \notin {e, -e}  BY <1>2, <1>4, <1>5
  <2>2. side'[d] = side[d] /\ org'[d] = org[d]  BY <1>1, <1>2, <2>1 DEF L!Without
  <2>3. \A n : L!Out(n) = {x \in Darts : org[x] = n}  BY DEF L!Out, L!Darts, Darts
  <2>4. org[d] \notin {org[e], org[-e]}  BY <1>1, <2>1, <2>3
  <2>5. QED  BY <2>2, <2>4
<1>6. Flood(side[e], side[-e], side[e], {}, face, face')
  <2>1. side[e] \in DOMAIN face \/ side[e] \notin DOMAIN face  OBVIOUS
  <2>2. DOMAIN face' = DOMAIN face /\ \A f \in DOMAIN face : face'[f] = face[f]  BY <1>1
  <2>3. {} = {side[e], side[-e]} \ {side[e]}  BY <1>1
  <2>4. \A f \in DOMAIN face' :
          face'[f] = IF f = side[e] /\ f # Universe /\ {} # {} THEN gbox_merge(face[side[e]], face[side[-e]]) ELSE face[f]
    BY <2>2
  <2>5. DOMAIN face' = (DOMAIN face \ {}) \cup {side[e]}  BY <2>2
  <2>6. QED
    BY <1>1, <2>1, <2>3, <2>4, <2>5 DEF Flood
<1>7. \A f : Filled(side[e], {}, f) = f  BY DEF Filled
<1>8. ASSUME NEW n \in DOMAIN at, inface'[n] # None
      PROVE  \/ inface[n] # None /\ inface'[n] = Filled(side[e], {}, inface[n])
             \/ inface'[n] = side[e] /\ n \in {org[e], org[-e]} /\ \A d \in DOMAIN next' : org'[d] # n
  BY <1>1, <1>5, <1>7, <1>8
<1>9. RowsMerge(side[e], side[-e], side[e])  BY <1>1 DEF RemIsoEdge, RowsMerge
<1>10. QED  BY <1>1, <1>3, <1>4, <1>5, <1>6, <1>7, <1>8, <1>9 DEF RemCall

\* ... that of another edge floods what was on one side of it ...
LEMMA RemEdgeCall ==
  ASSUME TopoInv, NEW e \in Edges, NEW modFace \in BOOLEAN, RemEdge(e, modFace),
         side[e] \in DOMAIN face, side[-e] \in DOMAIN face
  PROVE  \E fl, gone : RemCall(e, fl, gone)
<1> DEFINE left  == side[e]
           right == side[-e]
           floodface == IF left = right THEN right
                        ELSE IF Universe \in {left, right} THEN Universe
                        ELSE IF modFace THEN right ELSE FreeFace(face)
           gone == {left, right} \ {floodface}
           alone(n) == n \in {org[e], org[-e]} /\ L!Out(n) \subseteq {e, -e}
<1>1. /\ geom' = [x \in Edges \ {e} |-> geom[x]] /\ org' = L!Without(org, e)
      /\ next' = L!RemLinks(org, next, e) /\ at' = at
      /\ side' = _lwt_UpdateEdgeFaceRef(L!Without(side, e), gone, floodface)
      /\ inface' = [n \in DOMAIN at |->
                      IF alone(n) THEN floodface
                      ELSE _lwt_UpdateNodeFaceRef(inface, gone, floodface)[n]]
      /\ face' = [f \in (DOMAIN face \ gone) \cup {floodface} |->
                    IF f = floodface /\ f # Universe /\ gone # {}
                    THEN gbox_merge(face[left], face[right]) ELSE face[f]]
  BY DEF RemEdge
<1>2. DOMAIN org = Darts /\ DOMAIN next = Darts /\ DOMAIN side = Darts /\ DOMAIN inface = DOMAIN at
  BY InvFacts DEF Darts
<1>3. left \in Nat /\ right \in Nat  BY InvFacts
<1>4. FreeFace(face) \notin DOMAIN face /\ FreeFace(face) \in Nat
  <2>1. MaxFace \in Nat  BY TopologyAssumption
  <2>2. MaxFace + 1 \in 1 .. MaxFace + 2 /\ MaxFace + 1 \notin 0 .. MaxFace  BY <2>1
  <2>3. Roomy(DOMAIN face)  BY <2>2 DEF Roomy, TopoInv
  <2>4. QED  BY <2>3, FreeFaceFree
<1> HIDE DEF left, right
<1>5. /\ floodface \in {left, right} \/ floodface \notin DOMAIN face
      /\ left = right => floodface = left
      /\ Universe \in {left, right} => floodface = Universe
  BY <1>4
<1>6. PICK fl, go : fl = floodface /\ go = gone  OBVIOUS
<1>7. None \notin go  BY <1>3, <1>6 DEF None
<1>8. /\ side' = _lwt_UpdateEdgeFaceRef(L!Without(side, e), go, fl)
      /\ inface' = [n \in DOMAIN at |-> IF alone(n) THEN fl ELSE _lwt_UpdateNodeFaceRef(inface, go, fl)[n]]
      /\ face' = [f \in (DOMAIN face \ go) \cup {fl} |->
                    IF f = fl /\ f # Universe /\ go # {} THEN gbox_merge(face[left], face[right]) ELSE face[f]]
  BY <1>1, <1>6
<1>9. Flood(left, right, fl, go, face, face')
  <2>1. go = {left, right} \ {fl}  BY <1>6
  <2>2. /\ (fl \in {left, right} \/ fl \notin DOMAIN face)
        /\ (left = right => fl = left)
        /\ (Universe \in {left, right} => fl = Universe)
    BY <1>5, <1>6
  <2>3. /\ DOMAIN face' = (DOMAIN face \ go) \cup {fl}
        /\ \A f \in DOMAIN face' :
             face'[f] = IF f = fl /\ f # Universe /\ go # {} THEN gbox_merge(face[left], face[right]) ELSE face[f]
    BY <1>8
  <2>4. QED  BY <2>1, <2>2, <2>3 DEF Flood
<1> HIDE DEF floodface, gone, alone
<1>10. LessLine(geom', geom, e)  BY <1>1 DEF LessLine, Edges
<1>11. DOMAIN next' = DOMAIN next \ {e, -e}  BY <1>1 DEF L!RemLinks
<1>12. ASSUME NEW d \in DOMAIN next'
       PROVE  side'[d] = Filled(fl, go, side[d]) /\ org'[d] = org[d] /\ d \in Darts /\ d \notin {e, -e}
  <2>1. d \in Darts /\ d \notin {e, -e}  BY <1>2, <1>11, <1>12
  <2>2. org'[d] = org[d]  BY <1>1, <1>2, <2>1 DEF L!Without
  <2> DEFINE w == L!Without(side, e)
  <2>3. d \in DOMAIN w /\ w[d] = side[d]  BY <1>2, <2>1 DEF L!Without
  <2> HIDE DEF w
  <2>4. side' = [x \in DOMAIN w |-> IF w[x] \in go THEN fl ELSE w[x]]
    BY <1>8 DEF _lwt_UpdateEdgeFaceRef, w
  <2>5. QED  BY <2>1, <2>2, <2>3, <2>4 DEF Filled
<1>13. ASSUME NEW n \in DOMAIN at, inface'[n] # None
       PROVE  \/ inface[n] # None /\ inface'[n] = Filled(fl, go, inface[n])
              \/ inface'[n] = fl /\ n \in {org[e], org[-e]} /\ \A d \in DOMAIN next' : org'[d] # n
  <2>1. inface'[n] = IF alone(n) THEN fl ELSE _lwt_UpdateNodeFaceRef(inface, go, fl)[n]
    BY <1>8
  <2>2. _lwt_UpdateNodeFaceRef(inface, go, fl)[n] = Filled(fl, go, inface[n])
    BY <1>2 DEF _lwt_UpdateNodeFaceRef, Filled
  <2>3. CASE alone(n)
    <3>1. n \in {org[e], org[-e]} /\ L!Out(n) \subseteq {e, -e}  BY <2>3 DEF alone
    <3>2. L!Out(n) = {x \in Darts : org[x] = n}  BY DEF L!Out, L!Darts, Darts
    <3>3. \A d \in DOMAIN next' : org'[d] # n  BY <1>12, <3>1, <3>2
    <3>4. QED  BY <2>1, <2>3, <3>1, <3>3
  <2>4. CASE ~alone(n)
    <3>1. inface'[n] = Filled(fl, go, inface[n])  BY <2>1, <2>2, <2>4
    <3>2. inface[n] # None
      <4>1. Filled(fl, go, None) = None  BY <1>7 DEF Filled
      <4>2. QED  BY <1>13, <3>1, <4>1
    <3>3. QED  BY <3>1, <3>2
  <2>5. QED  BY <2>3, <2>4
<1>14. RowsMerge(left, right, fl)
  <2>1. relation' = IF left = right THEN relation ELSE updateTopoGeomFaceHeal(right, left, fl)
    BY <1>6 DEF RemEdge, left, right, floodface
  <2>2. \A t \in TopoGeoms : <<t, FaceType, left>> \in relation <=> <<t, FaceType, right>> \in relation
    BY DEF RemEdge, checkTopoGeomRemEdge, left, right
  <2>3. QED  BY <2>1, <2>2 DEF RowsMerge
<1>15. RemCall(e, fl, go)
  BY <1>1, <1>9, <1>10, <1>11, <1>12, <1>13, <1>14 DEF RemCall, left, right
<1>16. QED  BY <1>15

\* ... and every removal leaves the map with those filled.
LEMMA RemOpsFaces ==
  ASSUME TopoInv, Planar, TopoInv', Planar', RemOps, NEW col, NowMap(col)
  PROVE  \E e \in Edges : \E fl, gone, col2 :
           RemCall(e, fl, gone) /\ col2 = FilledMap(fl, gone, col) /\ NowMap(col2)'
<1>2. Net(at, geom, org, next) /\ Net(at', geom', org', next') /\ Darts = DOMAIN next
  BY NetHolds, NetHoldsNext DEF Darts
<1>3. FaceMap(at, inface, geom, DOMAIN next, side, face, col)  BY <1>2 DEF NowMap
<1>4. /\ col \in [Cells -> DOMAIN face] /\ col[Outer] = Universe
      /\ \A d \in Darts : side[d] = col[LeftOf(geom, d)]
  BY MapFacts
<1>5. Universe \in DOMAIN face
  <2>1. Outer \in Cells  BY DEF Cells
  <2>2. QED  BY <1>4, <2>1
<1>6. \A d \in Darts : side[d] \in DOMAIN face
  <2>1. \A d \in Darts : LeftOf(geom, d) \in Cells  BY <1>2, LeftIsCell
  <2>2. QED  BY <1>4, <2>1
<1>7. PICK e \in Edges : RemIsoEdge(e) \/ \E modFace \in BOOLEAN : RemEdge(e, modFace)
  BY Zenon DEF RemOps
<1>8. e \in Darts /\ -e \in Darts  BY InvFacts
<1>9. \E fl, gone : RemCall(e, fl, gone)
  <2>1. CASE RemIsoEdge(e)
    <3>1. RemCall(e, side[e], {})  BY <1>6, <1>8, <2>1, RemIsoEdgeCall
    <3>2. QED  BY <3>1
  <2>2. ASSUME NEW modFace \in BOOLEAN, RemEdge(e, modFace)  PROVE \E fl, gone : RemCall(e, fl, gone)
    BY <1>6, <1>8, <2>2, RemEdgeCall
  <2>3. QED  BY <1>7, <2>1, <2>2
<1>10. PICK fl, gone : RemCall(e, fl, gone)  BY <1>9
<1> DEFINE in2 == inface'
           H == geom'
           o2 == org'
           nx2 == next'
           s2 == side'
           F2 == face'
<1>11. /\ e \in DOMAIN geom /\ at' = at /\ LessLine(H, geom, e)
       /\ DOMAIN nx2 = DOMAIN next \ {e, -e}
       /\ Flood(side[e], side[-e], fl, gone, face, F2)
       /\ \A d \in DOMAIN nx2 : s2[d] = Filled(fl, gone, side[d])
       /\ NodesFlooded(at, inface, org, e, o2, nx2, fl, gone, in2)
       /\ Net(at, H, o2, nx2)
  <2>1. at' = at  BY <1>10 DEF RemCall
  <2>2. Net(at, H, o2, nx2)  BY <1>2, <2>1
  <2>3. NodesFlooded(at, inface, org, e, o2, nx2, fl, gone, in2)  BY <1>10 DEF RemCall, NodesFlooded
  <2>4. QED  BY <1>10, <2>1, <2>2, <2>3 DEF RemCall, Edges
<1> HIDE DEF in2, H, o2, nx2, s2, F2
<1>12. PICK col2 : col2 = FilledMap(fl, gone, col)  OBVIOUS
<1>13. FaceMap(at, in2, H, DOMAIN nx2, s2, F2, col2)
  <2>1. PICK l, r : l = side[e] /\ r = side[-e]  OBVIOUS
  <2>2. Flood(l, r, fl, gone, face, F2)  BY <1>11, <2>1
  <2>3. FaceMap(at, in2, H, DOMAIN nx2, s2, F2, FilledMap(fl, gone, col))
    BY <1>2, <1>3, <1>5, <1>11, <2>1, <2>2, LineGone
  <2>4. QED  BY <1>12, <2>3
<1>14. NowMap(col2)'  BY <1>11, <1>13 DEF NowMap, in2, H, nx2, s2, F2, Darts
<1>15. QED  BY <1>10, <1>12, <1>14

-----------------------------------------------------------------------------
(* The face in which a new edge lies. *)

\* A line that takes no wall and meets none but at its ends.
FreeOf(walls, g) ==
  /\ IsLine(g)
  /\ \A s \in Steps(g) : {s[1], s[2]} \notin walls
  /\ \A w \in walls : \A p \in InteriorPoints(g) : p \notin w

\* It lies in one region.
LEMMA FreeStep ==
  ASSUME NEW walls, NEW g, FreeOf(walls, g), NEW k, Smooth(walls, k), NEW i \in 1 .. Len(g) - 1
  PROVE  /\ k[LeftCell(<<g[i], g[i + 1]>>)] = k[RightCell(<<g[i], g[i + 1]>>)]
         /\ <<g[i], g[i + 1]>> \in UnitSteps
<1>1. IsLine(g) /\ Len(g) \in Nat  BY LineFacts DEF FreeOf
<1>2. i \in 1 .. Len(g) /\ i + 1 \in 1 .. Len(g)  BY <1>1
<1>3. g[i] \in Vertices /\ g[i + 1] \in Vertices /\ Adjacent(g[i], g[i + 1])
  BY <1>1, <1>2, LineFacts DEF IsLine
<1>4. PICK s : s = <<g[i], g[i + 1]>>  OBVIOUS
<1>5. s \in UnitSteps  BY <1>3, <1>4, StepRay
<1>6. s \in Steps(g)  BY <1>4 DEF Steps
<1>7. {s[1], s[2]} \notin walls  BY <1>6 DEF FreeOf
<1>8. k[LeftCell(s)] = k[RightCell(s)]  BY <1>5, <1>7, SmoothAcross
<1>9. QED  BY <1>4, <1>5, <1>8

\* Along a line free of walls both sides have the colour of its start, vertex by
\* vertex ...
LEMMA FreeBend ==
  ASSUME NEW walls, NEW g, FreeOf(walls, g), NEW k, Smooth(walls, k), NEW i \in 2 .. Len(g) - 1
  PROVE  k[LeftCell(<<g[i - 1], g[i]>>)] = k[LeftCell(<<g[i], g[i + 1]>>)]
<1>1. IsLine(g) /\ Len(g) \in Nat  BY LineFacts DEF FreeOf
<1>2. i - 1 \in 1 .. Len(g) - 1 /\ i \in 1 .. Len(g) - 1 /\ i - 1 \in 1 .. Len(g)
      /\ i \in 1 .. Len(g) /\ i + 1 \in 1 .. Len(g) /\ i - 1 + 1 = i
  BY <1>1
<1>3. /\ g[i - 1] \in Vertices /\ g[i] \in Vertices /\ g[i + 1] \in Vertices
      /\ Adjacent(g[i - 1], g[i]) /\ Adjacent(g[i], g[i + 1])
  <2>1. \A j \in 1 .. Len(g) - 1 : Adjacent(g[j], g[j + 1])  BY <1>1 DEF IsLine
  <2>2. Adjacent(g[i - 1], g[i - 1 + 1])  BY <1>2, <2>1
  <2>3. QED  BY <1>1, <1>2, <2>1, <2>2, LineFacts
<1>4. PICK v, u, w : v = g[i] /\ u = g[i - 1] /\ w = g[i + 1]  OBVIOUS
<1>5. v \in InteriorPoints(g)  BY <1>4, InteriorIs
<1>6. \A x \in walls : v \notin x  BY <1>5 DEF FreeOf
<1>7. v \in Vertices /\ u \in Vertices /\ w \in Vertices /\ Adjacent(v, u) /\ Adjacent(v, w)
  BY <1>3, <1>4, AdjacentSymmetric
<1>8. /\ k[LeftCell(<<u, v>>)] = k[CellAt(v[1], v[2])]
      /\ k[LeftCell(<<v, u>>)] = k[CellAt(v[1], v[2])]
  BY <1>6, <1>7, BesideFree
<1>9. /\ k[LeftCell(<<w, v>>)] = k[CellAt(v[1], v[2])]
      /\ k[LeftCell(<<v, w>>)] = k[CellAt(v[1], v[2])]
  BY <1>6, <1>7, BesideFree
<1>10. QED  BY <1>4, <1>8, <1>9

\* ... and all along.
LEMMA FreeLine ==
  ASSUME NEW walls, NEW g, FreeOf(walls, g), NEW k, Smooth(walls, k), NEW i \in 1 .. Len(g) - 1
  PROVE  /\ k[LeftCell(<<g[i], g[i + 1]>>)] = k[LeftCell(<<g[1], g[2]>>)]
         /\ k[RightCell(<<g[i], g[i + 1]>>)] = k[LeftCell(<<g[1], g[2]>>)]
<1> DEFINE X == k[LeftCell(<<g[1], g[2]>>)]
           P == {m \in Nat : m \in 0 .. Len(g) - 2 => k[LeftCell(<<g[m + 1], g[m + 2]>>)] = X}
<1>1. Len(g) \in Nat /\ Len(g) > 1  BY LineFacts DEF FreeOf
<1>2. 0 \in P
  <2>1. 0 + 1 = 1 /\ 0 + 2 = 2  OBVIOUS
  <2>2. QED  BY <2>1
<1>3. ASSUME NEW m \in 0 .. Len(g) - 2, m > 0, m - 1 \in P  PROVE m \in P
  <2>1. m + 1 \in 2 .. Len(g) - 1 /\ m - 1 \in 0 .. Len(g) - 2 /\ m - 1 \in Nat /\ m \in Nat
        /\ m - 1 + 1 = m /\ m - 1 + 2 = m + 1 /\ m + 1 - 1 = m /\ m + 1 + 1 = m + 2
    BY <1>1, <1>3
  <2>2. k[LeftCell(<<g[m], g[m + 1]>>)] = X
    BY <1>3, <2>1
  <2>3. PICK c \in 2 .. Len(g) - 1 : c = m + 1  BY <2>1
  <2>4. k[LeftCell(<<g[c - 1], g[c]>>)] = k[LeftCell(<<g[c], g[c + 1]>>)]
    BY FreeBend
  <2>5. c - 1 = m /\ c + 1 = m + 2  BY <2>1, <2>3
  <2>6. k[LeftCell(<<g[m], g[m + 1]>>)] = k[LeftCell(<<g[m + 1], g[m + 2]>>)]
    BY <2>3, <2>4, <2>5
  <2>7. QED  BY <2>1, <2>2, <2>6
<1>4. Len(g) - 2 \in Nat  BY <1>1
<1> HIDE DEF P
<1>5. 0 .. Len(g) - 2 \subseteq P  BY <1>2, <1>3, <1>4, Downward
<1>6. i - 1 \in 0 .. Len(g) - 2 /\ i - 1 + 1 = i /\ i - 1 + 2 = i + 1  BY <1>1
<1>7. i - 1 \in P  BY <1>5, <1>6
<1>8. k[LeftCell(<<g[i], g[i + 1]>>)] = X  BY <1>6, <1>7 DEF P
<1>9. QED  BY <1>8, FreeStep

\* What is on both sides of it is what is on both sides of it turned around.
LEMMA FreeEnds ==
  ASSUME NEW walls, NEW g, FreeOf(walls, g), NEW k, Smooth(walls, k), NEW h \in {g, Reverse(g)}
  PROVE  /\ IsLine(h) /\ h[1] \in Vertices /\ h[2] \in Vertices /\ Adjacent(h[1], h[2])
         /\ k[LeftCell(<<h[1], h[2]>>)] = k[LeftCell(<<g[1], g[2]>>)]
         /\ k[RightCell(<<h[1], h[2]>>)] = k[LeftCell(<<g[1], g[2]>>)]
<1>1. IsLine(g) /\ Len(g) \in Nat /\ Len(g) > 1  BY LineFacts DEF FreeOf
<1>2. IsLine(h)  BY <1>1, ReverseLine
<1>3. h[1] \in Vertices /\ h[2] \in Vertices /\ Adjacent(h[1], h[2])  BY <1>2, LineFacts
<1>4. 1 \in 1 .. Len(g) - 1 /\ Len(g) - 1 \in 1 .. Len(g) - 1 /\ Len(g) - 1 + 1 = Len(g) /\ 1 + 1 = 2
  BY <1>1
<1>5. CASE h = g
  BY <1>2, <1>3, <1>4, <1>5, FreeLine
<1>6. CASE h = Reverse(g)
  <2>1. h[1] = g[Len(g)] /\ h[2] = g[Len(g) - 1]  BY <1>1, <1>6, ReverseLine, LineFacts
  <2>2. PICK i \in 1 .. Len(g) - 1 : i = Len(g) - 1  BY <1>4
  <2>3. i + 1 = Len(g)  BY <1>4, <2>2
  <2>4. PICK s : s = <<g[i], g[i + 1]>>  OBVIOUS
  <2>5. s \in UnitSteps  BY <2>4, FreeStep
  <2>6. Back(s) = <<h[1], h[2]>>  BY <2>1, <2>2, <2>3, <2>4 DEF Back
  <2>7. LeftCell(Back(s)) = RightCell(s) /\ RightCell(Back(s)) = LeftCell(s)  BY <2>5, StepCells
  <2>8. /\ k[LeftCell(s)] = k[LeftCell(<<g[1], g[2]>>)]
        /\ k[RightCell(s)] = k[LeftCell(<<g[1], g[2]>>)]
    BY <2>4, FreeLine
  <2>9. QED  BY <1>2, <1>3, <2>6, <2>7, <2>8
<1>7. QED  BY <1>5, <1>6

\* The line of a new edge is free of those of the others.
LEMMA LegalFree ==
  ASSUME TopoInv, NEW m, NEW n, NEW g \in Lines, LegalEdge(m, n, g), m \in DOMAIN at, n \in DOMAIN at
  PROVE  FreeOf(WallsOf(geom), g)
<1>1. /\ IsLine(g) /\ lwgeom_is_simple(g) /\ at[m] = g[1] /\ at[n] = Last(g)
      /\ \A f \in Edges : ~InteriorsMeet(geom[f], g)
  BY LegalFacts
<1>2. /\ \A k \in DOMAIN at : at[k] \notin InteriorPoints(g)
      /\ \A f \in Edges : InteriorPoints(geom[f]) \cap InteriorPoints(g) = {}
  BY LegalPlanar
<1>3. ASSUME NEW s \in Steps(g), {s[1], s[2]} \in WallsOf(geom)  PROVE FALSE
  <2>1. PICK f \in Edges : \E i \in Places(geom[f]) : {s[1], s[2]} = StepAt(geom[f], i)
    BY <1>3, WallIs DEF Edges
  <2>2. PICK i \in Places(geom[f]) : {s[1], s[2]} = StepAt(geom[f], i)  BY <2>1
  <2>3. PICK j \in 1 .. Len(g) - 1 : s = <<g[j], g[j + 1]>>  BY <1>3, PathSteps
  <2>4. j \in Places(g) /\ {s[1], s[2]} = StepAt(g, j)  BY <2>3 DEF Places, StepAt
  <2>5. ~InteriorsMeet(geom[f], g)  BY <1>1
  <2>6. QED  BY <2>2, <2>4, <2>5, ApartSteps
<1>4. ASSUME NEW w \in WallsOf(geom), NEW p \in InteriorPoints(g), p \in w  PROVE FALSE
  <2>1. PICK f \in Edges : \E i \in Places(geom[f]) : w = StepAt(geom[f], i)  BY WallIs DEF Edges
  <2>2. PICK i \in Places(geom[f]) : w = StepAt(geom[f], i)  BY <2>1
  <2>3. IsLine(geom[f])  BY InvFacts
  <2>4. p \notin InteriorPoints(geom[f])  BY <1>2
  <2>5. p = geom[f][1] \/ p = Last(geom[f])  BY <1>4, <2>2, <2>3, <2>4, EndStep
  <2>6. Drawn(geom, org, at) /\ org[f] \in DOMAIN at /\ org[-f] \in DOMAIN at  BY InvFacts
  <2>7. QED  BY <1>2, <2>5, <2>6 DEF Drawn, Edges
<1>5. QED  BY <1>1, <1>3, <1>4 DEF FreeOf

-----------------------------------------------------------------------------
(* What lies between the darts around a node. *)

\* The darts that leave node n.
OutOf(nx, o, n) == {d \in DOMAIN nx : o[d] = n}

\* From direction i clockwise to the first dart, and back to the last before it.
Bearings == 0 .. 7

\* A dart leaves its node by the ray of its azimuth.
LEMMA DartRay ==
  ASSUME NEW a, NEW G, NEW o, NEW nx, Net(a, G, o, nx), NEW d \in DOMAIN nx, NEW v, v = a[o[d]],
         NEW j, j = Turning(G, DOMAIN nx)[d]
  PROVE  /\ j \in Ways /\ LeftOf(G, d) = LeftCell(Ray(v, j))
         /\ Ray(v, j) \in Steps(Path(G, d)) /\ v \in Vertices
<1>1. PICK p : p = Path(G, d)  OBVIOUS
<1>2. IsLine(p) /\ p[1] = v  BY <1>1, NetFacts
<1>3. p[1] \in Vertices /\ p[2] \in Vertices /\ Adjacent(p[1], p[2])  BY <1>2, LineFacts
<1>4. j = azimuth_pt_pt(p[1], p[2])  BY <1>1 DEF Turning, Leaving
<1>5. j \in Ways /\ <<p[1], p[2]>> = Ray(v, j)
  <2>1. PICK r, q : r = p[1] /\ q = p[2]  OBVIOUS
  <2>2. r \in Vertices /\ q \in Vertices /\ Adjacent(r, q) /\ j = azimuth_pt_pt(r, q) /\ r = v
    BY <1>2, <1>3, <1>4, <2>1
  <2>3. azimuth_pt_pt(r, q) \in Ways /\ <<r, q>> = Ray(r, azimuth_pt_pt(r, q))  BY <2>2, StepRay
  <2>4. QED  BY <2>1, <2>2, <2>3
<1>6. <<p[1], p[2]>> \in Steps(p)  BY <1>1, LeftIsCell
<1>7. QED  BY <1>1, <1>2, <1>3, <1>5, <1>6 DEF LeftOf

\* Darts around node n, those in X besides, have azimuths other than i.
Round(G, nx, o, n, X, z, i) ==
  /\ \A x \in OutOf(nx, o, n) : z[x] = Turning(G, DOMAIN nx)[x]
  /\ \A x \in OutOf(nx, o, n) \cup X : z[x] \in 0 .. 7 /\ z[x] # i

\* The next dart clockwise has on its left the cell met first.
LEMMA NextAround ==
  ASSUME NEW a, NEW G, NEW o, NEW nx, Net(a, G, o, nx), NEW n \in DOMAIN a, NEW v, v = a[n],
         NEW k, Smooth(WallsOf(G), k),
         NEW X, NEW z, NEW i \in Bearings, Round(G, nx, o, n, X, z, i),
         NEW c, c = L!nextCW(OutOf(nx, o, n) \cup X, z, i), c \in OutOf(nx, o, n)
  PROVE  k[LeftOf(G, c)] = k[After(v, i)]
<1> DEFINE S == OutOf(nx, o, n)
           Z == Turning(G, DOMAIN nx)
<1>0. /\ \A x \in S : z[x] = Z[x]
      /\ \A x \in S \cup X : z[x] \in 0 .. 7 /\ z[x] # i
  BY DEF Round
<1>1. c \in DOMAIN nx /\ o[c] = n  BY DEF OutOf
<1>2. v \in Vertices  BY NetFacts
<1>3. PICK x \in Int, y \in Int : v = <<x, y>>  BY <1>2, VertexParts
<1>4. Z[c] \in Ways /\ LeftOf(G, c) = LeftCell(Ray(v, Z[c]))
  <2>1. v = a[o[c]]  BY <1>1
  <2>2. QED  BY <1>1, <2>1, DartRay
<1>5. z[c] = Z[c]  BY <1>0
<1>6. \A w \in S \cup X : LP!turn(i, z[c]) <= LP!turn(i, z[w])
  <2>1. PICK T : T = S \cup X  OBVIOUS
  <2>2. T # {} /\ c \in T  BY <2>1
  <2>3. \A w \in T : z[w] \in LP!Azimuths /\ z[w] # i  BY <1>0, <2>1 DEF LP!Azimuths
  <2>4. i \in LP!Azimuths  BY DEF LP!Azimuths, Bearings
  <2>5. LP!nextCW(T, z, i) = c  BY <2>1 DEF LP!nextCW, L!nextCW, LP!azdif, L!azdif
  <2>6. \A w \in T : LP!turn(i, z[LP!nextCW(T, z, i)]) <= LP!turn(i, z[w])
    BY <2>2, <2>3, <2>4, Linking, LP!NextCW
  <2>7. QED  BY <2>1, <2>5, <2>6
<1>7. ASSUME NEW j \in Ways, Clockwise(i, j) < Clockwise(i, Z[c])  PROVE RayWall(v, j) \notin WallsOf(G)
  <2>1. SUFFICES ASSUME RayWall(v, j) \in WallsOf(G)  PROVE FALSE  OBVIOUS
  <2>2. PICK d \in DOMAIN nx : o[d] = n /\ Z[d] = j  BY <2>1, NodeWalls
  <2>3. d \in S  BY <2>2 DEF OutOf
  <2>4. z[d] = j  BY <1>0, <2>2, <2>3
  <2>5. LP!turn(i, Z[c]) <= LP!turn(i, j)  BY <1>5, <1>6, <2>3, <2>4
  <2>6. j \in Int /\ Z[c] \in Int /\ i \in Int  BY <1>4 DEF Ways, Bearings
  <2> HIDE DEF Z
  <2>7. QED  BY <1>7, <2>5, <2>6 DEF LP!turn, Clockwise
<1>8. k[After(v, i)] = k[LeftCell(Ray(v, Z[c]))]
  <2>1. PICK b \in Ways : b = Z[c]  BY <1>4
  <2>2. PICK W : W = WallsOf(G)  OBVIOUS
  <2>3. \A j \in Ways : Clockwise(i, j) < Clockwise(i, b) => RayWall(v, j) \notin W
    BY <1>7, <2>1, <2>2
  <2>4. Smooth(W, k)  BY <2>2
  <2>5. PICK a2 \in 0 .. 7 : a2 = i  BY DEF Bearings
  <2>6. \A j \in Ways : Clockwise(a2, j) < Clockwise(a2, b) => RayWall(v, j) \notin W
    BY <2>3, <2>5
  <2>7. k[After(v, a2)] = k[LeftCell(Ray(v, b))]  BY <1>3, <2>4, <2>6, Corner
  <2>8. QED  BY <2>1, <2>5, <2>7
<1>9. QED  BY <1>4, <1>8

\* The next dart counterclockwise has it on its right.
LEMMA PrevAround ==
  ASSUME NEW a, NEW G, NEW o, NEW nx, Net(a, G, o, nx), NEW n \in DOMAIN a, NEW v, v = a[n],
         NEW k, Smooth(WallsOf(G), k),
         NEW X, NEW z, NEW i \in Ways, Round(G, nx, o, n, X, z, i),
         NEW c, c = L!nextCCW(OutOf(nx, o, n) \cup X, z, i), c \in OutOf(nx, o, n)
  PROVE  k[LeftOf(G, -c)] = k[LeftCell(Ray(v, i))]
<1> DEFINE S == OutOf(nx, o, n)
           Z == Turning(G, DOMAIN nx)
<1>0. /\ \A x \in S : z[x] = Z[x]
      /\ \A x \in S \cup X : z[x] \in 0 .. 7 /\ z[x] # i
  BY DEF Round
<1>1. c \in DOMAIN nx /\ o[c] = n  BY DEF OutOf
<1>2. v \in Vertices  BY NetFacts
<1>3. PICK x \in Int, y \in Int : v = <<x, y>>  BY <1>2, VertexParts
<1>4. Z[c] \in Ways /\ Ray(v, Z[c]) \in Steps(Path(G, c))
  <2>1. v = a[o[c]]  BY <1>1
  <2>2. QED  BY <1>1, <2>1, DartRay
<1>5. z[c] = Z[c] /\ Z[c] # i  BY <1>0
<1>6. \A w \in S \cup X : LP!turn(i, z[w]) <= LP!turn(i, z[c])
  <2>1. PICK T : T = S \cup X  OBVIOUS
  <2>2. T # {} /\ c \in T  BY <2>1
  <2>3. \A w \in T : z[w] \in LP!Azimuths /\ z[w] # i  BY <1>0, <2>1 DEF LP!Azimuths
  <2>4. i \in LP!Azimuths  BY DEF LP!Azimuths, Ways
  <2>5. LP!nextCCW(T, z, i) = c  BY <2>1 DEF LP!nextCCW, L!nextCCW, LP!azdif, L!azdif
  <2>6. \A w \in T : LP!turn(i, z[w]) <= LP!turn(i, z[LP!nextCCW(T, z, i)])
    BY <2>2, <2>3, <2>4, Linking, LP!NextCCW
  <2>7. QED  BY <2>1, <2>5, <2>6
<1>7. ASSUME NEW j \in Ways, Clockwise(Z[c], j) < Clockwise(Z[c], i)  PROVE RayWall(v, j) \notin WallsOf(G)
  <2>1. SUFFICES ASSUME RayWall(v, j) \in WallsOf(G)  PROVE FALSE  OBVIOUS
  <2>2. PICK d \in DOMAIN nx : o[d] = n /\ Z[d] = j  BY <2>1, NodeWalls
  <2>3. d \in S  BY <2>2 DEF OutOf
  <2>4. z[d] = j /\ j # i  BY <1>0, <2>2, <2>3
  <2>5. LP!turn(i, j) <= LP!turn(i, Z[c])  BY <1>5, <1>6, <2>3, <2>4
  <2>6. PICK b \in Ways : b = Z[c]  BY <1>4
  <2>7. LP!turn(i, j) <= LP!turn(i, b) /\ Clockwise(b, j) < Clockwise(b, i) /\ b # i
    BY <1>5, <1>7, <2>5, <2>6
  <2> HIDE DEF Z
  <2>8. QED  BY <2>4, <2>7 DEF LP!turn, Clockwise, Ways
<1>8. k[After(v, Z[c])] = k[LeftCell(Ray(v, i))]
  <2>1. PICK b \in Ways : b = Z[c]  BY <1>4
  <2>2. PICK W : W = WallsOf(G)  OBVIOUS
  <2>3. \A j \in Ways : Clockwise(b, j) < Clockwise(b, i) => RayWall(v, j) \notin W
    BY <1>7, <2>1, <2>2
  <2>4. PICK b2 \in 0 .. 7 : b2 = b  BY DEF Ways
  <2>5. Smooth(W, k)  BY <2>2
  <2>6. \A j \in Ways : Clockwise(b2, j) < Clockwise(b2, i) => RayWall(v, j) \notin W
    BY <2>3, <2>4
  <2>7. k[After(v, b2)] = k[LeftCell(Ray(v, i))]  BY <1>3, <2>5, <2>6, Corner
  <2>8. QED  BY <2>1, <2>4, <2>7
<1>9. RightCell(Ray(v, Z[c])) = After(v, Z[c])  BY <1>3, <1>4, Afters
<1>10. k[RightCell(Ray(v, Z[c]))] = k[LeftOf(G, -c)]  BY <1>1, <1>4, Sides
<1>11. QED  BY <1>8, <1>9, <1>10

\* What is beside the start of a line that is free of edges.
LEMMA FreeStart ==
  ASSUME NEW W, NEW col, Smooth(W, col), NEW g, FreeOf(W, g), NEW h \in {g, Reverse(g)},
         NEW v, v = h[1], NEW i, i = Leaving(h), NEW X, X = col[LeftCell(<<g[1], g[2]>>)]
  PROVE  i \in Ways /\ v \in Vertices /\ col[After(v, i)] = X /\ col[LeftCell(Ray(v, i))] = X
<1>1. /\ IsLine(h) /\ h[1] \in Vertices /\ h[2] \in Vertices /\ Adjacent(h[1], h[2])
      /\ col[LeftCell(<<h[1], h[2]>>)] = X
      /\ col[RightCell(<<h[1], h[2]>>)] = X
  BY FreeEnds
<1>2. PICK u : u = h[2]  OBVIOUS
<1>3. v \in Vertices /\ u \in Vertices /\ Adjacent(v, u) /\ i = azimuth_pt_pt(v, u)
  BY <1>1, <1>2 DEF Leaving
<1>4. i \in Ways /\ <<v, u>> = Ray(v, i)  BY <1>3, StepRay
<1>5. PICK x \in Int, y \in Int : v = <<x, y>>  BY <1>3, VertexParts
<1>6. RightCell(Ray(v, i)) = After(v, i)  BY <1>4, <1>5, Afters
<1>7. QED  BY <1>1, <1>2, <1>3, <1>4, <1>6

\* The faces that FindAdjacentEdges finds next to a direction.
LEMMA SidesAround ==
  ASSUME TopoInv, Planar, NEW col, NowMap(col), NEW n \in DOMAIN at, NEW v, v = at[n],
         NEW z, NEW X, NEW i \in Bearings, Round(geom, next, org, n, X, z, i),
         NEW S, S = OutOf(next, org, n) \cup X
  PROVE  /\ \A c \in OutOf(next, org, n) : c = L!nextCW(S, z, i) => side[c] = col[After(v, i)]
         /\ i \in Ways => \A c \in OutOf(next, org, n) :
               c = L!nextCCW(S, z, i) => side[-c] = col[LeftCell(Ray(v, i))]
<1>1. Net(at, geom, org, next) /\ Darts = DOMAIN next  BY NetHolds DEF Darts
<1>2. PICK W : W = WallsOf(geom)  OBVIOUS
<1>3. /\ Smooth(WallsOf(geom), col)
      /\ \A d \in Darts : side[d] = col[LeftOf(geom, d)]
  BY MapFacts
<1>4. ASSUME NEW c \in OutOf(next, org, n), c = L!nextCW(S, z, i)  PROVE side[c] = col[After(v, i)]
  <2>1. c = L!nextCW(OutOf(next, org, n) \cup X, z, i)  BY <1>4
  <2>2. col[LeftOf(geom, c)] = col[After(v, i)]
    <3>1. Net(at, geom, org, next) /\ Smooth(WallsOf(geom), col)  BY <1>1, <1>3
    <3>2. QED  BY <2>1, <3>1, NextAround
  <2>3. c \in Darts  BY <1>1 DEF OutOf
  <2>4. QED  BY <1>3, <2>2, <2>3
<1>5. ASSUME i \in Ways, NEW c \in OutOf(next, org, n), c = L!nextCCW(S, z, i)
      PROVE  side[-c] = col[LeftCell(Ray(v, i))]
  <2>1. c = L!nextCCW(OutOf(next, org, n) \cup X, z, i)  BY <1>5
  <2>2. col[LeftOf(geom, -c)] = col[LeftCell(Ray(v, i))]  BY <1>1, <1>3, <1>5, <2>1, PrevAround
  <2>3. -c \in Darts
    <3>1. c \in Darts  BY <1>1 DEF OutOf
    <3>2. QED  BY <3>1, InvFacts
  <2>4. QED  BY <1>3, <2>2, <2>3
<1>6. QED  BY <1>4, <1>5

\* For the start of a line that is free of the other edges they are the one in
\* which the line lies.
LEMMA FacesAround ==
  ASSUME TopoInv, Planar, NEW col, NowMap(col), NEW n \in DOMAIN at,
         NEW g, FreeOf(WallsOf(geom), g), NEW h \in {g, Reverse(g)}, h[1] = at[n],
         NEW z, NEW other, NEW i, i = Leaving(h), Round(geom, next, org, n, other, z, i),
         NEW S, S = L!Out(n) \cup other,
         NEW adj, adj = _lwt_FindAdjacentEdges(n, z, i, other),
         NEW X, X = col[LeftCell(<<g[1], g[2]>>)]
  PROVE  /\ L!Out(n) = {} => adj.cw = None /\ adj.ccw = None
         /\ L!Out(n) # {} => adj.cw = (IF L!nextCW(S, z, i) \in other THEN None ELSE X)
         /\ L!Out(n) # {} => adj.ccw = (IF L!nextCCW(S, z, i) \in other THEN None ELSE X)
<1>1. L!Out(n) = OutOf(next, org, n)  BY DEF L!Out, L!Darts, OutOf
<1>2. PICK v : v = at[n]  OBVIOUS
<1>3. i \in Ways /\ v \in Vertices /\ col[After(v, i)] = X /\ col[LeftCell(Ray(v, i))] = X
  <2>1. Smooth(WallsOf(geom), col) /\ v = h[1]  BY <1>2, MapFacts
  <2>2. QED  BY <2>1, FreeStart
<1>4. CASE L!Out(n) = {}
  <2>1. adj = [cw |-> None, ccw |-> None]  BY <1>4 DEF _lwt_FindAdjacentEdges
  <2>2. QED  BY <1>4, <2>1
<1>5. CASE L!Out(n) # {}
  <2>1. PICK cw, ccw : cw = L!nextCW(S, z, i) /\ ccw = L!nextCCW(S, z, i)  OBVIOUS
  <2>2. adj = [cw  |-> IF cw \in other THEN None ELSE side[cw],
               ccw |-> IF ccw \in other THEN None ELSE side[-ccw]]
    BY <1>5, <2>1 DEF _lwt_FindAdjacentEdges
  <2>3. i \in Bearings /\ i \in 0 .. 7  BY <1>3 DEF Ways, Bearings
  <2>4. cw \in S /\ ccw \in S
    <3>1. S # {}  BY <1>5
    <3>2. \A w \in S : z[w] \in 0 .. 7  BY <1>1 DEF Round
    <3>3. QED  BY <2>1, <2>3, <3>1, <3>2, NextAmong
  <2>5. S = OutOf(next, org, n) \cup other  BY <1>1
  <2>6. /\ \A c \in OutOf(next, org, n) : c = L!nextCW(S, z, i) => side[c] = col[After(v, i)]
        /\ \A c \in OutOf(next, org, n) : c = L!nextCCW(S, z, i) => side[-c] = col[LeftCell(Ray(v, i))]
    BY <1>2, <1>3, <2>3, <2>5, SidesAround
  <2>7. cw \notin other => side[cw] = X  BY <1>3, <2>1, <2>4, <2>5, <2>6
  <2>8. ccw \notin other => side[-ccw] = X  BY <1>3, <2>1, <2>4, <2>5, <2>6
  <2>9. /\ adj.cw = IF cw \in other THEN None ELSE X
        /\ adj.ccw = IF ccw \in other THEN None ELSE X
    BY <2>2, <2>7, <2>8
  <2>10. QED  BY <1>5, <2>1, <2>9
<1>6. QED  BY <1>4, <1>5

\* The containing face of an isolated end of the line is that face, too.
LEMMA FaceAtEnd ==
  ASSUME TopoInv, Planar, NEW col, NowMap(col), NEW n \in DOMAIN at, inface[n] # None,
         NEW g, FreeOf(WallsOf(geom), g), NEW h \in {g, Reverse(g)}, h[1] = at[n]
  PROVE  inface[n] = col[LeftCell(<<g[1], g[2]>>)]
<1>1. Net(at, geom, org, next) /\ Darts = DOMAIN next  BY NetHolds DEF Darts
<1>2. Smooth(WallsOf(geom), col) /\ inface[n] = col[CellAt(at[n][1], at[n][2])]  BY MapFacts
<1>3. L!Out(n) = {}  BY InvFacts
<1>4. \A d \in DOMAIN next : org[d] # n  BY <1>3 DEF L!Out, L!Darts
<1>5. PICK v, u, W : v = at[n] /\ u = h[2] /\ W = WallsOf(geom)  OBVIOUS
<1>6. /\ v = h[1] /\ h[1] \in Vertices /\ h[2] \in Vertices /\ Adjacent(h[1], h[2])
      /\ col[LeftCell(<<h[1], h[2]>>)] = col[LeftCell(<<g[1], g[2]>>)]
  BY <1>2, <1>5, FreeEnds
<1>7. \A w \in W : v \notin w  BY <1>1, <1>4, <1>5, NodeFree
<1>8. v \in Vertices /\ u \in Vertices /\ Adjacent(v, u) /\ Smooth(W, col)  BY <1>2, <1>5, <1>6
<1>9. /\ col[LeftCell(<<u, v>>)] = col[CellAt(v[1], v[2])]
      /\ col[LeftCell(<<v, u>>)] = col[CellAt(v[1], v[2])]
  BY <1>7, <1>8, BesideFree
<1>10. QED  BY <1>2, <1>5, <1>6, <1>9

\* A set of darts around a node, and the two ends of a loop there.
Closes(S, p, q, z) == /\ S # {} /\ p \notin S /\ q \notin S /\ z[p] # z[q]
                      /\ \A x \in S \cup {p, q} : z[x] \in 0 .. 7
                      /\ \A x \in S : z[x] # z[p] /\ z[x] # z[q]

\* The neighbours of the two ends, either way.
Nexts(S, p, q, z, cp, ccp, cq, ccq) ==
  /\ cp = L!nextCW(S \cup {q}, z, z[p]) /\ ccp = L!nextCCW(S \cup {q}, z, z[p])
  /\ cq = L!nextCW(S \cup {p}, z, z[q]) /\ ccq = L!nextCCW(S \cup {p}, z, z[q])

\* Directions p and q of the two ends of a closed line among those of S: if p is
\* met last from q, then q is met first from p, and the other way around; both
\* at once only if there is nothing else.
LEMMA ClosedOrder ==
  ASSUME NEW S, NEW p, NEW q, NEW z, Closes(S, p, q, z),
         NEW cp, NEW ccp, NEW cq, NEW ccq, Nexts(S, p, q, z, cp, ccp, cq, ccq)
  PROVE  /\ ccq = p => cp = q
         /\ cq = p => ccp = q
         /\ ~(cp = q /\ ccp = q)
         /\ cp \in S \cup {q} /\ ccp \in S \cup {q} /\ cq \in S \cup {p} /\ ccq \in S \cup {p}
<1>0. /\ S # {} /\ p \notin S /\ q \notin S /\ z[p] # z[q]
      /\ \A x \in S \cup {p, q} : z[x] \in 0 .. 7
      /\ \A x \in S : z[x] # z[p] /\ z[x] # z[q]
  BY DEF Closes
<1>1. LP!Azimuths = 0 .. 7  BY DEF LP!Azimuths
<1>2. ASSUME NEW u \in {p, q}, NEW w \in {p, q}, u # w, NEW T, T = S \cup {w}
      PROVE  /\ L!nextCW(T, z, z[u]) \in T /\ L!nextCCW(T, z, z[u]) \in T
             /\ \A x \in T : LP!turn(z[u], z[L!nextCW(T, z, z[u])]) <= LP!turn(z[u], z[x])
             /\ \A x \in T : LP!turn(z[u], z[x]) <= LP!turn(z[u], z[L!nextCCW(T, z, z[u])])
  <2>1. T # {} /\ (\A x \in T : z[x] \in LP!Azimuths) /\ z[u] \in LP!Azimuths
        /\ \A x \in T : z[x] # z[u]
    BY <1>0, <1>1, <1>2
  <2>2. LP!nextCW(T, z, z[u]) = L!nextCW(T, z, z[u]) /\ LP!nextCCW(T, z, z[u]) = L!nextCCW(T, z, z[u])
    BY DEF LP!nextCW, L!nextCW, LP!nextCCW, L!nextCCW, LP!azdif, L!azdif
  <2>3. PICK a : a = z[u]  OBVIOUS
  <2>4. a \in LP!Azimuths /\ \A x \in T : z[x] # a  BY <2>1, <2>3
  <2>5. LP!nextCW(T, z, a) \in T /\ \A x \in T : LP!turn(a, z[LP!nextCW(T, z, a)]) <= LP!turn(a, z[x])
    BY <2>1, <2>4, Linking, LP!NextCW
  <2>6. LP!nextCCW(T, z, a) \in T /\ \A x \in T : LP!turn(a, z[x]) <= LP!turn(a, z[LP!nextCCW(T, z, a)])
    BY <2>1, <2>4, Linking, LP!NextCCW
  <2>7. QED  BY <2>2, <2>3, <2>5, <2>6
<1>3. p # q  BY <1>0
<1>4. /\ cp \in S \cup {q} /\ ccp \in S \cup {q}
      /\ \A x \in S \cup {q} : LP!turn(z[p], z[cp]) <= LP!turn(z[p], z[x])
      /\ \A x \in S \cup {q} : LP!turn(z[p], z[x]) <= LP!turn(z[p], z[ccp])
  BY <1>2, <1>3 DEF Nexts
<1>5. /\ cq \in S \cup {p} /\ ccq \in S \cup {p}
      /\ \A x \in S \cup {p} : LP!turn(z[q], z[cq]) <= LP!turn(z[q], z[x])
      /\ \A x \in S \cup {p} : LP!turn(z[q], z[x]) <= LP!turn(z[q], z[ccq])
  BY <1>2, <1>3 DEF Nexts
<1>6. PICK a, b : a = z[p] /\ b = z[q]  OBVIOUS
<1>7. a \in 0 .. 7 /\ b \in 0 .. 7 /\ a # b  BY <1>0, <1>6
<1>8. \A x \in S : z[x] \in 0 .. 7 /\ z[x] # a /\ z[x] # b  BY <1>0, <1>6
<1>9. ASSUME ccq = p  PROVE cp = q
  <2>1. SUFFICES ASSUME cp # q  PROVE FALSE  OBVIOUS
  <2>2. cp \in S  BY <1>4, <2>1
  <2>3. LP!turn(b, z[cp]) <= LP!turn(b, a)  BY <1>5, <1>6, <1>9, <2>2
  <2>4. LP!turn(a, z[cp]) <= LP!turn(a, b)  BY <1>4, <1>6
  <2>5. PICK c : c = z[cp]  OBVIOUS
  <2>6. c \in 0 .. 7 /\ c # a /\ c # b  BY <1>8, <2>2, <2>5
  <2>7. LP!turn(b, c) <= LP!turn(b, a) /\ LP!turn(a, c) <= LP!turn(a, b)  BY <2>3, <2>4, <2>5
  <2>8. QED  BY <1>7, <2>6, <2>7 DEF LP!turn
<1>10. ASSUME cq = p  PROVE ccp = q
  <2>1. SUFFICES ASSUME ccp # q  PROVE FALSE  OBVIOUS
  <2>2. ccp \in S  BY <1>4, <2>1
  <2>3. LP!turn(b, a) <= LP!turn(b, z[ccp])  BY <1>5, <1>6, <1>10, <2>2
  <2>4. LP!turn(a, b) <= LP!turn(a, z[ccp])  BY <1>4, <1>6
  <2>5. PICK c : c = z[ccp]  OBVIOUS
  <2>6. c \in 0 .. 7 /\ c # a /\ c # b  BY <1>8, <2>2, <2>5
  <2>7. LP!turn(b, a) <= LP!turn(b, c) /\ LP!turn(a, b) <= LP!turn(a, c)  BY <2>3, <2>4, <2>5
  <2>8. QED  BY <1>7, <2>6, <2>7 DEF LP!turn
<1>11. ASSUME cp = q, ccp = q  PROVE FALSE
  <2>1. PICK x \in S : TRUE  BY <1>0
  <2>2. LP!turn(a, b) <= LP!turn(a, z[x]) /\ LP!turn(a, z[x]) <= LP!turn(a, b)  BY <1>4, <1>6, <1>11
  <2>3. PICK c : c = z[x]  OBVIOUS
  <2>4. c \in 0 .. 7 /\ c # a /\ c # b  BY <1>8, <2>3
  <2>5. LP!turn(a, b) <= LP!turn(a, c) /\ LP!turn(a, c) <= LP!turn(a, b)  BY <2>2, <2>3
  <2>6. QED  BY <1>7, <2>4, <2>5 DEF LP!turn
<1>12. QED  BY <1>4, <1>5, <1>9, <1>10, <1>11

\* The face that AddEdge finds for its edge is the one in which the line lies.
LEMMA EdgeFaceIs ==
  ASSUME TopoInv, Planar, NEW col, NowMap(col), NEW e \in L!NewEdgeIds(Edges),
         NEW m \in DOMAIN at, NEW n \in DOMAIN at, NEW g \in Lines, LegalEdge(m, n, g),
         NEW z, z = L!With(az, e, Leaving(g), Arriving(g)),
         NEW X, X = col[LeftCell(<<g[1], g[2]>>)]
  PROVE  EdgeFace(e, m, n, z) = X /\ X \in DOMAIN face
<1> DEFINE closed == m = n
           iso   == {inface[m], inface[n]} \ {None}
           O1 == IF closed THEN {-e} ELSE {}
           O2 == IF closed THEN {e} ELSE {}
           A1 == L!Out(m)
           A2 == L!Out(n)
           span  == _lwt_FindAdjacentEdges(m, z, z[e], O1)
           epan  == _lwt_FindAdjacentEdges(n, z, z[-e], O2)
           first(x) == IF iso # {} THEN CHOOSE f \in iso : TRUE ELSE x
           right == first(span.cw)
           left  == first(span.ccw)
           FaceRight == IF right = None /\ A2 # {} THEN span.ccw ELSE right
           FaceLeft  == IF left = None /\ A2 # {} THEN span.cw ELSE left
<1>1. /\ IsLine(g) /\ lwgeom_is_simple(g) /\ at[m] = g[1] /\ at[n] = Last(g)
      /\ \A f \in Edges : ~InteriorsMeet(geom[f], g)
  BY LegalFacts
<1>2. FreeOf(WallsOf(geom), g)  BY LegalFree
<1>3. e # -e /\ -(-e) = e /\ e \notin Darts /\ -e \notin Darts  BY NewEdge
<1>4. /\ L!Free(m, Leaving(g), {}) /\ L!Free(n, Arriving(g), {})
      /\ m = n => Leaving(g) # Arriving(g)
  BY <1>1, NewEdgeLinked
<1>5. /\ z[e] = Leaving(g) /\ z[-e] = Arriving(g) /\ \A d \in Darts : z[d] = az[d]
      /\ Arriving(g) = Leaving(Reverse(g)) /\ Reverse(g)[1] = Last(g)
      /\ Leaving(g) \in 0 .. 7 /\ Arriving(g) \in 0 .. 7
  BY <1>1, <1>3, InvFacts, LineEnds, ReverseLine DEF L!With
<1>6. /\ \A k : L!Out(k) = OutOf(next, org, k) /\ L!Out(k) \subseteq Darts
      /\ az = Turning(geom, DOMAIN next) /\ \A d \in Darts : az[d] \in 0 .. 7
  BY InvFacts DEF L!Out, L!Darts, OutOf, Darts
<1>7. /\ \A x \in A1 : z[x] \in 0 .. 7 /\ z[x] # z[e]
      /\ \A x \in A2 : z[x] \in 0 .. 7 /\ z[x] # z[-e]
      /\ \A x \in A1 \cup A2 : z[x] = az[x]
  BY <1>4, <1>5, <1>6 DEF L!Free
<1>8. Round(geom, next, org, m, O1, z, z[e]) /\ Round(geom, next, org, n, O2, z, z[-e])
  BY <1>4, <1>5, <1>6, <1>7 DEF Round
<1>9. /\ A1 = {} => span.cw = None /\ span.ccw = None
      /\ A1 # {} => span.cw = (IF L!nextCW(A1 \cup O1, z, z[e]) \in O1 THEN None ELSE X)
      /\ A1 # {} => span.ccw = (IF L!nextCCW(A1 \cup O1, z, z[e]) \in O1 THEN None ELSE X)
  <2>1. z[e] = Leaving(g) /\ g[1] = at[m]  BY <1>1, <1>5
  <2> HIDE DEF O1
  <2>2. QED  BY <1>2, <1>8, <2>1, FacesAround
<1>10. /\ A2 = {} => epan.cw = None /\ epan.ccw = None
       /\ A2 # {} => epan.cw = (IF L!nextCW(A2 \cup O2, z, z[-e]) \in O2 THEN None ELSE X)
       /\ A2 # {} => epan.ccw = (IF L!nextCCW(A2 \cup O2, z, z[-e]) \in O2 THEN None ELSE X)
  <2>1. PICK h \in {g, Reverse(g)} : h = Reverse(g)  OBVIOUS
  <2>2. z[-e] = Leaving(h) /\ h[1] = at[n]  BY <1>1, <1>5, <2>1
  <2> HIDE DEF O2
  <2>3. QED  BY <1>2, <1>8, <2>2, FacesAround
<1>11. iso \subseteq {X}
  <2>1. ASSUME inface[m] # None  PROVE inface[m] = X
    BY <1>1, <1>2, <2>1, FaceAtEnd
  <2>2. ASSUME inface[n] # None  PROVE inface[n] = X
    <3>1. PICK h \in {g, Reverse(g)} : h = Reverse(g)  OBVIOUS
    <3>2. h[1] = at[n]  BY <1>1, <1>5, <3>1
    <3>3. QED  BY <1>2, <2>2, <3>2, FaceAtEnd
  <2>3. QED  BY <2>1, <2>2
<1>12. X \in DOMAIN face
  <2>1. col \in [Cells -> DOMAIN face]  BY MapFacts
  <2>2. <<g[1], g[2]>> \in UnitSteps
    <3>1. 1 \in 1 .. Len(g) - 1 /\ 1 + 1 = 2  BY <1>1, LineFacts
    <3>2. Smooth(WallsOf(geom), col)  BY MapFacts
    <3>3. <<g[1], g[1 + 1]>> \in UnitSteps  BY <1>2, <3>1, <3>2, FreeStep
    <3>4. QED  BY <3>1, <3>3
  <2>3. QED  BY <2>1, <2>2, StepCells
<1>13. X # None  BY <1>12 DEF TopoInv, None
<1>14. (inface[m] = None <=> A1 # {}) /\ (inface[n] = None <=> A2 # {})  BY InvFacts
<1>15. Cardinality(iso) <= 1
  <2>1. iso = {} \/ iso = {X}  BY <1>11
  <2>2. Cardinality({}) = 0 /\ Cardinality({X}) = 1  BY FS_EmptySet, FS_Singleton
  <2>3. QED  BY <2>1, <2>2
<1>16. span.cw \in {None, X} /\ span.ccw \in {None, X} /\ epan.cw \in {None, X} /\ epan.ccw \in {None, X}
  BY <1>9, <1>10
<1>17. ~Corrupted(span) /\ ~Corrupted(epan)  BY <1>16 DEF Corrupted
<1>18. /\ A2 # {} => right \in {None, epan.ccw} /\ left \in {None, epan.cw}
       /\ FaceLeft = X /\ FaceRight = X
  <2>1. CASE iso # {}
    <3>1. (CHOOSE f \in iso : TRUE) = X  BY <1>11, <2>1
    <3>2. right = X /\ left = X  BY <2>1, <3>1
    <3>3. A2 # {} => epan.ccw = X /\ epan.cw = X
      <4>1. A2 # {} => m # n  BY <1>14, <2>1
      <4>2. A2 # {} => O2 = {}  BY <4>1
      <4>3. QED  BY <1>10, <4>2
    <3>4. QED  BY <1>13, <3>2, <3>3
  <2>2. CASE iso = {} /\ m # n
    <3>1. A1 # {} /\ A2 # {} /\ O1 = {} /\ O2 = {}  BY <1>14, <2>2
    <3>2. span.cw = X /\ span.ccw = X /\ epan.cw = X /\ epan.ccw = X  BY <1>9, <1>10, <3>1
    <3>3. right = X /\ left = X  BY <2>2, <3>2
    <3>4. QED  BY <1>13, <3>2, <3>3
  <2>3. CASE iso = {} /\ m = n
    <3>1. A1 # {} /\ A2 = A1 /\ O1 = {-e} /\ O2 = {e}  BY <1>14, <2>3
    <3>2. PICK S, q : S = A1 /\ q = -e  OBVIOUS
    <3>3. Closes(S, e, q, z)
      BY <1>3, <1>4, <1>5, <1>6, <1>7, <2>3, <3>1, <3>2 DEF Closes
    <3>4. PICK cp, ccp, cq, ccq : Nexts(S, e, q, z, cp, ccp, cq, ccq)
      BY DEF Nexts
    <3>5. /\ ccq = e => cp = q
          /\ cq = e => ccp = q
          /\ ~(cp = q /\ ccp = q)
          /\ cp \in S \cup {q} /\ ccp \in S \cup {q} /\ cq \in S \cup {e} /\ ccq \in S \cup {e}
      BY <3>3, <3>4, ClosedOrder
    <3>6. /\ span.cw = (IF cp = q THEN None ELSE X) /\ span.ccw = (IF ccp = q THEN None ELSE X)
          /\ epan.cw = (IF cq = e THEN None ELSE X) /\ epan.ccw = (IF ccq = e THEN None ELSE X)
      BY <1>9, <1>10, <3>1, <3>2, <3>4 DEF Nexts
    <3>7. right = span.cw /\ left = span.ccw  BY <2>3
    <3> HIDE DEF span, epan, first
    <3>8. QED  BY <1>13, <3>1, <3>5, <3>6, <3>7
  <2>4. QED  BY <2>1, <2>2, <2>3
<1>19. EdgeFace(e, m, n, z) = FaceLeft
  BY <1>15, <1>17, <1>18 DEF EdgeFace
<1>20. QED  BY <1>12, <1>18, <1>19

\* The neighbours of a new edge lie in one face.
LEMMA FindsFace ==
  ASSUME TopoInv, Planar, FaceInv
  PROVE  AddEdgeFindsFace
<1>1. PICK col : NowMap(col)  BY DEF FaceInv, NowMap
<1>2. ASSUME NEW e \in L!NewEdgeIds(Edges), NEW m \in DOMAIN at, NEW n \in DOMAIN at, NEW g \in Lines,
             LegalEdge(m, n, g)
      PROVE  EdgeFace(e, m, n, L!With(az, e, Leaving(g), Arriving(g))) # None
  <2>1. PICK X, z : /\ X = col[LeftCell(<<g[1], g[2]>>)]
                    /\ z = L!With(az, e, Leaving(g), Arriving(g))
    OBVIOUS
  <2>2. EdgeFace(e, m, n, z) = X /\ X \in DOMAIN face  BY <1>1, <1>2, <2>1, EdgeFaceIs
  <2>3. X # None  BY <2>2 DEF TopoInv, None
  <2>4. QED  BY <2>1, <2>2, <2>3
<1>3. QED  BY <1>2 DEF AddEdgeFindsFace

-----------------------------------------------------------------------------
(* A line more. *)

\* Lines G become H when edge e is added.
Grows(a, G, o, nx, H, o2, nx2, e) ==
  /\ Net(a, G, o, nx) /\ Net(a, H, o2, nx2)
  /\ e \in DOMAIN H /\ LessLine(G, H, e) /\ DOMAIN nx = DOMAIN nx2 \ {e, -e}

\* What an edge more means for darts and walls.
LEMMA GrowsFacts ==
  ASSUME NEW a, NEW G, NEW o, NEW nx, NEW H, NEW o2, NEW nx2, NEW e, Grows(a, G, o, nx, H, o2, nx2, e)
  PROVE  /\ e \in DOMAIN nx2 /\ -e \in DOMAIN nx2 /\ -(-e) = e /\ e # -e /\ e > 0 /\ e \in Int
         /\ LeftOf(H, e) \in Cells /\ LeftOf(H, -e) \in Cells
         /\ \A w : w \in WallsOf(H) <=> w \in WallsOf(G) \/ w \in Stroke(H[e])
         /\ \A d \in DOMAIN nx : d \in DOMAIN nx2 /\ d # e /\ d # -e /\ LeftOf(H, d) = LeftOf(G, d)
         /\ \A d \in DOMAIN nx2 : d \in DOMAIN nx \/ d = e \/ d = -e
<1>1. /\ Net(a, G, o, nx) /\ Net(a, H, o2, nx2) /\ e \in DOMAIN H
      /\ DOMAIN G = DOMAIN H \ {e} /\ \A x \in DOMAIN H \ {e} : G[x] = H[x]
      /\ DOMAIN nx = DOMAIN nx2 \ {e, -e}
  BY DEF Grows, LessLine
<1>2. e \in DOMAIN nx2 /\ e > 0  BY <1>1, NetFacts
<1>3. -e \in DOMAIN nx2 /\ -(-e) = e /\ e # -e /\ e \in Int  BY <1>1, <1>2, NetFacts
<1>4. LeftOf(H, e) \in Cells /\ LeftOf(H, -e) \in Cells  BY <1>1, <1>2, <1>3, LeftIsCell
<1>5. ASSUME NEW w  PROVE w \in WallsOf(H) <=> w \in WallsOf(G) \/ w \in Stroke(H[e])
  <2>1. w \in WallsOf(H) <=> \E u \in DOMAIN H : w \in Stroke(H[u])  BY DEF WallsOf, Stroke
  <2>2. w \in WallsOf(G) <=> \E u \in DOMAIN G : w \in Stroke(G[u])  BY DEF WallsOf, Stroke
  <2>3. QED  BY <1>1, <2>1, <2>2
<1>6. ASSUME NEW d \in DOMAIN nx  PROVE LeftOf(H, d) = LeftOf(G, d)
  <2>1. EdgeOf(d) \in DOMAIN G  BY <1>1, NetFacts
  <2>2. Path(H, d) = Path(G, d)  BY <1>1, <2>1, SamePath
  <2>3. QED  BY <2>2 DEF LeftOf
<1>7. QED  BY <1>1, <1>2, <1>3, <1>4, <1>5, <1>6

\* What changes only at the new walls, but not from one side of the new edge to
\* the other, changes only at the old ones.
LEMMA GrowsSmooth ==
  ASSUME NEW a, NEW G, NEW o, NEW nx, NEW H, NEW o2, NEW nx2, NEW e, Grows(a, G, o, nx, H, o2, nx2, e),
         NEW k, Smooth(WallsOf(H), k), k[LeftOf(H, e)] = k[LeftOf(H, -e)]
  PROVE  Smooth(WallsOf(G), k)
<1>1. Net(a, H, o2, nx2) /\ e \in DOMAIN H  BY DEF Grows
<1>2. /\ e \in DOMAIN nx2 /\ -e \in DOMAIN nx2
      /\ \A w : w \in WallsOf(H) <=> w \in WallsOf(G) \/ w \in Stroke(H[e])
  BY GrowsFacts
<1>3. Path(H, e) = H[e]  BY <1>1, NetFacts
<1>4. SUFFICES ASSUME NEW t \in UnitSteps, {t[1], t[2]} \notin WallsOf(G)
               PROVE  k[LeftCell(t)] = k[RightCell(t)]
  BY SmoothIntro
<1>5. CASE {t[1], t[2]} \notin WallsOf(H)
  BY <1>5, SmoothAcross
<1>6. CASE {t[1], t[2]} \in WallsOf(H)
  <2>1. {t[1], t[2]} \in Undirected(Steps(H[e]))  BY <1>2, <1>4, <1>6 DEF Stroke
  <2>2. PICK q \in Steps(H[e]) : {t[1], t[2]} = {q[1], q[2]}  BY <2>1 DEF Undirected
  <2>3. q \in Steps(Path(H, e))  BY <1>3
  <2>4. q \in UnitSteps  BY <1>1, <1>2, <2>3, LeftIsCell
  <2>5. k[LeftCell(q)] = k[LeftOf(H, e)] /\ k[RightCell(q)] = k[LeftOf(H, -e)]
    BY <1>1, <1>2, <2>3, Sides
  <2>6. t = q \/ t = Back(q)
    <3>1. t = <<t[1], t[2]>> /\ q = <<q[1], q[2]>>  BY <2>4, UnitPoints
    <3>2. (t[1] = q[1] /\ t[2] = q[2]) \/ (t[1] = q[2] /\ t[2] = q[1])  BY <2>2
    <3>3. QED  BY <3>1, <3>2 DEF Back
  <2>7. LeftCell(Back(q)) = RightCell(q) /\ RightCell(Back(q)) = LeftCell(q)  BY <2>4, StepCells
  <2>8. QED  BY <2>5, <2>6, <2>7
<1>7. QED  BY <1>5, <1>6

\* The faces around nodes that stay isolated are kept.
FewerIsolated(a, in, in2) == \A n \in DOMAIN a : in2[n] # None => in[n] # None /\ in2[n] = in[n]

\* An edge whose two darts are in one ring divides nothing.
LEMMA AddedSame ==
  ASSUME NEW a, NEW G, NEW o, NEW nx, NEW H, NEW o2, NEW nx2, NEW e, Grows(a, G, o, nx, H, o2, nx2, e),
         -e \in RingOf(nx2, e),
         NEW in, NEW s, NEW F, NEW col, FaceMap(a, in, G, DOMAIN nx, s, F, col),
         NEW s2, \A d \in DOMAIN nx : s2[d] = s[d],
         s2[e] = col[LeftOf(H, e)], s2[-e] = col[LeftOf(H, e)],
         NEW in2, FewerIsolated(a, in, in2)
  PROVE  FaceMap(a, in2, H, DOMAIN nx2, s2, F, col)
<1>1. Net(a, H, o2, nx2)  BY DEF Grows
<1>2. /\ e \in DOMAIN nx2 /\ -e \in DOMAIN nx2
      /\ \A w : w \in WallsOf(H) <=> w \in WallsOf(G) \/ w \in Stroke(H[e])
      /\ \A d \in DOMAIN nx : LeftOf(H, d) = LeftOf(G, d)
      /\ \A d \in DOMAIN nx2 : d \in DOMAIN nx \/ d = e \/ d = -e
  BY GrowsFacts
<1>3. /\ col \in [Cells -> DOMAIN F] /\ \A f \in DOMAIN F : \E c \in Cells : col[c] = f
      /\ Smooth(WallsOf(G), col) /\ Finest(WallsOf(G), col)
      /\ col[Outer] = Universe
      /\ \A d \in DOMAIN nx : s[d] = col[LeftOf(G, d)]
      /\ \A n \in DOMAIN a : in[n] # None => in[n] = col[CellAt(a[n][1], a[n][2])]
      /\ \A f \in DOMAIN F \ {Universe} : F[f] = RegionBox(Part(col, f))
  BY DEF FaceMap
<1>4. ASSUME NEW k, Smooth(WallsOf(H), k)  PROVE k[LeftOf(H, -e)] = k[LeftOf(H, e)]
  BY <1>1, <1>2, <1>4, RingSide
<1>5. Smooth(WallsOf(H), col)  BY <1>2, <1>3, MoreWalls
<1>6. Finest(WallsOf(H), col)
  <2>1. SUFFICES ASSUME NEW k, Smooth(WallsOf(H), k)
                 PROVE  \A c, d \in Cells : col[c] = col[d] => k[c] = k[d]
    BY DEF Finest
  <2>2. Smooth(WallsOf(G), k)  BY <1>4, <2>1, GrowsSmooth
  <2>3. QED  BY <1>3, <2>2 DEF Finest
<1>7. ASSUME NEW d \in DOMAIN nx2  PROVE s2[d] = col[LeftOf(H, d)]
  <2>1. col[LeftOf(H, -e)] = col[LeftOf(H, e)]  BY <1>4, <1>5
  <2>2. QED  BY <1>2, <1>3, <2>1
<1>8. \A n \in DOMAIN a : in2[n] # None => in2[n] = col[CellAt(a[n][1], a[n][2])]
  BY <1>3 DEF FewerIsolated
<1>9. QED  BY <1>3, <1>5, <1>6, <1>7, <1>8 DEF FaceMap

-----------------------------------------------------------------------------
(* A line that cuts a face in two. *)

\* Edge e, which is added in face f, has its darts in two rings; S, which winds
\* around what is on the left of e w times, is the ring of e, and T, with v, that
\* of -e.
Cuts(a, G, o, nx, H, o2, nx2, e, d, S, w, T, v) ==
  /\ Grows(a, G, o, nx, H, o2, nx2, e)
  /\ d \in {e, -e} /\ -d \notin RingOf(nx2, d)
  /\ S = RingOfSteps(H, nx2, d) /\ w = Winding(S, LeftOf(H, d))
  /\ T = RingOfSteps(H, nx2, -d) /\ v = Winding(T, LeftOf(H, -d))

\* Both sides of an edge that closes a ring are alike.
LEMMA CutsFacts ==
  ASSUME NEW a, NEW G, NEW o, NEW nx, NEW H, NEW o2, NEW nx2, NEW e, NEW d, NEW S, NEW w, NEW T, NEW v,
         Cuts(a, G, o, nx, H, o2, nx2, e, d, S, w, T, v)
  PROVE  /\ Net(a, H, o2, nx2) /\ d \in DOMAIN nx2 /\ -d \in DOMAIN nx2 /\ -(-d) = d
         /\ -d \notin RingOf(nx2, d) /\ d \notin RingOf(nx2, -d)
         /\ LeftOf(H, d) \in Cells /\ LeftOf(H, -d) \in Cells
         /\ Cuts(a, G, o, nx, H, o2, nx2, e, -d, T, v, S, w)
<1>1. /\ Net(a, H, o2, nx2) /\ d \in {e, -e} /\ -d \notin RingOf(nx2, d)
      /\ Grows(a, G, o, nx, H, o2, nx2, e)
  BY DEF Cuts, Grows
<1>2. /\ e \in DOMAIN nx2 /\ -e \in DOMAIN nx2 /\ -(-e) = e
      /\ LeftOf(H, e) \in Cells /\ LeftOf(H, -e) \in Cells
  BY <1>1, GrowsFacts
<1>3. d \in DOMAIN nx2 /\ -d \in DOMAIN nx2 /\ -(-d) = d /\ -d \in {e, -e}  BY <1>1, <1>2
<1>4. d \notin RingOf(nx2, -d)
  <2>1. SUFFICES ASSUME d \in RingOf(nx2, -d)  PROVE FALSE  OBVIOUS
  <2>2. -d \in RingOf(nx2, d)  BY <1>1, <1>3, <2>1, RingBack
  <2>3. QED  BY <1>1, <2>2
<1>5. Cuts(a, G, o, nx, H, o2, nx2, e, -d, T, v, S, w)  BY <1>1, <1>3, <1>4 DEF Cuts
<1>6. QED  BY <1>1, <1>2, <1>3, <1>4, <1>5

\* How both rings wind around what is on the left and on the right of d.
LEMMA CutsWind ==
  ASSUME NEW a, NEW G, NEW o, NEW nx, NEW H, NEW o2, NEW nx2, NEW e, NEW d, NEW S, NEW w, NEW T, NEW v,
         Cuts(a, G, o, nx, H, o2, nx2, e, d, S, w, T, v)
  PROVE  /\ w \in {0, 1} /\ v \in {0, 1}
         /\ Smooth(WallsOf(H), WindingOf(S)) /\ Smooth(WallsOf(H), WindingOf(T))
         /\ Balanced(S) /\ Winding(S, Outer) = 0 /\ Winding(T, Outer) = 0
         /\ \A c \in Cells : Winding(S, c) \in {w, w - 1} /\ Winding(T, c) \in {v, v - 1}
         /\ Winding(S, LeftOf(H, d)) = w /\ Winding(T, LeftOf(H, d)) = v - 1
         /\ Winding(S, LeftOf(H, -d)) = w - 1 /\ Winding(T, LeftOf(H, -d)) = v
<1>1. /\ Net(a, H, o2, nx2) /\ d \in DOMAIN nx2 /\ -d \in DOMAIN nx2 /\ -(-d) = d
      /\ -d \notin RingOf(nx2, d) /\ d \notin RingOf(nx2, -d)
  BY CutsFacts
<1>2. /\ S = RingOfSteps(H, nx2, d) /\ w = Winding(S, LeftOf(H, d))
      /\ T = RingOfSteps(H, nx2, -d) /\ v = Winding(T, LeftOf(H, -d))
  BY DEF Cuts
<1>3. /\ w \in {0, 1} /\ \A c \in Cells : Winding(S, c) \in {w, w - 1}
      /\ Winding(S, LeftOf(H, -d)) = w - 1 /\ Winding(S, Outer) = 0
  BY <1>1, <1>2, RingEncloses
<1>4. PICK dd \in DOMAIN nx2 : dd = -d  BY <1>1
<1>5. -dd = d /\ -dd \notin RingOf(nx2, dd) /\ T = RingOfSteps(H, nx2, dd) /\ v = Winding(T, LeftOf(H, dd))
  BY <1>1, <1>2, <1>4
<1>6. /\ v \in {0, 1} /\ \A c \in Cells : Winding(T, c) \in {v, v - 1}
      /\ Winding(T, LeftOf(H, -dd)) = v - 1 /\ Winding(T, Outer) = 0
  BY <1>1, <1>4, <1>5, RingEncloses
<1>7. Balanced(S) /\ Smooth(WallsOf(H), WindingOf(S))  BY <1>1, <1>2, RingWalls
<1>8. Smooth(WallsOf(H), WindingOf(T))  BY <1>1, <1>2, RingWalls
<1>9. QED  BY <1>2, <1>3, <1>4, <1>5, <1>6, <1>7, <1>8

\* A cell of the face lies as what is on the left of d, or as what is on its
\* right.
LEMMA CutsFace ==
  ASSUME NEW a, NEW G, NEW o, NEW nx, NEW H, NEW o2, NEW nx2, NEW e, NEW d, NEW S, NEW w, NEW T, NEW v,
         Cuts(a, G, o, nx, H, o2, nx2, e, d, S, w, T, v),
         NEW col, Finest(WallsOf(G), col),
         NEW k, Smooth(WallsOf(H), k), NEW c \in Cells, col[c] = col[LeftOf(H, d)]
  PROVE  \/ Winding(S, c) = w /\ Winding(T, c) = v - 1 /\ k[c] = k[LeftOf(H, d)]
         \/ Winding(S, c) = w - 1 /\ Winding(T, c) = v /\ k[c] = k[LeftOf(H, -d)]
<1>0. Grows(a, G, o, nx, H, o2, nx2, e)  BY DEF Cuts
<1>1. /\ d \in {e, -e} /\ LeftOf(H, d) \in Cells /\ LeftOf(H, -d) \in Cells /\ -(-d) = d
      /\ Grows(a, G, o, nx, H, o2, nx2, e) /\ -(-e) = e
  BY <1>0, CutsFacts, GrowsFacts DEF Cuts
<1>2. /\ Smooth(WallsOf(H), WindingOf(S)) /\ Smooth(WallsOf(H), WindingOf(T))
      /\ w \in {0, 1} /\ v \in {0, 1}
      /\ Winding(S, LeftOf(H, d)) = w /\ Winding(T, LeftOf(H, d)) = v - 1
      /\ Winding(S, LeftOf(H, -d)) = w - 1 /\ Winding(T, LeftOf(H, -d)) = v
  BY CutsWind
<1> DEFINE as(b, x) == k[x] = k[b] /\ Winding(S, x) = Winding(S, b) /\ Winding(T, x) = Winding(T, b)
           l == LeftOf(H, d)
           r == LeftOf(H, -d)
           j == [x \in Cells |-> IF as(l, x) \/ as(r, x) THEN 1 ELSE 0]
<1>3. Smooth(WallsOf(H), j)
  <2>1. SUFFICES ASSUME NEW s \in UnitSteps, {s[1], s[2]} \notin WallsOf(H)
                 PROVE  j[LeftCell(s)] = j[RightCell(s)]
    BY SmoothIntro
  <2>2. LeftCell(s) \in Cells /\ RightCell(s) \in Cells  BY StepCells
  <2>3. k[LeftCell(s)] = k[RightCell(s)]  BY <2>1, SmoothAcross
  <2>4. WindingOf(S)[LeftCell(s)] = WindingOf(S)[RightCell(s)]  BY <1>2, <2>1, SmoothAcross
  <2>5. WindingOf(T)[LeftCell(s)] = WindingOf(T)[RightCell(s)]  BY <1>2, <2>1, SmoothAcross
  <2>6. /\ Winding(S, LeftCell(s)) = Winding(S, RightCell(s))
        /\ Winding(T, LeftCell(s)) = Winding(T, RightCell(s))
    BY <2>2, <2>4, <2>5 DEF WindingOf
  <2>7. QED  BY <2>2, <2>3, <2>6
<1>4. j[l] = 1 /\ j[r] = 1  BY <1>1
<1>5. \A x \in Cells : j[x] = 1 => as(l, x) \/ as(r, x)  OBVIOUS
<1> HIDE DEF j
<1>6. Smooth(WallsOf(G), j)
  <2>1. j[LeftOf(H, e)] = j[LeftOf(H, -e)]  BY <1>1, <1>4
  <2>2. QED  BY <1>1, <1>3, <2>1, GrowsSmooth
<1>7. j[c] = j[l]  BY <1>1, <1>6 DEF Finest
<1>8. as(l, c) \/ as(r, c)  BY <1>4, <1>5, <1>7
<1>9. QED  BY <1>2, <1>8

\* Around the outer cell one of the rings winds, if that is in the face.
LEMMA CutsOuter ==
  ASSUME NEW a, NEW G, NEW o, NEW nx, NEW H, NEW o2, NEW nx2, NEW e, NEW d, NEW S, NEW w, NEW T, NEW v,
         Cuts(a, G, o, nx, H, o2, nx2, e, d, S, w, T, v),
         NEW col, Finest(WallsOf(G), col), col[Outer] = col[LeftOf(H, d)]
  PROVE  (w = 0 /\ v = 1) \/ (w = 1 /\ v = 0)
<1>1. /\ w \in {0, 1} /\ v \in {0, 1} /\ Winding(S, Outer) = 0 /\ Winding(T, Outer) = 0
      /\ Smooth(WallsOf(H), WindingOf(S))
  BY CutsWind
<1>2. Outer \in Cells  BY DEF Cells
<1>3. \/ Winding(S, Outer) = w /\ Winding(T, Outer) = v - 1
      \/ Winding(S, Outer) = w - 1 /\ Winding(T, Outer) = v
  BY <1>1, <1>2, CutsFace
<1>4. QED  BY <1>1, <1>3

\* Cells of one part of a face are of one region.
LEMMA CutsFinest ==
  ASSUME NEW a, NEW G, NEW o, NEW nx, NEW H, NEW o2, NEW nx2, NEW e, NEW d, NEW S, NEW w, NEW T, NEW v,
         Cuts(a, G, o, nx, H, o2, nx2, e, d, S, w, T, v),
         NEW col, Smooth(WallsOf(G), col), Finest(WallsOf(G), col),
         col[LeftOf(H, -d)] = col[LeftOf(H, d)],
         NEW k, Smooth(WallsOf(H), k), NEW b \in Cells, NEW c \in Cells, col[b] = col[c],
         col[b] = col[LeftOf(H, d)] => (Winding(S, b) = w <=> Winding(S, c) = w)
  PROVE  k[b] = k[c]
<1>0. Grows(a, G, o, nx, H, o2, nx2, e)  BY DEF Cuts
<1>1. /\ d \in {e, -e} /\ LeftOf(H, d) \in Cells /\ LeftOf(H, -d) \in Cells /\ -(-d) = d
      /\ Grows(a, G, o, nx, H, o2, nx2, e) /\ -(-e) = e
  BY <1>0, CutsFacts, GrowsFacts DEF Cuts
<1>2. CASE col[b] = col[LeftOf(H, d)]
  <2>1. \/ Winding(S, b) = w /\ Winding(T, b) = v - 1 /\ k[b] = k[LeftOf(H, d)]
        \/ Winding(S, b) = w - 1 /\ Winding(T, b) = v /\ k[b] = k[LeftOf(H, -d)]
    BY <1>2, CutsFace
  <2>2. col[c] = col[LeftOf(H, d)]  BY <1>2
  <2>3. \/ Winding(S, c) = w /\ Winding(T, c) = v - 1 /\ k[c] = k[LeftOf(H, d)]
        \/ Winding(S, c) = w - 1 /\ Winding(T, c) = v /\ k[c] = k[LeftOf(H, -d)]
    BY <2>2, CutsFace
  <2>4. w \in {0, 1}  BY CutsWind
  <2>5. QED  BY <1>2, <2>1, <2>3, <2>4
<1>3. CASE col[b] # col[LeftOf(H, d)]
  <2> DEFINE l == LeftOf(H, d)
             j == [x \in Cells |-> IF col[x] = col[l] THEN k[l] ELSE k[x]]
  <2>1. \A w1 : w1 \in WallsOf(G) => w1 \in WallsOf(H)  BY <1>1, GrowsFacts
  <2>2. Smooth(WallsOf(H), col)  BY <2>1, MoreWalls
  <2>3. Smooth(WallsOf(H), j)
    <3>1. SUFFICES ASSUME NEW s \in UnitSteps, {s[1], s[2]} \notin WallsOf(H)
                   PROVE  j[LeftCell(s)] = j[RightCell(s)]
      BY SmoothIntro
    <3>2. LeftCell(s) \in Cells /\ RightCell(s) \in Cells  BY StepCells
    <3>3. k[LeftCell(s)] = k[RightCell(s)]  BY <3>1, SmoothAcross
    <3>4. col[LeftCell(s)] = col[RightCell(s)]  BY <2>2, <3>1, SmoothAcross
    <3>5. QED  BY <3>2, <3>3, <3>4
  <2>4. j[l] = k[l] /\ j[LeftOf(H, -d)] = k[l]  BY <1>1
  <2>5. j[b] = k[b] /\ j[c] = k[c]  BY <1>3
  <2> HIDE DEF j
  <2>6. Smooth(WallsOf(G), j)
    <3>1. j[LeftOf(H, e)] = j[LeftOf(H, -e)]  BY <1>1, <2>4
    <3>2. QED  BY <1>1, <2>3, <3>1, GrowsSmooth
  <2>7. j[b] = j[c]  BY <2>6 DEF Finest
  <2>8. QED  BY <2>5, <2>7
<1>4. QED  BY <1>2, <1>3

-----------------------------------------------------------------------------
(* The boxes of the parts of a face. *)

\* Point p is in the box b.
InBox(b, p) == b.xmin <= p[1] /\ p[1] <= b.xmax /\ b.ymin <= p[2] /\ p[2] <= b.ymax

\* Points that lie in one another's box have the same one.
LEMMA SameBox ==
  ASSUME NEW P \in SUBSET Vertices, P # {}, NEW Q \in SUBSET Vertices, Q # {},
         \A p \in P : InBox(BoxOf(Q), p), \A q \in Q : InBox(BoxOf(P), q)
  PROVE  BoxOf(P) = BoxOf(Q)
<1>1. PICK b, c : b = BoxOf(P) /\ c = BoxOf(Q)  OBVIOUS
<1>2. /\ b = [xmin |-> b.xmin, xmax |-> b.xmax, ymin |-> b.ymin, ymax |-> b.ymax]
      /\ b.xmin \in Nat /\ b.xmax \in Nat /\ b.ymin \in Nat /\ b.ymax \in Nat
      /\ \E p \in P : b.xmin = p[1]
      /\ \E p \in P : b.xmax = p[1]
      /\ \E p \in P : b.ymin = p[2]
      /\ \E p \in P : b.ymax = p[2]
  BY <1>1, BoxHolds
<1>3. /\ c = [xmin |-> c.xmin, xmax |-> c.xmax, ymin |-> c.ymin, ymax |-> c.ymax]
      /\ c.xmin \in Nat /\ c.xmax \in Nat /\ c.ymin \in Nat /\ c.ymax \in Nat
      /\ \E p \in Q : c.xmin = p[1]
      /\ \E p \in Q : c.xmax = p[1]
      /\ \E p \in Q : c.ymin = p[2]
      /\ \E p \in Q : c.ymax = p[2]
  BY <1>1, BoxHolds
<1>4. /\ \A p \in P : c.xmin <= p[1] /\ p[1] <= c.xmax /\ c.ymin <= p[2] /\ p[2] <= c.ymax
      /\ \A q \in Q : b.xmin <= q[1] /\ q[1] <= b.xmax /\ b.ymin <= q[2] /\ q[2] <= b.ymax
  BY <1>1 DEF InBox
<1>5. c.xmin <= b.xmin /\ b.xmax <= c.xmax /\ c.ymin <= b.ymin /\ b.ymax <= c.ymax
  BY <1>2, <1>4
<1>6. b.xmin <= c.xmin /\ c.xmax <= b.xmax /\ b.ymin <= c.ymin /\ c.ymax <= b.ymax
  BY <1>3, <1>4
<1>7. b.xmin = c.xmin /\ b.xmax = c.xmax /\ b.ymin = c.ymin /\ b.ymax = c.ymax
  BY <1>2, <1>3, <1>5, <1>6
<1>8. QED  BY <1>1, <1>2, <1>3, <1>7

\* A step lies in the box in which the cell on its left lies.
LEMMA StepInBox ==
  ASSUME NEW s \in UnitSteps, NEW c, c = LeftCell(s), c # Outer,
         NEW b, b.xmin \in Nat /\ b.xmax \in Nat /\ b.ymin \in Nat /\ b.ymax \in Nat,
         InBox(b, <<c[1], c[2]>>), InBox(b, <<c[1] + 1, c[2] + 1>>)
  PROVE  InBox(b, s[1]) /\ InBox(b, s[2])
<1>1. PICK x, y \in Int : \/ s = East(x, y) /\ x \in 0 .. Width - 1 /\ y \in 0 .. Height
                          \/ s = West(x, y) /\ x \in 0 .. Width - 1 /\ y \in 0 .. Height
                          \/ s = North(x, y) /\ x \in 0 .. Width /\ y \in 0 .. Height - 1
                          \/ s = South(x, y) /\ x \in 0 .. Width /\ y \in 0 .. Height - 1
  BY UnitCases
<1>2. ASSUME NEW u \in Int, NEW v \in Int, c = CellAt(u, v)
      PROVE  b.xmin <= u /\ u + 1 <= b.xmax /\ b.ymin <= v /\ v + 1 <= b.ymax
  <2>1. CellAt(u, v) = <<u, v>>  BY <1>2 DEF CellAt
  <2>2. c[1] = u /\ c[2] = v  BY <1>2, <2>1
  <2>3. QED  BY <2>2 DEF InBox
<1>3. /\ LeftCell(East(x, y)) = CellAt(x, y) /\ LeftCell(West(x, y)) = CellAt(x, y - 1)
      /\ LeftCell(North(x, y)) = CellAt(x - 1, y) /\ LeftCell(South(x, y)) = CellAt(x, y)
  BY EastStep, NorthStep
<1>4. x - 1 \in Int /\ y - 1 \in Int  OBVIOUS
<1>5. CASE s = East(x, y)
  <2>1. b.xmin <= x /\ x + 1 <= b.xmax /\ b.ymin <= y /\ y + 1 <= b.ymax  BY <1>2, <1>3, <1>5
  <2>2. s[1] = <<x, y>> /\ s[2] = <<x + 1, y>>  BY <1>5 DEF East
  <2>3. QED  BY <2>1, <2>2 DEF InBox
<1>6. CASE s = West(x, y)
  <2>1. b.xmin <= x /\ x + 1 <= b.xmax /\ b.ymin <= y - 1 /\ y - 1 + 1 <= b.ymax
    BY <1>2, <1>3, <1>4, <1>6
  <2>2. s[1] = <<x + 1, y>> /\ s[2] = <<x, y>>  BY <1>6 DEF West
  <2>3. QED  BY <2>1, <2>2 DEF InBox
<1>7. CASE s = North(x, y)
  <2>1. b.xmin <= x - 1 /\ x - 1 + 1 <= b.xmax /\ b.ymin <= y /\ y + 1 <= b.ymax
    BY <1>2, <1>3, <1>4, <1>7
  <2>2. s[1] = <<x, y>> /\ s[2] = <<x, y + 1>>  BY <1>7 DEF North
  <2>3. QED  BY <2>1, <2>2 DEF InBox
<1>8. CASE s = South(x, y)
  <2>1. b.xmin <= x /\ x + 1 <= b.xmax /\ b.ymin <= y /\ y + 1 <= b.ymax  BY <1>2, <1>3, <1>8
  <2>2. s[1] = <<x, y + 1>> /\ s[2] = <<x, y>>  BY <1>8 DEF South
  <2>3. QED  BY <2>1, <2>2 DEF InBox
<1>9. QED  BY <1>1, <1>5, <1>6, <1>7, <1>8

\* A cell around which a ring winds lies in the box of the ring.
LEMMA CellInBox ==
  ASSUME NEW S, Balanced(S), NEW c \in Cells, c # Outer, Winding(S, c) # 0, NEW b, b = StepsBox(S)
  PROVE  InBox(b, <<c[1], c[2]>>) /\ InBox(b, <<c[1] + 1, c[2] + 1>>)
<1>1. PICK x \in 0 .. Width - 1, y \in 0 .. Height - 1 : c = <<x, y>>  BY DEF Cells
<1>2. x \in Int /\ y \in Int /\ x >= -1  BY <1>1
<1>3. CellAt(x, y) = c  BY <1>1 DEF CellAt
<1>4. Winding(S, CellAt(x, y)) = Wind(S, x, y)  BY <1>2, WindCell
<1>5. Wind(S, x, y) # 0  BY <1>3, <1>4
<1>6. S # {} /\ b.xmin <= x /\ x + 1 <= b.xmax /\ b.ymin <= y /\ y + 1 <= b.ymax
  BY <1>2, <1>5, Boxed
<1>7. S \in SUBSET UnitSteps  BY DEF Balanced
<1>8. b.xmin \in Nat /\ b.xmax \in Nat /\ b.ymin \in Nat /\ b.ymax \in Nat
  BY <1>6, <1>7, StepsBoxHolds
<1>9. QED  BY <1>1, <1>2, <1>6, <1>8 DEF InBox

\* The box of cells P that lie on the left of all steps of a ring is that of the
\* ring, or does not grow with cells around which the ring winds.
LEMMA PartBox ==
  ASSUME NEW S, Balanced(S), NEW P \in SUBSET Cells, Outer \notin P, P # {},
         \A s \in S : LeftCell(s) \in P
  PROVE  /\ (\A c \in P : Winding(S, c) # 0) => RegionBox(P) = StepsBox(S)
         /\ \A Q \in SUBSET Cells : /\ Outer \notin Q /\ P \subseteq Q
                                    /\ \A c \in Q \ P : Winding(S, c) # 0
                                    => RegionBox(Q) = RegionBox(P)
<1>1. /\ Corners(P) \in SUBSET Vertices /\ Corners(P) # {} /\ RegionBox(P) = BoxOf(Corners(P))
  BY CornersIn
<1>2. PICK b : b = BoxOf(Corners(P))  OBVIOUS
<1>3. /\ b.xmin \in Nat /\ b.xmax \in Nat /\ b.ymin \in Nat /\ b.ymax \in Nat
      /\ \A p \in Corners(P) : InBox(b, p)
  BY <1>1, <1>2, BoxHolds DEF InBox
<1>4. ASSUME NEW c \in P  PROVE InBox(b, <<c[1], c[2]>>) /\ InBox(b, <<c[1] + 1, c[2] + 1>>)
  <2>1. <<c[1], c[2]>> \in Corners(P) /\ <<c[1] + 1, c[2] + 1>> \in Corners(P)
    BY <1>4 DEF Corners
  <2>2. QED  BY <1>3, <2>1
<1>5. S \in SUBSET UnitSteps  BY DEF Balanced
<1>6. ASSUME NEW s \in S  PROVE InBox(b, s[1]) /\ InBox(b, s[2])
  <2>1. PICK c : c = LeftCell(s)  OBVIOUS
  <2>2. c \in P /\ c # Outer  BY <1>6, <2>1
  <2>3. InBox(b, <<c[1], c[2]>>) /\ InBox(b, <<c[1] + 1, c[2] + 1>>)  BY <1>4, <2>2
  <2>4. s \in UnitSteps  BY <1>5, <1>6
  <2>5. QED  BY <1>3, <2>1, <2>2, <2>3, <2>4, StepInBox
<1>7. \A p \in StepPoints(S) : InBox(b, p)  BY <1>6 DEF StepPoints
<1>8. PICK e : e = StepsBox(S)  OBVIOUS
<1>9. ASSUME S # {}
      PROVE  /\ e.xmin \in Nat /\ e.xmax \in Nat /\ e.ymin \in Nat /\ e.ymax \in Nat
             /\ e = BoxOf(StepPoints(S)) /\ StepPoints(S) \in SUBSET Vertices /\ StepPoints(S) # {}
  BY <1>5, <1>8, <1>9, StepsBoxHolds
<1>10. ASSUME \A c \in P : Winding(S, c) # 0  PROVE RegionBox(P) = StepsBox(S)
  <2>1. S # {}
    <3>1. PICK c \in P : TRUE  OBVIOUS
    <3>2. c \in Cells /\ c # Outer /\ Winding(S, c) # 0  BY <1>10
    <3>3. PICK x \in 0 .. Width - 1, y \in 0 .. Height - 1 : c = <<x, y>>  BY <3>2 DEF Cells
    <3>4. x \in Int /\ y \in Int /\ x >= -1 /\ CellAt(x, y) = c  BY <3>3 DEF CellAt, Cells
    <3>5. Winding(S, CellAt(x, y)) = Wind(S, x, y)  BY <3>4, WindCell
    <3>6. Wind(S, x, y) # 0  BY <3>2, <3>4, <3>5
    <3>7. QED  BY <1>8, <3>4, <3>6, Boxed
  <2>2. \A p \in Corners(P) : InBox(e, p)
    <3>1. SUFFICES ASSUME NEW p \in Corners(P)  PROVE InBox(e, p)  OBVIOUS
    <3>2. PICK c \in P : p = <<c[1], c[2]>> \/ p = <<c[1] + 1, c[2] + 1>>  BY <3>1 DEF Corners
    <3>3. c \in Cells /\ c # Outer /\ Winding(S, c) # 0  BY <1>10, <3>2
    <3>4. QED  BY <1>8, <3>2, <3>3, CellInBox
  <2>3. PICK A, B : A = Corners(P) /\ B = StepPoints(S)  OBVIOUS
  <2>4. /\ A \in SUBSET Vertices /\ A # {} /\ B \in SUBSET Vertices /\ B # {}
        /\ b = BoxOf(A) /\ e = BoxOf(B)
        /\ \A p \in A : InBox(BoxOf(B), p)
        /\ \A p \in B : InBox(BoxOf(A), p)
    BY <1>1, <1>2, <1>7, <1>9, <2>1, <2>2, <2>3
  <2>5. BoxOf(A) = BoxOf(B)  BY <2>4, SameBox
  <2>6. QED  BY <1>1, <1>2, <1>8, <2>4, <2>5
<1>11. ASSUME NEW Q \in SUBSET Cells, Outer \notin Q, P \subseteq Q, \A c \in Q \ P : Winding(S, c) # 0
       PROVE  RegionBox(Q) = RegionBox(P)
  <2>1. Q # {}  BY <1>11
  <2>2. Corners(Q) \in SUBSET Vertices /\ Corners(Q) # {} /\ RegionBox(Q) = BoxOf(Corners(Q))
    BY <1>11, <2>1, CornersIn
  <2>3. Corners(P) \subseteq Corners(Q)  BY <1>11 DEF Corners
  <2>4. \A p \in Corners(Q) : InBox(b, p)
    <3>1. SUFFICES ASSUME NEW p \in Corners(Q)  PROVE InBox(b, p)  OBVIOUS
    <3>2. PICK c \in Q : p = <<c[1], c[2]>> \/ p = <<c[1] + 1, c[2] + 1>>  BY <3>1 DEF Corners
    <3>3. CASE c \in P  BY <1>4, <3>2, <3>3
    <3>4. CASE c \notin P
      <4>1. c \in Cells /\ c # Outer /\ Winding(S, c) # 0  BY <1>11, <3>2, <3>4
      <4>2. InBox(e, <<c[1], c[2]>>) /\ InBox(e, <<c[1] + 1, c[2] + 1>>)
        BY <1>8, <4>1, CellInBox
      <4>3. S # {}
        <5>1. PICK x \in 0 .. Width - 1, y \in 0 .. Height - 1 : c = <<x, y>>  BY <4>1 DEF Cells
        <5>2. x \in Int /\ y \in Int /\ x >= -1 /\ CellAt(x, y) = c  BY <5>1 DEF CellAt, Cells
        <5>3. Winding(S, CellAt(x, y)) = Wind(S, x, y)  BY <5>2, WindCell
        <5>4. Wind(S, x, y) # 0  BY <4>1, <5>2, <5>3
        <5>5. QED  BY <1>8, <5>2, <5>4, Boxed
      <4>4. /\ b.xmin <= e.xmin /\ e.xmax <= b.xmax /\ b.ymin <= e.ymin /\ e.ymax <= b.ymax
            /\ e.xmin \in Nat /\ e.xmax \in Nat /\ e.ymin \in Nat /\ e.ymax \in Nat
        <5>1. PICK B : B = StepPoints(S)  OBVIOUS
        <5>2. B \in SUBSET Vertices /\ B # {} /\ e = BoxOf(B)  BY <1>9, <4>3, <5>1
        <5>3. /\ e.xmin \in Nat /\ e.xmax \in Nat /\ e.ymin \in Nat /\ e.ymax \in Nat
              /\ \E q \in B : e.xmin = q[1]
              /\ \E q \in B : e.xmax = q[1]
              /\ \E q \in B : e.ymin = q[2]
              /\ \E q \in B : e.ymax = q[2]
          BY <5>2, BoxHolds
        <5>4. \A q \in B : b.xmin <= q[1] /\ q[1] <= b.xmax /\ b.ymin <= q[2] /\ q[2] <= b.ymax
          BY <1>7, <5>1 DEF InBox
        <5>5. QED  BY <5>3, <5>4
      <4>5. PICK x, y \in Int : c = <<x, y>>  BY <4>1 DEF Cells
      <4>6. p[1] \in Int /\ p[2] \in Int  BY <3>2, <4>5
      <4>7. InBox(e, p)  BY <3>2, <4>2
      <4>8. QED  BY <1>3, <4>4, <4>6, <4>7 DEF InBox
    <3>5. QED  BY <3>3, <3>4
  <2>5. PICK A, B : A = Corners(P) /\ B = Corners(Q)  OBVIOUS
  <2>6. /\ A \in SUBSET Vertices /\ A # {} /\ B \in SUBSET Vertices /\ B # {}
        /\ A \subseteq B /\ b = BoxOf(A)
        /\ \A p \in B : InBox(BoxOf(A), p)
    BY <1>1, <1>2, <2>2, <2>3, <2>4, <2>5
  <2>7. \A p \in B : InBox(BoxOf(B), p)  BY <2>6, BoxHolds DEF InBox
  <2>8. \A p \in A : InBox(BoxOf(B), p)  BY <2>6, <2>7
  <2>9. BoxOf(A) = BoxOf(B)  BY <2>6, <2>8, SameBox
  <2>10. QED  BY <1>1, <2>2, <2>5, <2>9
<1>12. QED  BY <1>10, <1>11

-----------------------------------------------------------------------------
(* The parts of a face as faces. *)

\* Cells of face f around which ring S winds w times become face new.
SplitMap(S, w, f, new, col) ==
  [c \in Cells |-> IF col[c] = f /\ Winding(S, c) = w THEN new ELSE col[c]]

\* The box of the part inside a ring is that of the ring, of the one around it
\* that of the face.
LEMMA CutsBox ==
  ASSUME NEW a, NEW G, NEW o, NEW nx, NEW H, NEW o2, NEW nx2, NEW e, NEW d, NEW S, NEW w, NEW T, NEW v,
         Cuts(a, G, o, nx, H, o2, nx2, e, d, S, w, T, v),
         NEW col, Smooth(WallsOf(G), col), NEW f, col[LeftOf(H, d)] = f, col[Outer] = f => w = 1,
         NEW P, P = {c \in Cells : col[c] = f /\ Winding(S, c) = w}
  PROVE  /\ w = 1 => RegionBox(P) = StepsBox(S)
         /\ w = 0 => RegionBox(P) = RegionBox(Part(col, f))
<1>1. /\ Net(a, H, o2, nx2) /\ d \in DOMAIN nx2 /\ LeftOf(H, d) \in Cells
      /\ S = RingOfSteps(H, nx2, d) /\ Grows(a, G, o, nx, H, o2, nx2, e)
  <2>1. S = RingOfSteps(H, nx2, d) /\ Grows(a, G, o, nx, H, o2, nx2, e)  BY DEF Cuts
  <2>2. QED  BY <2>1, CutsFacts
<1>2. /\ w \in {0, 1} /\ Smooth(WallsOf(H), WindingOf(S)) /\ Balanced(S) /\ Winding(S, Outer) = 0
      /\ Winding(S, LeftOf(H, d)) = w
      /\ \A c \in Cells : Winding(S, c) \in {w, w - 1}
  BY CutsWind
<1>3. Smooth(WallsOf(H), col)
  <2>1. \A u : u \in WallsOf(G) => u \in WallsOf(H)  BY <1>1, GrowsFacts
  <2>2. QED  BY <2>1, MoreWalls
<1>4. LeftOf(H, d) \in P /\ P \in SUBSET Cells  BY <1>1, <1>2
<1>5. Outer \notin P  BY <1>2
<1>6. ASSUME NEW s \in S  PROVE LeftCell(s) \in P
  <2>1. PICK x \in RingOf(nx2, d) : \E i \in 1 .. Len(Path(H, x)) - 1 : s = StepOf(H, x, i)
    BY <1>1, <1>6, RingWalls
  <2>2. s \in Steps(Path(H, x))  BY <2>1, PathSteps DEF StepOf
  <2>3. x \in DOMAIN nx2 /\ col[LeftOf(H, x)] = col[LeftOf(H, d)]  BY <1>1, <1>3, RingSide
  <2>4. WindingOf(S)[LeftOf(H, x)] = WindingOf(S)[LeftOf(H, d)]  BY <1>1, <1>2, RingSide
  <2>5. LeftCell(s) \in Cells  BY <1>1, <2>2, <2>3, LeftIsCell
  <2>6. col[LeftCell(s)] = col[LeftOf(H, x)]  BY <1>1, <1>3, <2>2, <2>3, Sides
  <2>7. WindingOf(S)[LeftCell(s)] = WindingOf(S)[LeftOf(H, x)]  BY <1>1, <1>2, <2>2, <2>3, Sides
  <2>8. LeftOf(H, x) \in Cells  BY <1>1, <2>3, LeftIsCell
  <2>9. Winding(S, LeftCell(s)) = w  BY <1>1, <1>2, <2>4, <2>5, <2>7, <2>8 DEF WindingOf
  <2>10. QED  BY <2>3, <2>5, <2>6, <2>9
<1>7. ASSUME w = 1  PROVE RegionBox(P) = StepsBox(S)
  <2>1. \A c \in P : Winding(S, c) # 0  BY <1>7
  <2>2. QED  BY <1>2, <1>4, <1>5, <1>6, <2>1, PartBox
<1>8. ASSUME w = 0  PROVE RegionBox(P) = RegionBox(Part(col, f))
  <2>1. PICK Q : Q = Part(col, f)  OBVIOUS
  <2>2. Q \in SUBSET Cells /\ P \subseteq Q  BY <2>1 DEF Part
  <2>3. Outer \notin Q  BY <1>8, <2>1 DEF Part
  <2>4. \A c \in Q \ P : Winding(S, c) # 0  BY <1>2, <1>8, <2>1 DEF Part
  <2>5. RegionBox(Q) = RegionBox(P)  BY <1>2, <1>4, <1>5, <1>6, <2>2, <2>3, <2>4, PartBox
  <2>6. QED  BY <2>1, <2>5
<1>9. QED  BY <1>7, <1>8

\* Nodes that stay isolated are in face new if they are in f and ring S winds
\* around them w times.
NodesSplit(a, in, o2, nx2, S, w, f, new, in2) ==
  \A n \in DOMAIN a : in2[n] # None =>
    /\ in[n] # None /\ \A x \in DOMAIN nx2 : o2[x] # n
    /\ in2[n] = IF in[n] = f /\ Winding(S, a[n]) = w THEN new ELSE in[n]

\* Face new has been split off face f, with the other ring T.
FacesSplit(F, S, w, T, v, f, new, F2) ==
  /\ new \notin DOMAIN F /\ DOMAIN F2 = DOMAIN F \cup {new}
  /\ F2[new] = IF w = 0 THEN F[f] ELSE StepsBox(S)
  /\ f # Universe => F2[f] = IF v = 0 THEN F[f] ELSE StepsBox(T)
  /\ \A g \in DOMAIN F \ {f} : F2[g] = F[g]

\* Sides are the faces of what is on the left of the darts.
SidesAre(H, nx, col, s) == \A x \in DOMAIN nx : s[x] = col[LeftOf(H, x)]

\* The tables after face f is cut by the ring of d, whose part gets face new.
FaceCut(a, H, o2, nx2, d, S, w, T, v, in, F, col, f, new, in2, F2, col2, s2) ==
  /\ col[LeftOf(H, d)] = f /\ col[LeftOf(H, -d)] = f /\ (f = Universe => w = 1)
  /\ FacesSplit(F, S, w, T, v, f, new, F2)
  /\ NodesSplit(a, in, o2, nx2, S, w, f, new, in2)
  /\ col2 = SplitMap(S, w, f, new, col)
  /\ SidesAre(H, nx2, col2, s2)

\* They have a map, in which that part has the new colour.
LEMMA AddedSplit ==
  ASSUME NEW a, NEW G, NEW o, NEW nx, NEW H, NEW o2, NEW nx2, NEW e, NEW d, NEW S, NEW w, NEW T, NEW v,
         Cuts(a, G, o, nx, H, o2, nx2, e, d, S, w, T, v),
         NEW in, NEW s, NEW F, NEW col, FaceMap(a, in, G, DOMAIN nx, s, F, col),
         NEW f, NEW new, NEW F2, NEW in2, NEW col2, NEW s2,
         FaceCut(a, H, o2, nx2, d, S, w, T, v, in, F, col, f, new, in2, F2, col2, s2)
  PROVE  FaceMap(a, in2, H, DOMAIN nx2, s2, F2, col2)
<1>1. /\ Net(a, H, o2, nx2) /\ d \in DOMAIN nx2 /\ -d \in DOMAIN nx2 /\ -(-d) = d
      /\ -d \notin RingOf(nx2, d) /\ LeftOf(H, d) \in Cells /\ LeftOf(H, -d) \in Cells
      /\ S = RingOfSteps(H, nx2, d) /\ w = Winding(S, LeftOf(H, d))
      /\ Grows(a, G, o, nx, H, o2, nx2, e)
      /\ Cuts(a, G, o, nx, H, o2, nx2, e, -d, T, v, S, w)
  BY CutsFacts DEF Cuts
<1>0. /\ col[LeftOf(H, d)] = f /\ col[LeftOf(H, -d)] = f /\ (f = Universe => w = 1)
      /\ FacesSplit(F, S, w, T, v, f, new, F2)
      /\ NodesSplit(a, in, o2, nx2, S, w, f, new, in2)
      /\ col2 = SplitMap(S, w, f, new, col)
      /\ SidesAre(H, nx2, col2, s2)
  BY DEF FaceCut
<1>2. /\ w \in {0, 1} /\ v \in {0, 1} /\ Smooth(WallsOf(H), WindingOf(S))
      /\ Winding(S, Outer) = 0 /\ \A c \in Cells : Winding(S, c) \in {w, w - 1}
      /\ Winding(S, LeftOf(H, d)) = w /\ Winding(S, LeftOf(H, -d)) = w - 1
  BY CutsWind
<1>3. /\ col \in [Cells -> DOMAIN F] /\ \A g \in DOMAIN F : \E c \in Cells : col[c] = g
      /\ Smooth(WallsOf(G), col) /\ Finest(WallsOf(G), col)
      /\ col[Outer] = Universe
      /\ \A n \in DOMAIN a : in[n] # None => in[n] = col[CellAt(a[n][1], a[n][2])]
      /\ \A g \in DOMAIN F \ {Universe} : F[g] = RegionBox(Part(col, g))
  BY DEF FaceMap
<1>4. /\ new \notin DOMAIN F /\ DOMAIN F2 = DOMAIN F \cup {new}
      /\ F2[new] = IF w = 0 THEN F[f] ELSE StepsBox(S)
      /\ f # Universe => F2[f] = IF v = 0 THEN F[f] ELSE StepsBox(T)
      /\ \A g \in DOMAIN F \ {f} : F2[g] = F[g]
  BY <1>0 DEF FacesSplit
<1>5. Outer \in Cells /\ Universe \in DOMAIN F /\ f \in DOMAIN F
  <2>1. Outer \in Cells  BY DEF Cells
  <2>2. QED  BY <1>0, <1>1, <1>3, <2>1
<1>6. \A c \in Cells : col2[c] = IF col[c] = f /\ Winding(S, c) = w THEN new ELSE col[c]
  BY <1>0 DEF SplitMap
<1>7. /\ \A c \in Cells : col[c] \in DOMAIN F /\ col[c] # new
      /\ \A c \in Cells : col2[c] = new <=> col[c] = f /\ Winding(S, c) = w
  BY <1>3, <1>4, <1>6
<1>8. col2 \in [Cells -> DOMAIN F2]  BY <1>0, <1>4, <1>7 DEF SplitMap
<1>9. ASSUME NEW g \in DOMAIN F2  PROVE \E c \in Cells : col2[c] = g
  <2>1. CASE g = new  BY <1>0, <1>1, <1>2, <1>6, <2>1
  <2>2. CASE g = f
    <3>1. Winding(S, LeftOf(H, -d)) # w  BY <1>2
    <3>2. col2[LeftOf(H, -d)] = f  BY <1>0, <1>1, <1>6, <3>1
    <3>3. QED  BY <1>1, <2>2, <3>2
  <2>3. CASE g # new /\ g # f
    <3>1. PICK c \in Cells : col[c] = g  BY <1>3, <1>4, <2>3
    <3>2. QED  BY <1>6, <2>3, <3>1
  <2>4. QED  BY <2>1, <2>2, <2>3
<1>10. Smooth(WallsOf(H), col)
  <2>1. \A u : u \in WallsOf(G) => u \in WallsOf(H)  BY <1>1, GrowsFacts
  <2>2. QED  BY <1>3, <2>1, MoreWalls
<1>11. Smooth(WallsOf(H), col2)
  <2>1. SUFFICES ASSUME NEW t \in UnitSteps, {t[1], t[2]} \notin WallsOf(H)
                 PROVE  col2[LeftCell(t)] = col2[RightCell(t)]
    BY SmoothIntro
  <2>2. LeftCell(t) \in Cells /\ RightCell(t) \in Cells  BY StepCells
  <2>3. col[LeftCell(t)] = col[RightCell(t)]  BY <1>10, <2>1, SmoothAcross
  <2>4. WindingOf(S)[LeftCell(t)] = WindingOf(S)[RightCell(t)]  BY <1>2, <2>1, SmoothAcross
  <2>5. Winding(S, LeftCell(t)) = Winding(S, RightCell(t))  BY <2>2, <2>4 DEF WindingOf
  <2>6. QED  BY <1>6, <2>2, <2>3, <2>5
<1>12. Finest(WallsOf(H), col2)
  <2>1. SUFFICES ASSUME NEW k, Smooth(WallsOf(H), k), NEW b \in Cells, NEW c \in Cells, col2[b] = col2[c]
                 PROVE  k[b] = k[c]
    BY DEF Finest
  <2>2. col[b] = col[c] /\ (col[b] = f => (Winding(S, b) = w <=> Winding(S, c) = w))
    BY <1>6, <1>7, <2>1
  <2>3. QED  BY <1>0, <1>3, <2>1, <2>2, CutsFinest
<1>13. col2[Outer] = Universe
  <2>1. ~(col[Outer] = f /\ Winding(S, Outer) = w)  BY <1>0, <1>2, <1>3
  <2>2. QED  BY <1>3, <1>5, <1>6, <2>1
<1>14. ASSUME NEW n \in DOMAIN a, in2[n] # None  PROVE in2[n] = col2[CellAt(a[n][1], a[n][2])]
  <2>1. /\ in[n] # None /\ \A x \in DOMAIN nx2 : o2[x] # n
        /\ in2[n] = IF in[n] = f /\ Winding(S, a[n]) = w THEN new ELSE in[n]
    BY <1>0, <1>14 DEF NodesSplit
  <2>2. Winding(S, a[n]) = Winding(S, CellAt(a[n][1], a[n][2]))
    <3>1. PICK b : b = StepsBox(S)  OBVIOUS
    <3>2. n \in DOMAIN a /\ \A x \in DOMAIN nx2 : o2[x] # n  BY <2>1, <1>14
    <3>3. /\ Winding(S, a[n]) = Winding(S, CellAt(a[n][1], a[n][2]))
          /\ Winding(S, a[n]) \in {w, w - 1}
          /\ ptarray_contains_point(S, a[n]) <=> Winding(S, a[n]) # 0
          /\ ptarray_contains_point(S, a[n]) \in BOOLEAN
          /\ Winding(S, a[n]) # 0 => BoxesOverlap(BoxOf({a[n]}), b)
      BY <1>1, <3>1, <3>2, NodeInside
    <3>4. QED  BY <3>3
  <2>3. a[n] \in Vertices  BY <1>1, NetFacts
  <2>4. CellAt(a[n][1], a[n][2]) \in Cells  BY <2>3, NodeCell
  <2>5. in[n] = col[CellAt(a[n][1], a[n][2])]  BY <1>3, <2>1
  <2>6. QED  BY <1>6, <2>1, <2>2, <2>4, <2>5
<1>15. ASSUME NEW g \in DOMAIN F2, g # Universe  PROVE F2[g] = RegionBox(Part(col2, g))
  <2>1. CASE g = new
    <3>1. PICK P : P = {c \in Cells : col[c] = f /\ Winding(S, c) = w}  OBVIOUS
    <3>2. Part(col2, g) = P  BY <1>7, <2>1, <3>1 DEF Part
    <3>3. col[Outer] = f => w = 1  BY <1>0, <1>3
    <3>4. /\ w = 1 => RegionBox(P) = StepsBox(S)
          /\ w = 0 => RegionBox(P) = RegionBox(Part(col, f))
      BY <1>0, <1>3, <3>1, <3>3, CutsBox
    <3>5. w = 0 => F[f] = RegionBox(Part(col, f))  BY <1>0, <1>3, <1>5
    <3>6. QED  BY <1>2, <1>4, <2>1, <3>2, <3>4, <3>5
  <2>2. CASE g = f
    <3>1. PICK P : P = {c \in Cells : col[c] = f /\ Winding(T, c) = v}  OBVIOUS
    <3>2. Part(col2, g) = P
      <4>1. ASSUME NEW c \in Cells, col[c] = f  PROVE Winding(T, c) = v <=> Winding(S, c) # w
        <5>1. \/ Winding(S, c) = w /\ Winding(T, c) = v - 1
              \/ Winding(S, c) = w - 1 /\ Winding(T, c) = v
          BY <1>0, <1>2, <1>3, <4>1, CutsFace
        <5>2. QED  BY <1>2, <5>1
      <4>2. \A c \in Cells : col2[c] = f <=> col[c] = f /\ Winding(S, c) # w  BY <1>5, <1>4, <1>6
      <4>3. QED  BY <2>2, <3>1, <4>1, <4>2 DEF Part
    <3>3. PICK dd : dd = -d  OBVIOUS
    <3>4. Cuts(a, G, o, nx, H, o2, nx2, e, dd, T, v, S, w) /\ col[LeftOf(H, dd)] = f
      BY <1>0, <1>1, <3>3
    <3>5. col[Outer] = f => v = 1  BY <1>3, <1>15, <2>2
    <3>6. /\ v = 1 => RegionBox(P) = StepsBox(T)
          /\ v = 0 => RegionBox(P) = RegionBox(Part(col, f))
      BY <1>3, <3>1, <3>4, <3>5, CutsBox
    <3>7. F[f] = RegionBox(Part(col, f))  BY <1>3, <1>5, <1>15, <2>2
    <3>8. QED  BY <1>2, <1>4, <1>15, <2>2, <3>2, <3>6, <3>7
  <2>3. CASE g # new /\ g # f
    <3>1. Part(col2, g) = Part(col, g)  BY <1>6, <2>3 DEF Part
    <3>2. g \in DOMAIN F \ {Universe}  BY <1>4, <1>15, <2>3
    <3>3. QED  BY <1>3, <1>4, <2>3, <3>1, <3>2
  <2>4. QED  BY <2>1, <2>2, <2>3
<1>16. QED  BY <1>8, <1>9, <1>11, <1>12, <1>13, <1>14, <1>15, <1>0 DEF FaceMap, SidesAre

\* Face f takes the name new.
Renames(a, in, D, s, F, f, new, F2, s2, in2) ==
  /\ f \in DOMAIN F /\ f # Universe /\ new \notin DOMAIN F
  /\ DOMAIN F2 = (DOMAIN F \ {f}) \cup {new} /\ F2[new] = F[f]
  /\ \A g \in DOMAIN F \ {f} : F2[g] = F[g]
  /\ \A x \in D : s2[x] = IF s[x] = f THEN new ELSE s[x]
  /\ \A n \in DOMAIN a : in2[n] # None =>
       in[n] # None /\ in2[n] = IF in[n] = f THEN new ELSE in[n]

\* A face that gets another number has it in the map.
LEMMA Renamed ==
  ASSUME NEW a, NEW H, NEW o, NEW nx, Net(a, H, o, nx),
         NEW in, NEW s, NEW F, NEW col, FaceMap(a, in, H, DOMAIN nx, s, F, col),
         NEW f, NEW new, NEW F2, NEW s2, NEW in2, Renames(a, in, DOMAIN nx, s, F, f, new, F2, s2, in2)
  PROVE  FaceMap(a, in2, H, DOMAIN nx, s2, F2, [c \in Cells |-> IF col[c] = f THEN new ELSE col[c]])
<1> DEFINE D == DOMAIN nx
           col2 == [c \in Cells |-> IF col[c] = f THEN new ELSE col[c]]
<1>13. /\ f \in DOMAIN F /\ f # Universe /\ new \notin DOMAIN F
       /\ DOMAIN F2 = (DOMAIN F \ {f}) \cup {new} /\ F2[new] = F[f]
       /\ \A g \in DOMAIN F \ {f} : F2[g] = F[g]
       /\ \A x \in D : s2[x] = IF s[x] = f THEN new ELSE s[x]
       /\ \A n \in DOMAIN a : in2[n] # None =>
            in[n] # None /\ in2[n] = IF in[n] = f THEN new ELSE in[n]
  BY DEF Renames
<1>14. \A x \in D : LeftOf(H, x) \in Cells  BY LeftIsCell
<1>1. /\ col \in [Cells -> DOMAIN F] /\ \A g \in DOMAIN F : \E c \in Cells : col[c] = g
      /\ Smooth(WallsOf(H), col) /\ Finest(WallsOf(H), col)
      /\ col[Outer] = Universe
      /\ \A x \in D : s[x] = col[LeftOf(H, x)]
      /\ \A n \in DOMAIN a : in[n] # None => in[n] = col[CellAt(a[n][1], a[n][2])]
      /\ \A g \in DOMAIN F \ {Universe} : F[g] = RegionBox(Part(col, g))
  BY DEF FaceMap
<1>2. Outer \in Cells  BY DEF Cells
<1>3. \A c \in Cells : col[c] \in DOMAIN F /\ col2[c] = IF col[c] = f THEN new ELSE col[c]
  BY <1>1
<1>15. \A c \in Cells : col2[c] = new <=> col[c] = f  BY <1>3, <1>13
<1> HIDE DEF D
<1>4. col2 \in [Cells -> DOMAIN F2]  BY <1>3, <1>13
<1>5. \A g \in DOMAIN F2 : \E c \in Cells : col2[c] = g  BY <1>1, <1>3, <1>13
<1>6. Smooth(WallsOf(H), col2)
  <2>1. SUFFICES ASSUME NEW t \in UnitSteps, {t[1], t[2]} \notin WallsOf(H)
                 PROVE  col2[LeftCell(t)] = col2[RightCell(t)]
    BY SmoothIntro
  <2>2. LeftCell(t) \in Cells /\ RightCell(t) \in Cells  BY StepCells
  <2>3. col[LeftCell(t)] = col[RightCell(t)]  BY <1>1, <2>1, SmoothAcross
  <2>4. QED  BY <1>3, <2>2, <2>3
<1>7. Finest(WallsOf(H), col2)
  <2>1. \A b, c \in Cells : col2[b] = col2[c] => col[b] = col[c]  BY <1>3, <1>13
  <2>2. QED  BY <1>1, <2>1 DEF Finest
<1>8. col2[Outer] = Universe  BY <1>1, <1>2, <1>3, <1>13
<1>9. \A x \in D : s2[x] = col2[LeftOf(H, x)]  BY <1>1, <1>3, <1>13, <1>14
<1>10. ASSUME NEW n \in DOMAIN a, in2[n] # None  PROVE in2[n] = col2[CellAt(a[n][1], a[n][2])]
  <2>1. a[n] \in Vertices  BY NetFacts
  <2>2. CellAt(a[n][1], a[n][2]) \in Cells  BY <2>1, NodeCell
  <2>3. QED  BY <1>1, <1>3, <1>10, <1>13, <2>2
<1>11. ASSUME NEW g \in DOMAIN F2, g # Universe  PROVE F2[g] = RegionBox(Part(col2, g))
  <2>1. CASE g = new
    <3>1. Part(col2, g) = Part(col, f)  BY <1>15, <2>1 DEF Part
    <3>2. QED  BY <1>1, <1>13, <2>1, <3>1
  <2>2. CASE g # new
    <3>1. g \in DOMAIN F /\ g # f  BY <1>11, <1>13, <2>2
    <3>2. Part(col2, g) = Part(col, g)  BY <1>3, <2>2, <3>1 DEF Part
    <3>3. QED  BY <1>1, <1>11, <1>13, <3>1, <3>2
  <2>3. QED  BY <2>1, <2>2
<1> HIDE DEF col2
<1>16. FaceMap(a, in2, H, D, s2, F2, col2)  BY <1>4, <1>5, <1>6, <1>7, <1>8, <1>9, <1>10, <1>11 DEF FaceMap
<1>12. QED  BY <1>16 DEF D, col2

-----------------------------------------------------------------------------
(* What the splits make of the tables. *)

\* Tables t as they are when edge e, in face f of faces F, has been added but
\* nothing is split.
Before(t, H, o2, nx2, in, F, col) ==
  /\ t.face = F
  /\ DOMAIN t.side = DOMAIN nx2 /\ \A x \in DOMAIN nx2 : t.side[x] = col[LeftOf(H, x)]
  /\ \A n \in DOMAIN at : t.inface[n] # None =>
       t.inface[n] = in[n] /\ \A x \in DOMAIN nx2 : o2[x] # n

\* The first call of AddFaceSplit finds what it expects, ...
LEMMA ReadyFirst ==
  ASSUME NEW G, NEW o, NEW nx, NEW H, NEW o2, NEW nx2, NEW e, NEW d, NEW S, NEW w, NEW T, NEW v,
         Cuts(at, G, o, nx, H, o2, nx2, e, d, S, w, T, v),
         NEW col, Smooth(WallsOf(G), col), NEW f, f # None, col[LeftOf(H, d)] = f,
         NEW in, NEW F, NEW t, Before(t, H, o2, nx2, in, F, col)
  PROVE  Ready(t, o2, nx2, d, f)
<1>1. Net(at, H, o2, nx2) /\ d \in DOMAIN nx2  BY CutsFacts
<1>2. Grows(at, G, o, nx, H, o2, nx2, e)  BY DEF Cuts
<1>3. Smooth(WallsOf(H), col)
  <2>1. \A u : u \in WallsOf(G) => u \in WallsOf(H)  BY <1>2, GrowsFacts
  <2>2. QED  BY <2>1, MoreWalls
<1>4. ASSUME NEW x \in RingOf(nx2, d)  PROVE t.side[x] = f
  <2>1. x \in DOMAIN nx2 /\ col[LeftOf(H, x)] = col[LeftOf(H, d)]  BY <1>1, <1>3, RingSide
  <2>2. QED  BY <2>1 DEF Before
<1>5. QED  BY <1>4 DEF Before, Ready

\* ... and so does the second.
LEMMA ReadySecond ==
  ASSUME NEW G, NEW o, NEW nx, NEW H, NEW o2, NEW nx2, NEW e, NEW d, NEW S, NEW w, NEW T, NEW v,
         Cuts(at, G, o, nx, H, o2, nx2, e, d, S, w, T, v),
         NEW col, Smooth(WallsOf(G), col), NEW f, f # None, col[LeftOf(H, -d)] = f,
         NEW in, NEW F, NEW t, Before(t, H, o2, nx2, in, F, col),
         NEW new, new # f, NEW r, SplitOf(t, r, S, w, H, f, new)
  PROVE  Ready(r, o2, nx2, -d, f)
<1>1. /\ Net(at, H, o2, nx2) /\ -d \in DOMAIN nx2
      /\ Cuts(at, G, o, nx, H, o2, nx2, e, -d, T, v, S, w)
  BY CutsFacts
<1>2. PICK dd : dd = -d  OBVIOUS
<1>3. Ready(t, o2, nx2, dd, f)
  <2>1. Cuts(at, G, o, nx, H, o2, nx2, e, dd, T, v, S, w) /\ col[LeftOf(H, dd)] = f  BY <1>1, <1>2
  <2>2. QED  BY <2>1, ReadyFirst
<1>4. /\ r.side = [x \in DOMAIN t.side |->
                     IF t.side[x] = f /\ Winding(S, LeftOf(H, x)) = w THEN new ELSE t.side[x]]
      /\ r.inface = [n \in DOMAIN at |->
                       IF t.inface[n] = f /\ Winding(S, at[n]) = w THEN new ELSE t.inface[n]]
  BY DEF SplitOf
<1>5. w \in {0, 1} /\ Smooth(WallsOf(H), WindingOf(S)) /\ Winding(S, LeftOf(H, dd)) = w - 1
  BY <1>2, CutsWind
<1>6. ASSUME NEW x \in RingOf(nx2, dd)  PROVE r.side[x] = f
  <2>1. x \in DOMAIN nx2 /\ WindingOf(S)[LeftOf(H, x)] = WindingOf(S)[LeftOf(H, dd)]
    BY <1>1, <1>2, <1>5, RingSide
  <2>2. LeftOf(H, x) \in Cells /\ LeftOf(H, dd) \in Cells  BY <1>1, <1>2, <2>1, LeftIsCell
  <2>3. Winding(S, LeftOf(H, x)) # w  BY <1>5, <2>1, <2>2 DEF WindingOf
  <2>4. t.side[x] = f /\ x \in DOMAIN t.side  BY <1>3, <2>1 DEF Ready
  <2>5. QED  BY <1>4, <2>3, <2>4
<1>7. DOMAIN r.side = DOMAIN nx2  BY <1>3, <1>4 DEF Ready
<1>8. ASSUME NEW n \in DOMAIN at, r.inface[n] = f  PROVE \A x \in DOMAIN nx2 : o2[x] # n
  <2>1. t.inface[n] = f  BY <1>4, <1>8
  <2>2. QED  BY <1>3, <2>1 DEF Ready
<1>9. QED  BY <1>2, <1>6, <1>7, <1>8 DEF Ready

\* How the faces of the tables are those of cells after one split.
\* Face f is all around the new edge, whose darts are d and -d.
Around(t, G, nx, H, o2, nx2, d, in, s, F, col, f) ==
  /\ FaceMap(at, in, G, DOMAIN nx, s, F, col)
  /\ Before(t, H, o2, nx2, in, F, col)
  /\ f \in DOMAIN F /\ f # None /\ DOMAIN F \subseteq 0 .. MaxFace
  /\ col[LeftOf(H, d)] = f /\ col[LeftOf(H, -d)] = f
  /\ t = [id |-> t.id, face |-> t.face, side |-> t.side, inface |-> t.inface]

\* The face that remains gets the box of the other ring.
Remains(F, r, T, v, f, F2) ==
  /\ DOMAIN F2 = DOMAIN r.face /\ \A g \in DOMAIN F2 \ {f} : F2[g] = r.face[g]
  /\ F2[f] = IF f = Universe \/ v = 0 THEN F[f] ELSE StepsBox(T)

\* A split of one part leaves the map with that part recoloured.
LEMMA SplitMapped ==
  ASSUME NEW G, NEW o, NEW nx, NEW H, NEW o2, NEW nx2, NEW e, NEW d, NEW S, NEW w, NEW T, NEW v,
         Cuts(at, G, o, nx, H, o2, nx2, e, d, S, w, T, v),
         NEW t, NEW in, NEW s, NEW F, NEW col, NEW f,
         Around(t, G, nx, H, o2, nx2, d, in, s, F, col, f), f = Universe => w = 1,
         NEW new, new \notin DOMAIN F, NEW r, SplitOf(t, r, S, w, H, f, new),
         NEW F2, Remains(F, r, T, v, f, F2)
  PROVE  FaceMap(at, r.inface, H, DOMAIN nx2, r.side, F2, SplitMap(S, w, f, new, col))
<1>0. /\ FaceMap(at, in, G, DOMAIN nx, s, F, col)
      /\ Before(t, H, o2, nx2, in, F, col)
      /\ f \in DOMAIN F /\ f # None /\ DOMAIN F \subseteq 0 .. MaxFace
      /\ col[LeftOf(H, d)] = f /\ col[LeftOf(H, -d)] = f
  BY DEF Around
<1>13. /\ DOMAIN F2 = DOMAIN r.face /\ \A g \in DOMAIN F2 \ {f} : F2[g] = r.face[g]
       /\ F2[f] = IF f = Universe \/ v = 0 THEN F[f] ELSE StepsBox(T)
  BY DEF Remains
<1>1. /\ r.face = WithEdge(F, new, IF w = 0 THEN F[f] ELSE StepsBox(S))
      /\ r.side = [x \in DOMAIN nx2 |->
                     IF t.side[x] = f /\ Winding(S, LeftOf(H, x)) = w THEN new ELSE t.side[x]]
      /\ r.inface = [n \in DOMAIN at |->
                       IF t.inface[n] = f /\ Winding(S, at[n]) = w THEN new ELSE t.inface[n]]
  BY <1>0 DEF SplitOf, Before
<1>2. /\ DOMAIN r.face = DOMAIN F \cup {new}
      /\ r.face[new] = IF w = 0 THEN F[f] ELSE StepsBox(S)
      /\ \A g \in DOMAIN F : r.face[g] = F[g]
  BY <1>1 DEF WithEdge
<1>3. new # f  BY <1>0
<1>4. FacesSplit(F, S, w, T, v, f, new, F2)
  <2>1. DOMAIN F2 = DOMAIN F \cup {new}  BY <1>13, <1>2
  <2>2. F2[new] = IF w = 0 THEN F[f] ELSE StepsBox(S)  BY <1>0, <1>13, <1>2, <1>3
  <2>3. f # Universe => F2[f] = IF v = 0 THEN F[f] ELSE StepsBox(T)  BY <1>13
  <2>4. \A g \in DOMAIN F \ {f} : F2[g] = F[g]  BY <1>13, <1>2
  <2>5. QED  BY <2>1, <2>2, <2>3, <2>4 DEF FacesSplit
<1>5. PICK in2, s2, col2 : in2 = r.inface /\ s2 = r.side /\ col2 = SplitMap(S, w, f, new, col)
  OBVIOUS
<1>6. NodesSplit(at, in, o2, nx2, S, w, f, new, in2)
  <2>1. SUFFICES ASSUME NEW n \in DOMAIN at, in2[n] # None
                 PROVE  /\ in[n] # None /\ \A x \in DOMAIN nx2 : o2[x] # n
                        /\ in2[n] = IF in[n] = f /\ Winding(S, at[n]) = w THEN new ELSE in[n]
    BY DEF NodesSplit
  <2>2. in2[n] = IF t.inface[n] = f /\ Winding(S, at[n]) = w THEN new ELSE t.inface[n]
    BY <1>1, <1>5, <2>1
  <2>3. t.inface[n] # None  BY <1>0, <2>1, <2>2
  <2>4. t.inface[n] = in[n] /\ \A x \in DOMAIN nx2 : o2[x] # n  BY <1>0, <2>3 DEF Before
  <2>5. QED  BY <2>2, <2>3, <2>4
<1>7. SidesAre(H, nx2, col2, s2)
  <2>1. SUFFICES ASSUME NEW x \in DOMAIN nx2  PROVE s2[x] = col2[LeftOf(H, x)]
    BY DEF SidesAre
  <2>2. LeftOf(H, x) \in Cells
    <3>1. Net(at, H, o2, nx2)  BY CutsFacts
    <3>2. QED  BY <3>1, LeftIsCell
  <2>3. t.side[x] = col[LeftOf(H, x)]  BY <1>0 DEF Before
  <2>4. QED  BY <1>1, <1>5, <2>2, <2>3 DEF SplitMap
<1>10. col[LeftOf(H, d)] = f /\ col[LeftOf(H, -d)] = f /\ (f = Universe => w = 1)  BY <1>0
<1>11. col2 = SplitMap(S, w, f, new, col)  BY <1>5
<1>8. FaceCut(at, H, o2, nx2, d, S, w, T, v, in, F, col, f, new, in2, F2, col2, s2)
  BY <1>4, <1>6, <1>7, <1>10, <1>11 DEF FaceCut
<1>12. FaceMap(at, in2, H, DOMAIN nx2, s2, F2, col2)  BY <1>0, <1>8, AddedSplit
<1>9. QED  BY <1>5, <1>12

-----------------------------------------------------------------------------
(* Both splits of a face. *)

\* The same, seen from the other side of the edge.
LEMMA AroundBack ==
  ASSUME NEW t, NEW G, NEW nx, NEW H, NEW o2, NEW nx2, NEW e, NEW in, NEW s, NEW F, NEW col, NEW f,
         Around(t, G, nx, H, o2, nx2, e, in, s, F, col, f), e = -(-e)
  PROVE  Around(t, G, nx, H, o2, nx2, -e, in, s, F, col, f)
  BY DEF Around

\* What holds before the splits.
LEMMA AroundFacts ==
  ASSUME NEW t, NEW G, NEW nx, NEW H, NEW o2, NEW nx2, NEW e, NEW in, NEW s, NEW F, NEW col, NEW f,
         Around(t, G, nx, H, o2, nx2, e, in, s, F, col, f)
  PROVE  /\ FaceMap(at, in, G, DOMAIN nx, s, F, col)
         /\ Smooth(WallsOf(G), col) /\ Finest(WallsOf(G), col) /\ col[Outer] = Universe
         /\ Before(t, H, o2, nx2, in, F, col) /\ t.face = F
         /\ f \in DOMAIN F /\ f # None
         /\ col[LeftOf(H, e)] = f /\ col[LeftOf(H, -e)] = f
         /\ FreeFace(F) \in 1 .. MaxFace + 2 /\ FreeFace(F) \notin DOMAIN F
<1>1. DOMAIN F \subseteq 0 .. MaxFace  BY DEF Around
<1>2. Roomy(DOMAIN F)
  <2>1. MaxFace \in Nat  BY TopologyAssumption
  <2>2. MaxFace + 1 \in 1 .. MaxFace + 2 /\ MaxFace + 1 \notin 0 .. MaxFace  BY <2>1
  <2>3. QED  BY <1>1, <2>2 DEF Roomy
<1>3. FreeFace(F) \in 1 .. MaxFace + 2 /\ FreeFace(F) \notin DOMAIN F  BY <1>2, FreeFaceFree
<1>4. QED  BY <1>3 DEF Around, FaceMap, Before

\* The split that the ring of d calls for.
LEMMA FirstSplit ==
  ASSUME NEW G, NEW o, NEW nx, NEW H, NEW o2, NEW nx2, NEW e, NEW d, NEW S, NEW w, NEW T, NEW v,
         Cuts(at, G, o, nx, H, o2, nx2, e, d, S, w, T, v),
         NEW t, NEW in, NEW s, NEW F, NEW col, NEW f,
         Around(t, G, nx, H, o2, nx2, d, in, s, F, col, f),
         NEW mbr_only, NEW r, r = _lwt_AddFaceSplit(t, nx2, H, d, f, mbr_only)
  PROVE  SplitsTo(t, r, S, w, H, f, mbr_only)
<1>1. /\ Smooth(WallsOf(G), col) /\ Before(t, H, o2, nx2, in, F, col)
      /\ f # None /\ col[LeftOf(H, d)] = f
  BY AroundFacts
<1>2. Ready(t, o2, nx2, d, f)  BY <1>1, ReadyFirst
<1>3. Net(at, H, o2, nx2) /\ d \in DOMAIN nx2 /\ -d \notin RingOf(nx2, d)  BY CutsFacts
<1>4. S = RingOfSteps(H, nx2, d) /\ w = Winding(S, LeftOf(H, d))  BY DEF Cuts
<1>5. QED  BY <1>2, <1>3, <1>4, RingSplit

\* The one that the ring of -d calls for after it.
LEMMA SecondSplit ==
  ASSUME NEW G, NEW o, NEW nx, NEW H, NEW o2, NEW nx2, NEW e, NEW d, NEW S, NEW w, NEW T, NEW v,
         Cuts(at, G, o, nx, H, o2, nx2, e, d, S, w, T, v),
         NEW t, NEW in, NEW s, NEW F, NEW col, NEW f,
         Around(t, G, nx, H, o2, nx2, d, in, s, F, col, f),
         NEW r, SplitOf(t, r, S, w, H, f, FreeFace(F)),
         NEW mbr_only, NEW q, q = _lwt_AddFaceSplit(r, nx2, H, -d, f, mbr_only)
  PROVE  SplitsTo(r, q, T, v, H, f, mbr_only)
<1>1. /\ Smooth(WallsOf(G), col) /\ Before(t, H, o2, nx2, in, F, col)
      /\ f # None /\ col[LeftOf(H, -d)] = f /\ f \in DOMAIN F /\ FreeFace(F) \notin DOMAIN F
  BY AroundFacts
<1>2. PICK new : new = FreeFace(F)  OBVIOUS
<1>3. SplitOf(t, r, S, w, H, f, new) /\ new # f  BY <1>1, <1>2
<1>4. PICK dd : dd = -d  OBVIOUS
<1>5. Ready(r, o2, nx2, -d, f)  BY <1>1, <1>3, ReadySecond
<1>6. Net(at, H, o2, nx2) /\ -d \in DOMAIN nx2 /\ -(-d) = d /\ d \notin RingOf(nx2, -d)
      /\ Cuts(at, G, o, nx, H, o2, nx2, e, -d, T, v, S, w)
  BY CutsFacts
<1>7. T = RingOfSteps(H, nx2, -d) /\ v = Winding(T, LeftOf(H, -d))  BY DEF Cuts
<1>8. /\ Ready(r, o2, nx2, dd, f) /\ Net(at, H, o2, nx2) /\ dd \in DOMAIN nx2
      /\ -dd \notin RingOf(nx2, dd) /\ T = RingOfSteps(H, nx2, dd) /\ v = Winding(T, LeftOf(H, dd))
      /\ q = _lwt_AddFaceSplit(r, nx2, H, dd, f, mbr_only)
  BY <1>4, <1>5, <1>6, <1>7
<1>9. QED  BY <1>8, RingSplit

\* The faces that have the cells of face f after its split, where ids is what
\* the split comes to.
Heirs(f, ids) ==
  IF ids = <<>> THEN {f}
  ELSE ({ids[1], ids[2]} \ {None}) \cup (IF ids[2] = None THEN {f} ELSE {})

\* Cells of face f, and no others, get another face: faces F have become F2, and
\* the map col has become col2.
Recoloured(F, F2, col, col2, f, ids) ==
  /\ \A c \in Cells : col[c] # f => col2[c] = col[c]
  /\ f = Universe => \A c \in Cells : col[c] = f => col2[c] \notin DOMAIN F \ {f}
  /\ f # Universe => /\ Heirs(f, ids) \subseteq DOMAIN F2
                     /\ (Heirs(f, ids) \ {f}) \cap DOMAIN F = {}
                     /\ \A c \in Cells : col[c] = f => col2[c] \in Heirs(f, ids)

\* There is a map of the new tables in which face f is split into ids.
Redrawn(H, D, F, col, f, ids, in2, s2, F2) ==
  \E col2 : FaceMap(at, in2, H, D, s2, F2, col2) /\ Recoloured(F, F2, col, col2, f, ids)

\* A part of a face with a border gets a new face.
LEMMA PartRecoloured ==
  ASSUME NEW F, NEW F2, NEW col, NEW S, NEW w, NEW f \in DOMAIN F, f # Universe,
         NEW new, new \notin DOMAIN F, new # None, new \in DOMAIN F2, f \in DOMAIN F2
  PROVE  Recoloured(F, F2, col, SplitMap(S, w, f, new, col), f, <<new, None>>)
<1>1. Heirs(f, <<new, None>>) = {new, f}
  <2>1. PICK ids : ids = <<new, None>>  OBVIOUS
  <2>2. ids # <<>> /\ ids[1] = new /\ ids[2] = None  BY <2>1
  <2>3. Heirs(f, ids) = {new, f}  BY <2>2 DEF Heirs
  <2>4. QED  BY <2>1, <2>3
<1>2. \A c \in Cells : SplitMap(S, w, f, new, col)[c]
                         = IF col[c] = f /\ Winding(S, c) = w THEN new ELSE col[c]
  BY DEF SplitMap
<1>3. QED  BY <1>1, <1>2 DEF Recoloured

\* A part of the universal face gets a new face.
LEMMA UniverseRecoloured ==
  ASSUME NEW F, NEW F2, NEW col, NEW S, NEW w, NEW f \in DOMAIN F, f = Universe,
         NEW new, new \notin DOMAIN F, NEW ids
  PROVE  Recoloured(F, F2, col, SplitMap(S, w, f, new, col), f, ids)
<1>1. \A c \in Cells : SplitMap(S, w, f, new, col)[c]
                         = IF col[c] = f /\ Winding(S, c) = w THEN new ELSE col[c]
  BY DEF SplitMap
<1>2. QED  BY <1>1 DEF Recoloured

-----------------------------------------------------------------------------
(* Both splits of a face, whose first part gets a new face. *)

\* What SplitsTo says for the universal face.
LEMMA SplitsUniverse ==
  ASSUME NEW t, NEW r, NEW S, NEW w, NEW H, NEW mbr_only,
         SplitsTo(t, r, S, w, H, Universe, mbr_only)
  PROVE  /\ w = 0 => r = [t EXCEPT !.id = None]
         /\ w = 1 => SplitOf(t, r, S, w, H, Universe, FreeFace(t.face))
  BY DEF SplitsTo

\* The face of one part is split off.
SplitOff(t, r, S, w, f, new) ==
  /\ r.id = new /\ DOMAIN r.face = DOMAIN t.face \cup {new}
  /\ \A g \in DOMAIN t.face : r.face[g] = t.face[g]
  /\ r.face[new] = IF w = 0 THEN t.face[f] ELSE StepsBox(S)

\* That is what AddFaceSplit does with the faces.
LEMMA SplitFace ==
  ASSUME NEW t, NEW r, NEW S, NEW w, NEW H, NEW f, NEW new, SplitOf(t, r, S, w, H, f, new),
         f \in DOMAIN t.face, new \notin DOMAIN t.face
  PROVE  SplitOff(t, r, S, w, f, new)
  BY DEF SplitOf, SplitOff, WithEdge

\* The face that remains gets its new box.
LEMMA KeptBounded ==
  ASSUME NEW G, NEW o, NEW nx, NEW H, NEW o2, NEW nx2, NEW e, NEW S, NEW w, NEW T, NEW v,
         Cuts(at, G, o, nx, H, o2, nx2, e, e, S, w, T, v),
         NEW t, NEW in, NEW s, NEW F, NEW col, NEW f,
         Around(t, G, nx, H, o2, nx2, e, in, s, F, col, f), f # Universe,
         NEW no, ~no, NEW left, left = _lwt_AddFaceSplit(t, nx2, H, e, f, no),
         NEW all, all = (left.id # None),
         NEW right, right = _lwt_AddFaceSplit(left, nx2, H, -e, f, all)
  PROVE  /\ left.id # 0 /\ left.id # None
         /\ Redrawn(H, DOMAIN nx2, F, col, f, <<left.id, None>>, right.inface, right.side, right.face)
<1>1. PICK new : new = FreeFace(F)  OBVIOUS
<1>2. /\ new \in 1 .. MaxFace + 2 /\ new \notin DOMAIN F /\ f \in DOMAIN F /\ t.face = F
  BY <1>1, AroundFacts
<1>3. new # None /\ new # 0  BY <1>2, TopologyAssumption DEF None
<1>5. SplitOf(t, left, S, w, H, f, new)
  <2>2. SplitsTo(t, left, S, w, H, f, no)  BY FirstSplit
  <2>3. SplitOf(t, left, S, w, H, f, FreeFace(t.face))  BY <2>2 DEF SplitsTo
  <2>4. QED  BY <1>1, <1>2, <2>3
<1>6. /\ left.id = new /\ DOMAIN left.face = DOMAIN F \cup {new}
      /\ \A g \in DOMAIN F : left.face[g] = F[g]
  <2>1. f \in DOMAIN t.face /\ new \notin DOMAIN t.face /\ t.face = F  BY <1>2
  <2>2. /\ left.id = new /\ DOMAIN left.face = DOMAIN t.face \cup {new}
        /\ \A g \in DOMAIN t.face : left.face[g] = t.face[g]
        /\ left.face[new] = IF w = 0 THEN t.face[f] ELSE StepsBox(S)
    <3>1. SplitOff(t, left, S, w, f, new)  BY <1>5, <2>1, SplitFace
    <3>2. QED  BY <3>1 DEF SplitOff
  <2>3. QED  BY <2>1, <2>2
<1>8. right = [left EXCEPT !.id = None, !.face[f] = IF v = 1 THEN StepsBox(T) ELSE @]
  <2>2. SplitOf(t, left, S, w, H, f, FreeFace(F))  BY <1>1, <1>5
  <2>3. SplitsTo(left, right, T, v, H, f, all)  BY <2>2, SecondSplit
  <2>4. all  BY <1>3, <1>6
  <2>5. QED  BY <2>3, <2>4 DEF SplitsTo
<1>9. left = [id |-> left.id, face |-> left.face, side |-> left.side, inface |-> left.inface]
  BY <1>5 DEF SplitOf
<1>10. /\ right.side = left.side /\ right.inface = left.inface /\ right.id = None
       /\ right.face = [left.face EXCEPT ![f] = IF v = 1 THEN StepsBox(T) ELSE left.face[f]]
  BY <1>8, <1>9
<1>11. PICK F2 : F2 = right.face  OBVIOUS
<1>12. Remains(F, left, T, v, f, F2)
  <2>1. DOMAIN F2 = DOMAIN left.face /\ \A g \in DOMAIN F2 \ {f} : F2[g] = left.face[g]
    BY <1>10, <1>11
  <2>2. F2[f] = IF v = 1 THEN StepsBox(T) ELSE F[f]  BY <1>2, <1>6, <1>10, <1>11
  <2>3. v \in {0, 1}  BY CutsWind
  <2>4. F2[f] = IF f = Universe \/ v = 0 THEN F[f] ELSE StepsBox(T)
    <3>1. CASE v = 0  BY <2>2, <3>1
    <3>2. CASE v = 1  BY <2>2, <3>2
    <3>3. QED  BY <2>3, <3>1, <3>2
  <2>5. QED  BY <2>1, <2>4 DEF Remains
<1>13. FaceMap(at, left.inface, H, DOMAIN nx2, left.side, F2, SplitMap(S, w, f, new, col))
  <2>1. f = Universe => w = 1  OBVIOUS
  <2>2. QED  BY <1>2, <1>5, <1>12, <2>1, SplitMapped
<1>14. Recoloured(F, F2, col, SplitMap(S, w, f, new, col), f, <<new, None>>)
  <2>1. DOMAIN F2 = DOMAIN F \cup {new}  BY <1>6, <1>12 DEF Remains
  <2>2. new \in DOMAIN F2 /\ f \in DOMAIN F2  BY <1>2, <2>1
  <2>3. QED  BY <1>2, <1>3, <2>2, PartRecoloured
<1>15. Redrawn(H, DOMAIN nx2, F, col, f, <<left.id, None>>, right.inface, right.side, right.face)
  BY <1>6, <1>10, <1>11, <1>13, <1>14 DEF Redrawn
<1>16. QED  BY <1>3, <1>6, <1>15

\* Either ring makes the face that is split off the universal one.
LEMMA UniverseSplits ==
  ASSUME NEW G, NEW o, NEW nx, NEW H, NEW o2, NEW nx2, NEW e, NEW d, NEW S, NEW w, NEW T, NEW v,
         Cuts(at, G, o, nx, H, o2, nx2, e, d, S, w, T, v),
         NEW t, NEW in, NEW s, NEW F, NEW col, NEW f, f = Universe,
         Around(t, G, nx, H, o2, nx2, d, in, s, F, col, f),
         NEW no, NEW left, left = _lwt_AddFaceSplit(t, nx2, H, d, f, no),
         NEW some, NEW right, right = _lwt_AddFaceSplit(left, nx2, H, -d, f, some), NEW ids
  PROVE  /\ left.id # 0
         /\ Redrawn(H, DOMAIN nx2, F, col, f, ids, right.inface, right.side, right.face)
<1>1. PICK new : new = FreeFace(F)  OBVIOUS
<1>2. /\ new \in 1 .. MaxFace + 2 /\ new \notin DOMAIN F /\ f \in DOMAIN F /\ t.face = F
      /\ Finest(WallsOf(G), col) /\ col[Outer] = col[LeftOf(H, d)]
      /\ FaceMap(at, in, G, DOMAIN nx, s, F, col) /\ Before(t, H, o2, nx2, in, F, col)
  BY <1>1, AroundFacts
<1>3. new # None /\ new # 0 /\ None # 0  BY <1>2, TopologyAssumption DEF None
<1>5. SplitsTo(t, left, S, w, H, f, no)  BY FirstSplit
<1>6. (w = 0 /\ v = 1) \/ (w = 1 /\ v = 0)  BY <1>2, CutsOuter
<1>8. CASE w = 1 /\ v = 0
  <2>1. SplitOf(t, left, S, w, H, f, new)  BY <1>1, <1>2, <1>5, <1>8, SplitsUniverse
  <2>2. f \in DOMAIN t.face /\ new \notin DOMAIN t.face /\ t.face = F  BY <1>2
  <2>3. /\ left.id = new /\ DOMAIN left.face = DOMAIN t.face \cup {new}
        /\ \A g \in DOMAIN t.face : left.face[g] = t.face[g]
        /\ left.face[new] = IF w = 0 THEN t.face[f] ELSE StepsBox(S)
    <3>1. SplitOff(t, left, S, w, f, new)  BY <2>1, <2>2, SplitFace
    <3>2. QED  BY <3>1 DEF SplitOff
  <2>4. SplitOf(t, left, S, w, H, f, FreeFace(F))  BY <1>1, <2>1
  <2>5. SplitsTo(left, right, T, v, H, f, some)  BY <2>4, SecondSplit
  <2>6. right = [left EXCEPT !.id = None]  BY <1>8, <2>5, SplitsUniverse
  <2>7. left = [id |-> left.id, face |-> left.face, side |-> left.side, inface |-> left.inface]
    BY <2>1 DEF SplitOf
  <2>8. right.side = left.side /\ right.inface = left.inface /\ right.id = None /\ right.face = left.face
    BY <2>6, <2>7
  <2>9. PICK F2 : F2 = left.face  OBVIOUS
  <2>10. Remains(F, left, T, v, f, F2)  BY <2>2, <2>3, <2>9 DEF Remains
  <2>11. FaceMap(at, left.inface, H, DOMAIN nx2, left.side, F2, SplitMap(S, w, f, new, col))
    <3>1. f = Universe => w = 1  BY <1>8
    <3>2. QED  BY <1>2, <2>1, <2>10, <3>1, SplitMapped
  <2>12. Redrawn(H, DOMAIN nx2, F, col, f, ids, right.inface, right.side, right.face)
    <3>1. Recoloured(F, F2, col, SplitMap(S, w, f, new, col), f, ids)  BY <1>2, UniverseRecoloured
    <3>2. QED  BY <2>8, <2>9, <2>11, <3>1 DEF Redrawn
  <2>13. QED  BY <1>3, <2>3, <2>12
<1>9. CASE w = 0 /\ v = 1
  <2>1. left = [t EXCEPT !.id = None]  BY <1>5, <1>9, SplitsUniverse
  <2>2. t = [id |-> t.id, face |-> t.face, side |-> t.side, inface |-> t.inface]
    BY DEF Around
  <2>3. /\ left.id = None /\ left.face = F /\ left.side = t.side /\ left.inface = t.inface
        /\ left = [id |-> left.id, face |-> left.face, side |-> left.side, inface |-> left.inface]
    BY <1>2, <2>1, <2>2
  <2>4. PICK dd : dd = -d  OBVIOUS
  <2>5. Cuts(at, G, o, nx, H, o2, nx2, e, dd, T, v, S, w)  BY <2>4, CutsFacts
  <2>6. Around(left, G, nx, H, o2, nx2, dd, in, s, F, col, f)
    <3>1. Before(left, H, o2, nx2, in, F, col)  BY <1>2, <2>3 DEF Before
    <3>2. -dd = d  BY <2>4, CutsFacts
    <3>3. QED  BY <2>3, <2>4, <3>1, <3>2 DEF Around
  <2>7. SplitOf(left, right, T, v, H, f, new)
    <3>1. right = _lwt_AddFaceSplit(left, nx2, H, dd, f, some)  BY <2>4
    <3>2. SplitsTo(left, right, T, v, H, f, some)  BY <2>5, <2>6, <3>1, FirstSplit
    <3>3. SplitOf(left, right, T, v, H, f, FreeFace(left.face))  BY <1>9, <3>2, SplitsUniverse
    <3>4. QED  BY <1>1, <2>3, <3>3
  <2>8. f \in DOMAIN left.face /\ new \notin DOMAIN left.face /\ left.face = F  BY <1>2, <2>3
  <2>9. /\ right.id = new /\ DOMAIN right.face = DOMAIN left.face \cup {new}
        /\ \A g \in DOMAIN left.face : right.face[g] = left.face[g]
        /\ right.face[new] = IF v = 0 THEN left.face[f] ELSE StepsBox(T)
    <3>1. SplitOff(left, right, T, v, f, new)  BY <2>7, <2>8, SplitFace
    <3>2. QED  BY <3>1 DEF SplitOff
  <2>10. PICK F2 : F2 = right.face  OBVIOUS
  <2>11. Remains(F, right, S, w, f, F2)  BY <2>8, <2>9, <2>10 DEF Remains
  <2>12. FaceMap(at, right.inface, H, DOMAIN nx2, right.side, F2, SplitMap(T, v, f, new, col))
    <3>1. (f = Universe => v = 1) /\ new \notin DOMAIN F  BY <1>2, <1>9
    <3>2. QED  BY <2>5, <2>6, <2>7, <2>11, <3>1, SplitMapped
  <2>13. Redrawn(H, DOMAIN nx2, F, col, f, ids, right.inface, right.side, right.face)
    <3>1. Recoloured(F, F2, col, SplitMap(T, v, f, new, col), f, ids)  BY <1>2, UniverseRecoloured
    <3>2. QED  BY <2>10, <2>12, <3>1 DEF Redrawn
  <2>14. QED  BY <1>3, <2>3, <2>13
<1>10. QED  BY <1>6, <1>8, <1>9

\* To keep the old face for one part leaves a map with part of it recoloured.
LEMMA KeepingMapped ==
  ASSUME NEW G, NEW o, NEW nx, NEW H, NEW o2, NEW nx2, NEW e,
         Grows(at, G, o, nx, H, o2, nx2, e), -e \notin RingOf(nx2, e),
         NEW t, NEW in, NEW s, NEW F, NEW col, NEW f,
         Around(t, G, nx, H, o2, nx2, e, in, s, F, col, f),
         NEW u, u = SplitKeepingFace(t, nx2, H, e, f)
  PROVE  Redrawn(H, DOMAIN nx2, F, col, f, u.ids, u.t.inface, u.t.side, u.t.face)
<1>1. PICK S, w, T, v : /\ S = RingOfSteps(H, nx2, e) /\ w = Winding(S, LeftOf(H, e))
                        /\ T = RingOfSteps(H, nx2, -e) /\ v = Winding(T, LeftOf(H, -e))
  OBVIOUS
<1>2. Cuts(at, G, o, nx, H, o2, nx2, e, e, S, w, T, v)
  BY <1>1 DEF Cuts
<1> DEFINE left == _lwt_AddFaceSplit(t, nx2, H, e, f, FALSE)
           right == _lwt_AddFaceSplit(left, nx2, H, -e, f, left.id # None)
<1>3. left = _lwt_AddFaceSplit(t, nx2, H, e, f, FALSE)  OBVIOUS
<1>4. right = _lwt_AddFaceSplit(left, nx2, H, -e, f, left.id # None)  OBVIOUS
<1>5. u = OneNewFace(left, right)  BY DEF SplitKeepingFace
<1> HIDE DEF left, right
<1>6. PICK no, some : no = FALSE /\ some = (left.id # None)  OBVIOUS
<1>7. /\ left = _lwt_AddFaceSplit(t, nx2, H, e, f, no) /\ ~no
      /\ right = _lwt_AddFaceSplit(left, nx2, H, -e, f, some)
  BY <1>3, <1>4, <1>6
<1>8. CASE f # Universe
  <2>1. /\ left.id # 0 /\ left.id # None
        /\ Redrawn(H, DOMAIN nx2, F, col, f, <<left.id, None>>, right.inface, right.side, right.face)
    BY <1>2, <1>6, <1>7, <1>8, KeptBounded
  <2>2. u.ids = <<left.id, None>> /\ u.t = right  BY <1>5, <2>1 DEF OneNewFace
  <2>3. QED  BY <2>1, <2>2
<1>9. CASE f = Universe
  <2>1. PICK ids : ids = u.ids  OBVIOUS
  <2>2. /\ left.id # 0
        /\ Redrawn(H, DOMAIN nx2, F, col, f, ids, right.inface, right.side, right.face)
    BY <1>2, <1>7, <1>9, UniverseSplits
  <2>3. u.t = right  BY <1>5, <2>2 DEF OneNewFace
  <2>4. QED  BY <2>1, <2>2, <2>3
<1>10. QED  BY <1>8, <1>9

-----------------------------------------------------------------------------
(* Two new faces for one, and none. *)

\* After the second split nothing has the old face.
LEMMA RestOf ==
  ASSUME NEW G, NEW o, NEW nx, NEW H, NEW o2, NEW nx2, NEW e, NEW d, NEW S, NEW w, NEW T, NEW v,
         Cuts(at, G, o, nx, H, o2, nx2, e, d, S, w, T, v),
         NEW t, NEW in, NEW s, NEW F, NEW col, NEW f,
         Around(t, G, nx, H, o2, nx2, d, in, s, F, col, f),
         NEW new, new \notin DOMAIN F, NEW r, SplitOf(t, r, S, w, H, f, new),
         NEW F2, Remains(F, r, T, v, f, F2)
  PROVE  /\ \A x \in DOMAIN nx2 : r.side[x] = f => Winding(T, LeftOf(H, x)) = v
         /\ \A n \in DOMAIN at : r.inface[n] = f => Winding(T, at[n]) = v
<1>1. /\ Finest(WallsOf(G), col) /\ Before(t, H, o2, nx2, in, F, col)
      /\ f \in DOMAIN F /\ f # None /\ col[LeftOf(H, d)] = f
      /\ FaceMap(at, in, G, DOMAIN nx, s, F, col)
  BY AroundFacts
<1>2. /\ r.side = [x \in DOMAIN t.side |->
                     IF t.side[x] = f /\ Winding(S, LeftOf(H, x)) = w THEN new ELSE t.side[x]]
      /\ r.inface = [n \in DOMAIN at |->
                       IF t.inface[n] = f /\ Winding(S, at[n]) = w THEN new ELSE t.inface[n]]
  BY DEF SplitOf
<1>3. /\ w \in {0, 1} /\ v \in {0, 1}
      /\ \A c \in Cells : Winding(S, c) \in {w, w - 1} /\ Winding(T, c) \in {v, v - 1}
      /\ Smooth(WallsOf(H), WindingOf(S))
  BY CutsWind
<1>4. /\ Net(at, H, o2, nx2) /\ d \in DOMAIN nx2 /\ -d \in DOMAIN nx2 /\ -(-d) = d
      /\ -d \notin RingOf(nx2, d) /\ d \notin RingOf(nx2, -d)
      /\ LeftOf(H, d) \in Cells /\ LeftOf(H, -d) \in Cells
      /\ Cuts(at, G, o, nx, H, o2, nx2, e, -d, T, v, S, w)
  BY CutsFacts
<1>5. ASSUME NEW c \in Cells, col[c] = f, Winding(S, c) # w  PROVE Winding(T, c) = v
  <2>1. \/ Winding(S, c) = w /\ Winding(T, c) = v - 1
        \/ Winding(S, c) = w - 1 /\ Winding(T, c) = v
    BY <1>1, <1>3, <1>5, CutsFace
  <2>2. QED  BY <1>5, <2>1
<1>6. ASSUME NEW x \in DOMAIN nx2, r.side[x] = f  PROVE Winding(T, LeftOf(H, x)) = v
  <2>1. DOMAIN t.side = DOMAIN nx2 /\ t.side[x] = col[LeftOf(H, x)]  BY <1>1 DEF Before
  <2>2. t.side[x] = f /\ Winding(S, LeftOf(H, x)) # w  BY <1>1, <1>2, <1>6, <2>1
  <2>3. LeftOf(H, x) \in Cells  BY <1>4, LeftIsCell
  <2>4. QED  BY <1>5, <2>1, <2>2, <2>3
<1>7. ASSUME NEW n \in DOMAIN at, r.inface[n] = f  PROVE Winding(T, at[n]) = v
  <2>1. t.inface[n] = f /\ Winding(S, at[n]) # w  BY <1>1, <1>2, <1>7
  <2>2. in[n] = f /\ \A x \in DOMAIN nx2 : o2[x] # n  BY <1>1, <2>1 DEF Before
  <2>3. PICK c : c = CellAt(at[n][1], at[n][2])  OBVIOUS
  <2>4. at[n] \in Vertices  BY <1>4, NetFacts
  <2>5. c \in Cells  BY <2>3, <2>4, NodeCell
  <2>6. col[c] = f  BY <1>1, <2>2, <2>3 DEF FaceMap
  <2>7. /\ Cuts(at, G, o, nx, H, o2, nx2, e, -d, T, v, S, w)
        /\ S = RingOfSteps(H, nx2, d) /\ w = Winding(S, LeftOf(H, d))
        /\ T = RingOfSteps(H, nx2, -d) /\ v = Winding(T, LeftOf(H, -d))
    BY CutsFacts DEF Cuts
  <2>8. Winding(S, at[n]) = Winding(S, c)
    <3>1. PICK b : b = StepsBox(S)  OBVIOUS
    <3>2. /\ Winding(S, at[n]) = Winding(S, CellAt(at[n][1], at[n][2]))
          /\ Winding(S, at[n]) \in {w, w - 1}
          /\ ptarray_contains_point(S, at[n]) <=> Winding(S, at[n]) # 0
          /\ ptarray_contains_point(S, at[n]) \in BOOLEAN
          /\ Winding(S, at[n]) # 0 => BoxesOverlap(BoxOf({at[n]}), b)
      BY <1>4, <2>2, <2>7, <3>1, NodeInside
    <3>3. QED  BY <2>3, <3>2
  <2>9. Winding(T, at[n]) = Winding(T, c)
    <3>1. PICK b, dd : b = StepsBox(T) /\ dd = -d  OBVIOUS
    <3>2. /\ dd \in DOMAIN nx2 /\ -dd \notin RingOf(nx2, dd)
          /\ T = RingOfSteps(H, nx2, dd) /\ v = Winding(T, LeftOf(H, dd))
      BY <1>4, <2>7, <3>1
    <3>3. /\ Winding(T, at[n]) = Winding(T, CellAt(at[n][1], at[n][2]))
          /\ Winding(T, at[n]) \in {v, v - 1}
          /\ ptarray_contains_point(T, at[n]) <=> Winding(T, at[n]) # 0
          /\ ptarray_contains_point(T, at[n]) \in BOOLEAN
          /\ Winding(T, at[n]) # 0 => BoxesOverlap(BoxOf({at[n]}), b)
      BY <1>4, <2>2, <3>1, <3>2, NodeInside
    <3>4. QED  BY <2>3, <3>3
  <2>10. QED  BY <1>5, <2>1, <2>5, <2>6, <2>8, <2>9
<1>8. QED  BY <1>6, <1>7

\* Two free numbers of faces.
LEMMA TwoFree ==
  ASSUME NEW F, DOMAIN F \subseteq 0 .. MaxFace, NEW F2, DOMAIN F2 = DOMAIN F \cup {FreeFace(F)}
  PROVE  /\ FreeFace(F2) \notin DOMAIN F2 /\ FreeFace(F2) \in 1 .. MaxFace + 2
         /\ FreeFace(F) \notin DOMAIN F /\ FreeFace(F) \in 1 .. MaxFace + 2
<1>1. MaxFace \in Nat  BY TopologyAssumption
<1>2. /\ MaxFace + 1 \in 1 .. MaxFace + 2 /\ MaxFace + 1 \notin 0 .. MaxFace
      /\ MaxFace + 2 \in 1 .. MaxFace + 2 /\ MaxFace + 2 \notin 0 .. MaxFace
      /\ MaxFace + 1 # MaxFace + 2
  BY <1>1
<1>3. Roomy(DOMAIN F)  BY <1>2 DEF Roomy
<1>4. Roomy(DOMAIN F2)
  <2>1. MaxFace + 1 \notin DOMAIN F2 \/ MaxFace + 2 \notin DOMAIN F2  BY <1>2
  <2>2. QED  BY <1>2, <2>1 DEF Roomy
<1>5. QED  BY <1>3, <1>4, FreeFaceFree

\* Both parts of a face with a border get new faces, and the old one goes.
LEMMA ReplacedBounded ==
  ASSUME NEW G, NEW o, NEW nx, NEW H, NEW o2, NEW nx2, NEW e, NEW d, NEW S, NEW w, NEW T, NEW v,
         Cuts(at, G, o, nx, H, o2, nx2, e, d, S, w, T, v),
         NEW t, NEW in, NEW s, NEW F, NEW col, NEW f,
         Around(t, G, nx, H, o2, nx2, d, in, s, F, col, f), f # Universe,
         NEW no, ~no, NEW right, right = _lwt_AddFaceSplit(t, nx2, H, d, f, no),
         NEW left, left = _lwt_AddFaceSplit(right, nx2, H, -d, f, no),
         NEW F3, F3 = [x \in DOMAIN left.face \ {f} |-> left.face[x]]
  PROVE  /\ right.id # 0
         /\ Redrawn(H, DOMAIN nx2, F, col, f, <<left.id, right.id>>, left.inface, left.side, F3)
<1>1. PICK new : new = FreeFace(F)  OBVIOUS
<1>2. /\ new \in 1 .. MaxFace + 2 /\ new \notin DOMAIN F /\ f \in DOMAIN F /\ f # None /\ t.face = F
      /\ Before(t, H, o2, nx2, in, F, col)
  BY <1>1, AroundFacts
<1>3. SplitOf(t, right, S, w, H, f, new)
  <2>1. SplitsTo(t, right, S, w, H, f, no)  BY FirstSplit
  <2>2. SplitOf(t, right, S, w, H, f, FreeFace(t.face))  BY <2>1 DEF SplitsTo
  <2>3. QED  BY <1>1, <1>2, <2>2
<1>4. /\ right.id = new /\ DOMAIN right.face = DOMAIN F \cup {new}
      /\ \A g \in DOMAIN F : right.face[g] = F[g]
  <2>1. f \in DOMAIN t.face /\ new \notin DOMAIN t.face /\ t.face = F  BY <1>2
  <2>2. SplitOff(t, right, S, w, f, new)  BY <1>3, <2>1, SplitFace
  <2>3. QED  BY <2>1, <2>2 DEF SplitOff
<1>5. PICK two : two = FreeFace(right.face)  OBVIOUS
<1>6. two \notin DOMAIN right.face /\ two \in 1 .. MaxFace + 2
  <2>1. DOMAIN F \subseteq 0 .. MaxFace  BY DEF Around
  <2>2. DOMAIN right.face = DOMAIN F \cup {FreeFace(F)}  BY <1>1, <1>4
  <2>3. QED  BY <1>5, <2>1, <2>2, TwoFree
<1>7. SplitOf(right, left, T, v, H, f, two)
  <2>1. SplitOf(t, right, S, w, H, f, FreeFace(F))  BY <1>1, <1>3
  <2>2. SplitsTo(right, left, T, v, H, f, no)  BY <2>1, SecondSplit
  <2>3. QED  BY <1>5, <2>2 DEF SplitsTo
<1>8. /\ left.id = two /\ DOMAIN left.face = DOMAIN right.face \cup {two}
      /\ \A g \in DOMAIN right.face : left.face[g] = right.face[g]
      /\ left.face[two] = IF v = 0 THEN right.face[f] ELSE StepsBox(T)
  <2>1. f \in DOMAIN right.face  BY <1>2, <1>4
  <2>2. SplitOff(right, left, T, v, f, two)  BY <1>6, <1>7, <2>1, SplitFace
  <2>3. QED  BY <2>2 DEF SplitOff
<1> DEFINE F2 == [g \in DOMAIN right.face |->
                    IF g = f THEN (IF v = 0 THEN F[f] ELSE StepsBox(T)) ELSE right.face[g]]
<1>9. /\ DOMAIN F2 = DOMAIN right.face /\ \A g \in DOMAIN F2 \ {f} : F2[g] = right.face[g]
      /\ F2[f] = IF v = 0 THEN F[f] ELSE StepsBox(T)
  BY <1>2, <1>4
<1> HIDE DEF F2
<1>10. Remains(F, right, T, v, f, F2)  BY <1>9 DEF Remains
<1>11. PICK colM : colM = SplitMap(S, w, f, new, col)  OBVIOUS
<1>12. FaceMap(at, right.inface, H, DOMAIN nx2, right.side, F2, colM)
  <2>1. f = Universe => w = 1  OBVIOUS
  <2>2. FaceMap(at, right.inface, H, DOMAIN nx2, right.side, F2, SplitMap(S, w, f, new, col))
    BY <1>2, <1>3, <1>10, <2>1, SplitMapped
  <2>3. QED  BY <1>11, <2>2
<1>13. /\ \A x \in DOMAIN nx2 : right.side[x] = f => Winding(T, LeftOf(H, x)) = v
       /\ \A n \in DOMAIN at : right.inface[n] = f => Winding(T, at[n]) = v
  BY <1>2, <1>3, <1>10, RestOf
<1>14. /\ left.side = [x \in DOMAIN right.side |->
                     IF right.side[x] = f /\ Winding(T, LeftOf(H, x)) = v THEN two ELSE right.side[x]]
       /\ left.inface = [n \in DOMAIN at |->
                       IF right.inface[n] = f /\ Winding(T, at[n]) = v THEN two ELSE right.inface[n]]
  BY <1>7 DEF SplitOf
<1>15. DOMAIN right.side = DOMAIN nx2
  <2>1. DOMAIN t.side = DOMAIN nx2  BY <1>2 DEF Before
  <2>2. QED  BY <1>3, <2>1 DEF SplitOf
<1>16. PICK s2, in2, s3, in3 : /\ s2 = right.side /\ in2 = right.inface
                               /\ s3 = left.side /\ in3 = left.inface
  OBVIOUS
<1>17. Renames(at, in2, DOMAIN nx2, s2, F2, f, two, F3, s3, in3)
  <2>1. f \in DOMAIN F2 /\ f # Universe /\ two \notin DOMAIN F2  BY <1>2, <1>4, <1>6, <1>9
  <2>2. DOMAIN F3 = (DOMAIN F2 \ {f}) \cup {two}  BY <1>8, <1>9, <2>1
  <2>3. F3[two] = F2[f]  BY <1>2, <1>4, <1>8, <1>9, <2>1
  <2>4. \A g \in DOMAIN F2 \ {f} : F3[g] = F2[g]  BY <1>8, <1>9
  <2>5. \A x \in DOMAIN nx2 : s3[x] = IF s2[x] = f THEN two ELSE s2[x]
    BY <1>13, <1>14, <1>15, <1>16
  <2>6. ASSUME NEW n \in DOMAIN at, in3[n] # None
        PROVE  in2[n] # None /\ in3[n] = IF in2[n] = f THEN two ELSE in2[n]
    BY <1>2, <1>13, <1>14, <1>16, <2>6
  <2>7. QED  BY <2>1, <2>2, <2>3, <2>4, <2>5, <2>6 DEF Renames
<1> DEFINE col3 == [c \in Cells |-> IF colM[c] = f THEN two ELSE colM[c]]
<1>18. FaceMap(at, in3, H, DOMAIN nx2, s3, F3, col3)
  <2>1. Net(at, H, o2, nx2)  BY CutsFacts
  <2>2. FaceMap(at, in2, H, DOMAIN nx2, s2, F2, colM)  BY <1>12, <1>16
  <2>3. QED  BY <1>17, <2>1, <2>2, Renamed
<1>19. right.id # 0  BY <1>2, <1>4, TopologyAssumption
<1>20. Recoloured(F, F3, col, col3, f, <<two, new>>)
  <2>1. two # None /\ new # None /\ two # new /\ two # f /\ new # f /\ two \notin DOMAIN F
    BY <1>2, <1>4, <1>6, TopologyAssumption DEF None
  <2>2. Heirs(f, <<two, new>>) = {two, new}
    <3>1. PICK ids : ids = <<two, new>>  OBVIOUS
    <3>2. ids # <<>> /\ ids[1] = two /\ ids[2] = new  BY <3>1
    <3>3. Heirs(f, ids) = {two, new}  BY <2>1, <3>2 DEF Heirs
    <3>4. QED  BY <3>1, <3>3
  <2>3. two \in DOMAIN F3 /\ new \in DOMAIN F3  BY <1>4, <1>8, <2>1
  <2>4. \A c \in Cells : colM[c] = IF col[c] = f /\ Winding(S, c) = w THEN new ELSE col[c]
    BY <1>11 DEF SplitMap
  <2>5. \A c \in Cells : col3[c] = IF colM[c] = f THEN two ELSE colM[c]  OBVIOUS
  <2> HIDE DEF col3
  <2>6. \A c \in Cells : col[c] # f => col3[c] = col[c]  BY <2>4, <2>5
  <2>7. \A c \in Cells : col[c] = f => col3[c] \in {two, new}  BY <2>1, <2>4, <2>5
  <2>8. QED  BY <1>2, <2>1, <2>2, <2>3, <2>6, <2>7 DEF Recoloured
<1> HIDE DEF col3
<1>21. Redrawn(H, DOMAIN nx2, F, col, f, <<left.id, right.id>>, left.inface, left.side, F3)
  BY <1>4, <1>8, <1>16, <1>18, <1>20 DEF Redrawn
<1>22. QED  BY <1>19, <1>21

\* A split makes records of records.
LEMMA SplitRecord ==
  ASSUME NEW t, t = [id |-> t.id, face |-> t.face, side |-> t.side, inface |-> t.inface],
         NEW nx, NEW g, NEW d, NEW f, NEW mbr_only, NEW r, r = _lwt_AddFaceSplit(t, nx, g, d, f, mbr_only)
  PROVE  r = [id |-> r.id, face |-> r.face, side |-> r.side, inface |-> r.inface]
<1>1. \/ \E x : r = [t EXCEPT !.id = x]
      \/ \E x, y : r = [t EXCEPT !.id = x, !.face[f] = y]
      \/ \E x, F, s, in : r = [id |-> x, face |-> F, side |-> s, inface |-> in]
  BY DEF _lwt_AddFaceSplit
<1>2. QED  BY <1>1

\* To replace the old face by two leaves a map with both parts recoloured.
LEMMA ReplacingMapped ==
  ASSUME NEW G, NEW o, NEW nx, NEW H, NEW o2, NEW nx2, NEW e,
         Grows(at, G, o, nx, H, o2, nx2, e), -e \notin RingOf(nx2, e),
         NEW t, NEW in, NEW s, NEW F, NEW col, NEW f,
         Around(t, G, nx, H, o2, nx2, e, in, s, F, col, f),
         NEW u, u = SplitReplacingFace(t, nx2, H, e, f)
  PROVE  Redrawn(H, DOMAIN nx2, F, col, f, u.ids, u.t.inface, u.t.side, u.t.face)
<1>1. PICK S, w, T, v, d : /\ S = RingOfSteps(H, nx2, e) /\ w = Winding(S, LeftOf(H, e))
                           /\ T = RingOfSteps(H, nx2, -e) /\ v = Winding(T, LeftOf(H, -e))
                           /\ d = -e
  OBVIOUS
<1>2. Cuts(at, G, o, nx, H, o2, nx2, e, e, S, w, T, v)
  BY <1>1 DEF Cuts
<1>3. Cuts(at, G, o, nx, H, o2, nx2, e, d, T, v, S, w) /\ -d = e
  BY <1>1, <1>2, CutsFacts
<1>4. Around(t, G, nx, H, o2, nx2, d, in, s, F, col, f)  BY <1>1, <1>3 DEF Around
<1>5. PICK no : no = FALSE  OBVIOUS
<1> DEFINE right == _lwt_AddFaceSplit(t, nx2, H, -e, f, FALSE)
           left == _lwt_AddFaceSplit(right, nx2, H, e, f, FALSE)
<1>6. right = _lwt_AddFaceSplit(t, nx2, H, d, f, no)  BY <1>1, <1>5
<1>7. left = _lwt_AddFaceSplit(right, nx2, H, -d, f, no)  BY <1>3, <1>5
<1>8. u = TwoNewFaces(left, right, f)  BY DEF SplitReplacingFace
<1> HIDE DEF left, right
<1>9. CASE f = Universe
  <2>1. PICK ids : ids = u.ids  OBVIOUS
  <2>2. /\ right.id # 0
        /\ Redrawn(H, DOMAIN nx2, F, col, f, ids, left.inface, left.side, left.face)
    BY <1>3, <1>4, <1>6, <1>7, <1>9, UniverseSplits
  <2>3. u.t = left  BY <1>8, <1>9, <2>2 DEF TwoNewFaces
  <2>4. QED  BY <2>1, <2>2, <2>3
<1>10. CASE f # Universe
  <2>1. PICK F3 : F3 = [x \in DOMAIN left.face \ {f} |-> left.face[x]]  OBVIOUS
  <2>2. /\ right.id # 0
        /\ Redrawn(H, DOMAIN nx2, F, col, f, <<left.id, right.id>>, left.inface, left.side, F3)
    BY <1>3, <1>4, <1>5, <1>6, <1>7, <1>10, <2>1, ReplacedBounded
  <2>3. left = [id |-> left.id, face |-> left.face, side |-> left.side, inface |-> left.inface]
    <3>1. PICK D : D = DOMAIN nx2  OBVIOUS
    <3>2. t = [id |-> t.id, face |-> t.face, side |-> t.side, inface |-> t.inface]
      BY DEF Around
    <3>3. right = [id |-> right.id, face |-> right.face, side |-> right.side, inface |-> right.inface]
      BY <1>6, <3>2, SplitRecord
    <3>4. QED  BY <1>7, <3>3, SplitRecord
  <2>4. u.ids = <<left.id, right.id>> /\ u.t = [left EXCEPT !.face = F3]
    BY <1>8, <1>10, <2>1, <2>2 DEF TwoNewFaces
  <2>5. u.t.inface = left.inface /\ u.t.side = left.side /\ u.t.face = F3  BY <2>3, <2>4
  <2>6. QED  BY <2>2, <2>4, <2>5
<1>11. QED  BY <1>9, <1>10

\* An edge whose darts are in one ring splits nothing.
LEMMA NothingSplit ==
  ASSUME NEW G, NEW o, NEW nx, NEW H, NEW o2, NEW nx2, NEW e,
         Grows(at, G, o, nx, H, o2, nx2, e), -e \in RingOf(nx2, e),
         NEW t, NEW in, NEW s, NEW F, NEW col, NEW f,
         Around(t, G, nx, H, o2, nx2, e, in, s, F, col, f),
         NEW u, \/ u = SplitKeepingFace(t, nx2, H, e, f)
                \/ u = SplitReplacingFace(t, nx2, H, e, f)
                \/ u = [ids |-> <<>>, t |-> t]
  PROVE  Redrawn(H, DOMAIN nx2, F, col, f, u.ids, u.t.inface, u.t.side, u.t.face)
<1>1. Net(at, H, o2, nx2) /\ e \in DOMAIN nx2 /\ -e \in DOMAIN nx2 /\ -(-e) = e
  BY GrowsFacts DEF Grows
<1>2. e \in RingOf(nx2, -e)  BY <1>1, RingBack
<1>3. t = [id |-> t.id, face |-> t.face, side |-> t.side, inface |-> t.inface]  BY DEF Around
<1>4. u.t.face = t.face /\ u.t.side = t.side /\ u.t.inface = t.inface /\ u.ids = <<>>
  <2>1. CASE u = SplitKeepingFace(t, nx2, H, e, f)
    <3> DEFINE left == _lwt_AddFaceSplit(t, nx2, H, e, f, FALSE)
    <3>1. left = [t EXCEPT !.id = 0]  BY DEF _lwt_AddFaceSplit, RingOf
    <3>2. u = [ids |-> <<>>, t |-> left]  BY <1>3, <2>1, <3>1 DEF SplitKeepingFace, OneNewFace
    <3>3. QED  BY <1>3, <3>1, <3>2
  <2>2. CASE u = SplitReplacingFace(t, nx2, H, e, f)
    <3> DEFINE right == _lwt_AddFaceSplit(t, nx2, H, -e, f, FALSE)
    <3>1. right = [t EXCEPT !.id = 0]  BY <1>1, <1>2 DEF _lwt_AddFaceSplit, RingOf
    <3>2. u = [ids |-> <<>>, t |-> right]  BY <1>3, <2>2, <3>1 DEF SplitReplacingFace, TwoNewFaces
    <3>3. QED  BY <1>3, <3>1, <3>2
  <2>3. QED  BY <2>1, <2>2
<1>5. /\ FaceMap(at, in, G, DOMAIN nx, s, F, col)
      /\ Before(t, H, o2, nx2, in, F, col) /\ t.face = F
      /\ col[LeftOf(H, e)] = f /\ col[LeftOf(H, -e)] = f
  BY AroundFacts
<1>6. PICK s2, in2 : s2 = t.side /\ in2 = t.inface  OBVIOUS
<1>7. \A d \in DOMAIN nx : s2[d] = s[d]
  <2>1. SUFFICES ASSUME NEW d \in DOMAIN nx  PROVE s2[d] = s[d]  OBVIOUS
  <2>2. d \in DOMAIN nx2 /\ LeftOf(H, d) = LeftOf(G, d)  BY GrowsFacts
  <2>3. s2[d] = col[LeftOf(H, d)]  BY <1>5, <1>6, <2>2 DEF Before
  <2>4. s[d] = col[LeftOf(G, d)]  BY <1>5 DEF FaceMap
  <2>5. QED  BY <2>2, <2>3, <2>4
<1>8. s2[e] = col[LeftOf(H, e)] /\ s2[-e] = col[LeftOf(H, e)]  BY <1>1, <1>5, <1>6 DEF Before
<1>9. FewerIsolated(at, in, in2)  BY <1>5, <1>6 DEF Before, FewerIsolated
<1>10. FaceMap(at, in2, H, DOMAIN nx2, s2, F, col)  BY <1>5, <1>7, <1>8, <1>9, AddedSame
<1>11. Recoloured(F, F, col, col, f, <<>>)
  <2>1. Heirs(f, <<>>) = {f}  BY DEF Heirs
  <2>2. f \in DOMAIN F  BY AroundFacts
  <2>3. QED  BY <2>1, <2>2 DEF Recoloured
<1>12. QED  BY <1>4, <1>5, <1>6, <1>10, <1>11 DEF Redrawn

-----------------------------------------------------------------------------
(* Edges that are added. *)

\* A call that adds an edge adds its walls.
LEMMA NewLine ==
  ASSUME TopoInv, Planar, TopoInv', Planar', NEW e \in L!NewEdgeIds(Edges), NEW g,
         geom' = WithEdge(geom, e, g), at' = at, DOMAIN next' = DOMAIN next \cup {e, -e}
  PROVE  Grows(at, geom, org, next, geom', org', next', e)
<1>1. e \notin Darts /\ -e \notin Darts /\ Edges = {d \in Darts : d > 0}
  BY NewEdge, InvFacts
<1>2. Net(at, geom, org, next)  BY NetHolds
<1>3. Net(at, geom', org', next')
  <2>1. Net(at', geom', org', next')  BY NetHoldsNext
  <2>2. at' = at  OBVIOUS
  <2> DEFINE H == geom'
             o2 == org'
             nx2 == next'
             a2 == at'
  <2>3. Net(a2, H, o2, nx2) /\ a2 = at  BY <2>1
  <2> HIDE DEF H, o2, nx2, a2
  <2>4. Net(at, H, o2, nx2)  BY <2>3
  <2>5. QED  BY <2>4 DEF H, o2, nx2
<1>4. e \in DOMAIN geom' /\ LessLine(geom, geom', e)
  BY <1>1 DEF WithEdge, LessLine, Edges
<1>5. DOMAIN next = DOMAIN next' \ {e, -e}  BY <1>1 DEF Darts
<1>6. QED  BY <1>2, <1>3, <1>4, <1>5 DEF Grows

\* What is on the left and on the right of the new edge.
LEMMA NewSides ==
  ASSUME TopoInv, NEW e \in L!NewEdgeIds(Edges), NEW m \in DOMAIN at, NEW n \in DOMAIN at,
         NEW g \in Lines, LegalEdge(m, n, g), NEW H, H = WithEdge(geom, e, g),
         NEW col, NowMap(col)
  PROVE  /\ col[LeftOf(H, e)] = col[LeftCell(<<g[1], g[2]>>)]
         /\ col[LeftOf(H, -e)] = col[LeftCell(<<g[1], g[2]>>)]
<1>1. e > 0 /\ e \in Int /\ -(-e) = e /\ ~(-e > 0)
  <2>1. e > 0 /\ e \in Int /\ -(-e) = e  BY NewEdge
  <2>2. QED  BY <2>1
<1>2. H[e] = g  BY DEF WithEdge
<1>3. Path(H, e) = g /\ Path(H, -e) = Reverse(g)  BY <1>1, <1>2 DEF Path
<1>4. FreeOf(WallsOf(geom), g)  BY LegalFree
<1>5. Smooth(WallsOf(geom), col)  BY MapFacts
<1>6. \A h \in {g, Reverse(g)} : col[LeftCell(<<h[1], h[2]>>)] = col[LeftCell(<<g[1], g[2]>>)]
  BY <1>4, <1>5, FreeEnds
<1>7. LeftOf(H, e) = LeftCell(<<g[1], g[2]>>)  BY <1>3 DEF LeftOf, FirstOf
<1>8. LeftOf(H, -e) = LeftCell(<<Reverse(g)[1], Reverse(g)[2]>>)  BY <1>3 DEF LeftOf, FirstOf
<1>9. QED  BY <1>6, <1>7, <1>8

\* The tables before a split.
LEMMA NewAround ==
  ASSUME TopoInv, Planar, TopoInv', Planar',
         NEW e \in L!NewEdgeIds(Edges), NEW m \in DOMAIN at, NEW n \in DOMAIN at,
         NEW g \in Lines, LegalEdge(m, n, g), geom' = WithEdge(geom, e, g), at' = at,
         DOMAIN next' = DOMAIN next \cup {e, -e}, org' = L!With(org, e, m, n),
         NEW col, NowMap(col), NEW f \in DOMAIN face, f = col[LeftCell(<<g[1], g[2]>>)],
         NEW t, t = [id |-> 0, face |-> face, side |-> L!With(side, e, f, f),
                     inface |-> [k \in DOMAIN at |-> IF k \in {m, n} THEN None ELSE inface[k]]]
  PROVE  Around(t, geom, next, geom', org', next', e, inface, side, face, col, f)
<1>1. /\ e \notin Darts /\ -e \notin Darts /\ e # -e
      /\ DOMAIN side = Darts /\ DOMAIN org = Darts
      /\ \A k \in DOMAIN at : inface[k] = None <=> L!Out(k) # {}
  BY NewEdge, InvFacts
<1>2. Darts = DOMAIN next  BY DEF Darts
<1>3. FaceMap(at, inface, geom, DOMAIN next, side, face, col)  BY <1>2 DEF NowMap
<1>4. f # None /\ DOMAIN face \subseteq 0 .. MaxFace
  <2>1. DOMAIN face \subseteq 0 .. MaxFace  BY DEF TopoInv
  <2>2. QED  BY <2>1 DEF None
<1>5. /\ col[LeftOf(geom', e)] = f /\ col[LeftOf(geom', -e)] = f
  <2> DEFINE H == geom'
  <2>1. H = WithEdge(geom, e, g)  OBVIOUS
  <2> HIDE DEF H
  <2>2. /\ col[LeftOf(H, e)] = col[LeftCell(<<g[1], g[2]>>)]
        /\ col[LeftOf(H, -e)] = col[LeftCell(<<g[1], g[2]>>)]
    BY <2>1, NewSides
  <2>3. QED  BY <2>2 DEF H
<1>6. Grows(at, geom, org, next, geom', org', next', e)  BY NewLine
<1>7. \A d \in Darts : side[d] = col[LeftOf(geom, d)]  BY MapFacts
<1>8. Before(t, geom', org', next', inface, face, col)
  <2> DEFINE H == geom'
             o2 == org'
             nx2 == next'
  <2>1. /\ Grows(at, geom, org, next, H, o2, nx2, e) /\ o2 = L!With(org, e, m, n)
        /\ DOMAIN nx2 = DOMAIN next \cup {e, -e} /\ col[LeftOf(H, e)] = f /\ col[LeftOf(H, -e)] = f
    BY <1>5, <1>6
  <2> HIDE DEF H, o2, nx2
  <2>2. DOMAIN t.side = DOMAIN nx2  BY <1>1, <1>2, <2>1 DEF L!With
  <2>3. ASSUME NEW x \in DOMAIN nx2  PROVE t.side[x] = col[LeftOf(H, x)]
    <3>1. CASE x = e \/ x = -e  BY <1>1, <2>1, <3>1 DEF L!With
    <3>2. CASE x # e /\ x # -e
      <4>1. x \in Darts  BY <1>2, <2>1, <2>3, <3>2
      <4>2. LeftOf(H, x) = LeftOf(geom, x)  BY <1>2, <2>1, <4>1, GrowsFacts
      <4>3. t.side[x] = side[x]  BY <1>1, <3>2, <4>1 DEF L!With
      <4>4. QED  BY <1>7, <4>1, <4>2, <4>3
    <3>3. QED  BY <3>1, <3>2
  <2>4. ASSUME NEW k \in DOMAIN at, t.inface[k] # None
        PROVE  t.inface[k] = inface[k] /\ \A x \in DOMAIN nx2 : o2[x] # k
    <3>1. k # m /\ k # n /\ t.inface[k] = inface[k]  BY <2>4
    <3>2. L!Out(k) = {}  BY <1>1, <2>4, <3>1
    <3>3. \A x \in Darts : org[x] # k  BY <3>2 DEF L!Out, L!Darts, Darts
    <3>4. ASSUME NEW x \in DOMAIN nx2  PROVE o2[x] # k
      <4>1. CASE x = e \/ x = -e  BY <1>1, <2>1, <3>1, <4>1 DEF L!With
      <4>2. CASE x # e /\ x # -e
        <5>1. x \in Darts  BY <1>2, <2>1, <3>4, <4>2
        <5>2. o2[x] = org[x]  BY <1>1, <2>1, <4>2, <5>1 DEF L!With
        <5>3. QED  BY <3>3, <5>1, <5>2
      <4>3. QED  BY <4>1, <4>2
    <3>5. QED  BY <3>1, <3>4
  <2>5. t.face = face  OBVIOUS
  <2>6. Before(t, H, o2, nx2, inface, face, col)  BY <2>2, <2>3, <2>4, <2>5 DEF Before
  <2>7. QED  BY <2>6 DEF H, o2, nx2
<1>9. t = [id |-> t.id, face |-> t.face, side |-> t.side, inface |-> t.inface]  OBVIOUS
<1>10. QED  BY <1>3, <1>4, <1>5, <1>8, <1>9 DEF Around

-----------------------------------------------------------------------------
(* Calls that add edges. *)

\* The walk comes back over the new edge at an end where nothing else ends.
LEMMA TurnsBack ==
  ASSUME NEW a, NEW G, NEW o, NEW nx, Net(a, G, o, nx), NEW e \in DOMAIN nx, -e \in DOMAIN nx,
         nx[e] = -e \/ nx[-e] = e
  PROVE  -e \in RingOf(nx, e)
<1>1. CASE nx[e] = -e
  <2>1. e \in RingOf(nx, e) /\ \A x \in RingOf(nx, e) : nx[x] \in RingOf(nx, e)  BY RingFacts
  <2>2. QED  BY <1>1, <2>1
<1>2. CASE nx[-e] = e
  <2>1. PICK d : d = -e  OBVIOUS
  <2>2. d \in RingOf(nx, d) /\ \A x \in RingOf(nx, d) : nx[x] \in RingOf(nx, d)  BY <2>1, RingFacts
  <2>3. e \in RingOf(nx, d)  BY <1>2, <2>1, <2>2
  <2>4. d \in RingOf(nx, e)  BY <2>1, <2>3, RingBack
  <2>5. QED  BY <2>1, <2>4
<1>3. QED  BY <1>1, <1>2

\* A new edge has split a face, or none.
NewFaces(col) ==
  \E col2, f, ids :
    /\ NowMap(col2)' /\ f \in DOMAIN face /\ Recoloured(face, face', col, col2, f, ids)
    /\ relation' = IF ids = <<>> \/ f = Universe THEN relation
                   ELSE updateTopoGeomFaceSplit(f, ids[1], ids[2])

\* An isolated edge keeps the map.
LEMMA AddIsoEdgeFaces ==
  ASSUME TopoInv, Planar, TopoInv', Planar',
         NEW e \in L!NewEdgeIds(Edges), NEW m \in DOMAIN at, NEW n \in DOMAIN at, NEW g \in Lines,
         AddIsoEdge(e, m, n, g), NEW col, NowMap(col)
  PROVE  NewFaces(col)
<1>1. /\ inface[m] # None /\ LegalEdge(m, n, g)
      /\ geom' = WithEdge(geom, e, g) /\ org' = L!With(org, e, m, n)
      /\ next' = L!With(next, e, -e, e) /\ side' = L!With(side, e, inface[m], inface[m])
      /\ inface' = [inface EXCEPT ![m] = None, ![n] = None]
      /\ at' = at /\ face' = face /\ relation' = relation
  BY DEF AddIsoEdge
<1>2. NowMap(col)  OBVIOUS
<1>3. PICK f : f = inface[m]  OBVIOUS
<1>4. f = col[LeftCell(<<g[1], g[2]>>)]
  <2>1. FreeOf(WallsOf(geom), g)  BY <1>1, LegalFree
  <2>2. PICK h : h = g  OBVIOUS
  <2>3. h \in {g, Reverse(g)} /\ h[1] = at[m]  BY <1>1, <2>2, LegalFacts
  <2>4. inface[m] = col[LeftCell(<<g[1], g[2]>>)]  BY <1>1, <1>2, <2>1, <2>3, FaceAtEnd
  <2>5. QED  BY <1>3, <2>4
<1>5. f \in DOMAIN face
  <2>1. PICK z : z = L!With(az, e, Leaving(g), Arriving(g))  OBVIOUS
  <2>2. EdgeFace(e, m, n, z) = f /\ f \in DOMAIN face  BY <1>1, <1>2, <1>4, <2>1, EdgeFaceIs
  <2>3. QED  BY <2>2
<1>6. PICK t : t = [id |-> 0, face |-> face, side |-> L!With(side, e, f, f),
                    inface |-> [k \in DOMAIN at |-> IF k \in {m, n} THEN None ELSE inface[k]]]
  OBVIOUS
<1>7. DOMAIN next = Darts /\ DOMAIN inface = DOMAIN at /\ e # -e  BY InvFacts, NewEdge DEF Darts
<1>8. /\ DOMAIN next' = DOMAIN next \cup {e, -e} /\ next'[e] = -e
  BY <1>1 DEF L!With
<1>9. Around(t, geom, next, geom', org', next', e, inface, side, face, col, f)
  BY <1>1, <1>2, <1>4, <1>5, <1>6, <1>8, NewAround
<1>10. Grows(at, geom, org, next, geom', org', next', e)  BY <1>1, <1>8, NewLine
<1>11. t.inface = inface' /\ t.side = side' /\ t.face = face'
  <2>1. inface' = [k \in DOMAIN at |-> IF k \in {m, n} THEN None ELSE inface[k]]
    BY <1>1, <1>7
  <2>2. QED  BY <1>1, <1>3, <1>6, <2>1
<1> DEFINE H == geom'
           o2 == org'
           nx2 == next'
<1>12. /\ Around(t, geom, next, H, o2, nx2, e, inface, side, face, col, f)
       /\ Grows(at, geom, org, next, H, o2, nx2, e) /\ nx2[e] = -e
  BY <1>8, <1>9, <1>10
<1> HIDE DEF H, o2, nx2
<1>13. -e \in RingOf(nx2, e)
  <2>1. Net(at, H, o2, nx2) /\ e \in DOMAIN nx2 /\ -e \in DOMAIN nx2
    BY <1>12, GrowsFacts DEF Grows
  <2>2. QED  BY <1>12, <2>1, TurnsBack
<1>14. Redrawn(H, DOMAIN nx2, face, col, f, <<>>, t.inface, t.side, t.face)
  <2>1. PICK u : u = [ids |-> <<>>, t |-> t]  OBVIOUS
  <2>2. Redrawn(H, DOMAIN nx2, face, col, f, u.ids, u.t.inface, u.t.side, u.t.face)
    BY <1>12, <1>13, <2>1, NothingSplit
  <2>3. QED  BY <2>1, <2>2
<1>15. PICK col2 : /\ FaceMap(at, t.inface, H, DOMAIN nx2, t.side, t.face, col2)
                   /\ Recoloured(face, t.face, col, col2, f, <<>>)
  BY <1>14 DEF Redrawn
<1>16. NowMap(col2)'  BY <1>1, <1>11, <1>15 DEF NowMap, H, nx2, Darts
<1>17. Recoloured(face, face', col, col2, f, <<>>)  BY <1>11, <1>15
<1>18. QED  BY <1>1, <1>5, <1>16, <1>17 DEF NewFaces

\* What AddEdge makes of the tables.
AddedTo(e, m, n, g, f, nx, ge, u) ==
  LET t == [id |-> 0, face |-> face, side |-> L!With(side, e, f, f),
            inface |-> [k \in DOMAIN at |-> IF k \in {m, n} THEN None ELSE inface[k]]]
  IN  \/ m # n /\ (inface[m] # None \/ inface[n] # None) /\ u = [ids |-> <<>>, t |-> t]
      \/ u = SplitKeepingFace(t, nx, ge, e, f)
      \/ u = SplitReplacingFace(t, nx, ge, e, f)

\* What the split u has made is what the tables become.
Stored(f, u) ==
  /\ side' = u.t.side /\ inface' = u.t.inface /\ face' = u.t.face
  /\ relation' = IF u.ids = <<>> \/ f = Universe THEN relation
                 ELSE updateTopoGeomFaceSplit(f, u.ids[1], u.ids[2])

\* What a call of AddEdge does.
LEMMA AddEdgeCall ==
  ASSUME NEW e, NEW m, NEW n, NEW g, NEW modFace \in BOOLEAN, AddEdge(e, m, n, g, modFace),
         NEW z, z = L!With(az, e, Leaving(g), Arriving(g))
  PROVE  /\ LegalEdge(m, n, g) /\ geom' = WithEdge(geom, e, g) /\ org' = L!With(org, e, m, n)
         /\ next' = L!AddLinks(e, m, n, z) /\ at' = at
         /\ \E u : /\ AddedTo(e, m, n, g, EdgeFace(e, m, n, z), next', geom', u)
                   /\ Stored(EdgeFace(e, m, n, z), u)
<1> DEFINE nx == L!AddLinks(e, m, n, z)
           ge == WithEdge(geom, e, g)
           f == EdgeFace(e, m, n, z)
           dangling == m # n /\ (inface[m] # None \/ inface[n] # None)
           t == [id |-> 0, face |-> face, side |-> L!With(side, e, f, f),
                 inface |-> [k \in DOMAIN at |-> IF k \in {m, n} THEN None ELSE inface[k]]]
           s == IF dangling THEN [ids |-> <<>>, t |-> t]
                ELSE IF modFace THEN SplitKeepingFace(t, nx, ge, e, f)
                ELSE SplitReplacingFace(t, nx, ge, e, f)
<1>1. /\ LegalEdge(m, n, g) /\ geom' = ge /\ org' = L!With(org, e, m, n) /\ next' = nx /\ at' = at
      /\ side' = s.t.side /\ inface' = s.t.inface /\ face' = s.t.face
      /\ relation' = IF s.ids = <<>> \/ f = Universe THEN relation
                     ELSE updateTopoGeomFaceSplit(f, s.ids[1], s.ids[2])
  BY DEF AddEdge
<1>2. AddedTo(e, m, n, g, f, nx, ge, s)
  <2> HIDE DEF nx, ge, f
  <2>1. CASE dangling  BY <2>1 DEF AddedTo
  <2>2. CASE ~dangling /\ modFace  BY <2>2 DEF AddedTo
  <2>3. CASE ~dangling /\ ~modFace  BY <2>3 DEF AddedTo
  <2>4. QED  BY <2>1, <2>2, <2>3
<1> HIDE DEF nx, ge, f, s
<1>3. Stored(f, s)  BY <1>1 DEF Stored
<1>4. QED  BY <1>1, <1>2, <1>3 DEF nx, ge, f

\* Edges that are added leave a map with the cells of one face recoloured, or
\* none.
LEMMA AddEdgeFaces ==
  ASSUME TopoInv, Planar, TopoInv', Planar',
         NEW e \in L!NewEdgeIds(Edges), NEW m \in DOMAIN at, NEW n \in DOMAIN at, NEW g \in Lines,
         NEW modFace \in BOOLEAN, AddEdge(e, m, n, g, modFace),
         NEW col, NowMap(col)
  PROVE  NewFaces(col)
<1>1. PICK z : z = L!With(az, e, Leaving(g), Arriving(g))  OBVIOUS
<1>2. PICK f : f = EdgeFace(e, m, n, z)  OBVIOUS
<1>3. /\ LegalEdge(m, n, g) /\ geom' = WithEdge(geom, e, g) /\ org' = L!With(org, e, m, n)
      /\ next' = L!AddLinks(e, m, n, z) /\ at' = at
      /\ \E u : /\ AddedTo(e, m, n, g, EdgeFace(e, m, n, z), next', geom', u)
                /\ Stored(EdgeFace(e, m, n, z), u)
  BY <1>1, AddEdgeCall
<1>4. PICK u : AddedTo(e, m, n, g, f, next', geom', u) /\ Stored(f, u)
  BY <1>2, <1>3
<1>5. NowMap(col)  OBVIOUS
<1>6. f = col[LeftCell(<<g[1], g[2]>>)] /\ f \in DOMAIN face
  <2>1. PICK X : X = col[LeftCell(<<g[1], g[2]>>)]  OBVIOUS
  <2>2. EdgeFace(e, m, n, z) = X /\ X \in DOMAIN face  BY <1>1, <1>3, <1>5, <2>1, EdgeFaceIs
  <2>3. QED  BY <1>2, <2>1, <2>2
<1>7. PICK t : t = [id |-> 0, face |-> face, side |-> L!With(side, e, f, f),
                    inface |-> [k \in DOMAIN at |-> IF k \in {m, n} THEN None ELSE inface[k]]]
  OBVIOUS
<1>8. /\ DOMAIN next = Darts /\ DOMAIN inface = DOMAIN at /\ e # -e
      /\ \A k \in DOMAIN at : inface[k] # None => L!Out(k) = {}
  BY InvFacts, NewEdge DEF Darts
<1>9. /\ DOMAIN next' = DOMAIN next \cup {e, -e}
  BY <1>3, <1>8 DEF L!AddLinks, L!With, L!Darts
<1>10. Around(t, geom, next, geom', org', next', e, inface, side, face, col, f)
  BY <1>3, <1>5, <1>6, <1>7, <1>9, NewAround
<1>11. Grows(at, geom, org, next, geom', org', next', e)  BY <1>3, <1>9, NewLine
<1>12. \/ m # n /\ (inface[m] # None \/ inface[n] # None) /\ u = [ids |-> <<>>, t |-> t]
       \/ u = SplitKeepingFace(t, next', geom', e, f)
       \/ u = SplitReplacingFace(t, next', geom', e, f)
  <2> DEFINE nx2 == next'
             H == geom'
  <2>1. AddedTo(e, m, n, g, f, nx2, H, u)  BY <1>4
  <2> HIDE DEF nx2, H
  <2>2. \/ m # n /\ (inface[m] # None \/ inface[n] # None) /\ u = [ids |-> <<>>, t |-> t]
        \/ u = SplitKeepingFace(t, nx2, H, e, f)
        \/ u = SplitReplacingFace(t, nx2, H, e, f)
    BY <1>7, <2>1 DEF AddedTo
  <2>3. QED  BY <2>2 DEF nx2, H
<1>13. m # n /\ inface[m] # None => next'[-e] = e
  <2>1. SUFFICES ASSUME m # n, inface[m] # None  PROVE next'[-e] = e  OBVIOUS
  <2>2. L!Out(m) = {}  BY <1>8, <2>1
  <2>3. QED  BY <1>3, <1>8, <2>1, <2>2 DEF L!AddLinks, L!With
<1>14. m # n /\ inface[n] # None => next'[e] = -e
  <2>1. SUFFICES ASSUME m # n, inface[n] # None  PROVE next'[e] = -e  OBVIOUS
  <2>2. L!Out(n) = {}  BY <1>8, <2>1
  <2>3. QED  BY <1>3, <1>8, <2>1, <2>2 DEF L!AddLinks, L!With
<1> DEFINE H == geom'
           o2 == org'
           nx2 == next'
<1>15. /\ Around(t, geom, next, H, o2, nx2, e, inface, side, face, col, f)
       /\ Grows(at, geom, org, next, H, o2, nx2, e)
       /\ m # n /\ (inface[m] # None \/ inface[n] # None) => nx2[e] = -e \/ nx2[-e] = e
       /\ \/ m # n /\ (inface[m] # None \/ inface[n] # None) /\ u = [ids |-> <<>>, t |-> t]
          \/ u = SplitKeepingFace(t, nx2, H, e, f)
          \/ u = SplitReplacingFace(t, nx2, H, e, f)
  BY <1>10, <1>11, <1>12, <1>13, <1>14
<1> HIDE DEF H, o2, nx2
<1>16. Net(at, H, o2, nx2) /\ e \in DOMAIN nx2 /\ -e \in DOMAIN nx2
  BY <1>15, GrowsFacts DEF Grows
<1>17. Redrawn(H, DOMAIN nx2, face, col, f, u.ids, u.t.inface, u.t.side, u.t.face)
  <2>1. CASE -e \in RingOf(nx2, e)
    <3>1. \/ u = SplitKeepingFace(t, nx2, H, e, f)
          \/ u = SplitReplacingFace(t, nx2, H, e, f)
          \/ u = [ids |-> <<>>, t |-> t]
      BY <1>15
    <3>2. QED  BY <1>15, <2>1, <3>1, NothingSplit
  <2>2. CASE -e \notin RingOf(nx2, e)
    <3>1. ~(nx2[e] = -e \/ nx2[-e] = e)  BY <1>16, <2>2, TurnsBack
    <3>2. CASE u = SplitKeepingFace(t, nx2, H, e, f)  BY <1>15, <2>2, <3>2, KeepingMapped
    <3>3. CASE u = SplitReplacingFace(t, nx2, H, e, f)  BY <1>15, <2>2, <3>3, ReplacingMapped
    <3>4. QED  BY <1>15, <3>1, <3>2, <3>3
  <2>3. QED  BY <2>1, <2>2
<1>18. PICK col2 : /\ FaceMap(at, u.t.inface, H, DOMAIN nx2, u.t.side, u.t.face, col2)
                   /\ Recoloured(face, u.t.face, col, col2, f, u.ids)
  BY <1>17 DEF Redrawn
<1>19. NowMap(col2)'  BY <1>3, <1>4, <1>18 DEF NowMap, Stored, H, nx2, Darts
<1>20. Recoloured(face, face', col, col2, f, u.ids)  BY <1>4, <1>18 DEF Stored
<1>21. PICK ids : ids = u.ids  OBVIOUS
<1>22. relation' = IF ids = <<>> \/ f = Universe THEN relation
                   ELSE updateTopoGeomFaceSplit(f, ids[1], ids[2])
  BY <1>4, <1>21 DEF Stored
<1>23. QED  BY <1>6, <1>19, <1>20, <1>21, <1>22 DEF NewFaces

\* All the calls that add them do.
LEMMA AddOpsFaces ==
  ASSUME TopoInv, Planar, TopoInv', Planar', AddOps, NEW col, NowMap(col)
  PROVE  NewFaces(col)
<1>1. PICK e \in L!NewEdgeIds(Edges), m \in DOMAIN at, n \in DOMAIN at, g \in Lines :
        AddIsoEdge(e, m, n, g) \/ \E modFace \in BOOLEAN : AddEdge(e, m, n, g, modFace)
  BY Zenon DEF AddOps
<1>2. CASE AddIsoEdge(e, m, n, g)  BY <1>2, AddIsoEdgeFaces
<1>3. ASSUME NEW modFace \in BOOLEAN, AddEdge(e, m, n, g, modFace)  PROVE NewFaces(col)
  BY <1>3, AddEdgeFaces
<1>4. QED  BY <1>1, <1>2, <1>3
=============================================================================
