------------------------------ MODULE GridGeom ------------------------------
(***************************************************************************)
(* The plane geometry that liblwgeom/lwgeom_topo.c computes with, on a     *)
(* grid of Width by Height unit cells.  A point is a grid vertex, a line   *)
(* is a sequence of vertices each one unit from the next, and a cell is    *)
(* named by its south-west vertex.  All points outside the grid make one   *)
(* cell, Outer.                                                            *)
(***************************************************************************)
EXTENDS Integers, Sequences, SequencesExt, FiniteSetsExt

CONSTANTS Width, Height

ASSUME GridAssumption == Width \in Nat \ {0} /\ Height \in Nat \ {0}

Vertices == (0 .. Width) \X (0 .. Height)
Outer    == <<-1, -1>>
Cells    == ((0 .. Width - 1) \X (0 .. Height - 1)) \cup {Outer}

CellAt(x, y) == IF <<x, y>> \in Cells THEN <<x, y>> ELSE Outer

-----------------------------------------------------------------------------
(* Directions. *)

Sign(i) == IF i > 0 THEN 1 ELSE IF i < 0 THEN -1 ELSE 0

\* Clockwise from north.  Lines leave a vertex at the even ones; the odd ones
\* stand for all directions between two of those.
Compass == << <<0, 1>>, <<1, 1>>, <<1, 0>>, <<1, -1>>,
              <<0, -1>>, <<-1, -1>>, <<-1, 0>>, <<-1, 1>> >>

azimuth_pt_pt(p, q) ==
  (CHOOSE i \in 1 .. 8 : Compass[i] = <<Sign(q[1] - p[1]), Sign(q[2] - p[2])>>) - 1

-----------------------------------------------------------------------------
(* Lines and sets of directed unit steps <<p, q>>. *)

Steps(line) == {<<line[i], line[i + 1]>> : i \in 1 .. Len(line) - 1}

Undirected(steps) == {{s[1], s[2]} : s \in steps}

Ends(line) == {line[1], Last(line)}
InteriorPoints(line) == {line[i] : i \in 2 .. Len(line) - 1}

LeftCell(s) ==
  LET dx == s[2][1] - s[1][1]
      dy == s[2][2] - s[1][2]
  IN  CellAt(s[1][1] + (dx - dy - 1) \div 2, s[1][2] + (dx + dy - 1) \div 2)

RightCell(s) == LeftCell(<<s[2], s[1]>>)

\* The line does not meet itself, save at its ends if it is closed.
lwgeom_is_simple(line) ==
  /\ Cardinality(InteriorPoints(line)) = Len(line) - 2
  /\ InteriorPoints(line) \cap Ends(line) = {}
  /\ Cardinality(Undirected(Steps(line))) = Len(line) - 1

\* The interiors of two lines have a point in common.
InteriorsMeet(g, h) ==
  \/ InteriorPoints(g) \cap InteriorPoints(h) # {}
  \/ Undirected(Steps(g)) \cap Undirected(Steps(h)) # {}

\* How often the steps wind around the point, or the cell north-east of it: the
\* steps north minus the steps south that a ray to the east from it crosses.
Winding(steps, p) ==
  LET east(dy) == {s \in steps : /\ s[1][1] > p[1]
                                 /\ s[2][2] - s[1][2] = dy
                                 /\ (IF dy = 1 THEN s[1][2] ELSE s[2][2]) = p[2]}
  IN  Cardinality(east(1)) - Cardinality(east(-1))

\* LW_INSIDE of ptarray_contains_point: a point on the steps is not inside.
ptarray_contains_point(steps, p) ==
  /\ \A s \in steps : p \notin {s[1], s[2]}
  /\ Winding(steps, p) # 0

\* The sum of the y of the west steps minus that of the east steps: the area of
\* a counterclockwise ring, minus the area of a clockwise one.
Area(steps) == MapThenSumSet(LAMBDA s : (s[1][1] - s[2][1]) * s[1][2], steps)

\* A ring of no area counts as counterclockwise.
ptarray_isccw(steps) == Area(steps) >= 0

-----------------------------------------------------------------------------
(* Bounding boxes. *)

BoxOf(points) ==
  [xmin |-> Min({p[1] : p \in points}), xmax |-> Max({p[1] : p \in points}),
   ymin |-> Min({p[2] : p \in points}), ymax |-> Max({p[2] : p \in points})]

\* mutant: the second box is lost
gbox_first(a, b) == a

gbox_merge(a, b) ==
  [xmin |-> Min({a.xmin, b.xmin}), xmax |-> Max({a.xmax, b.xmax}),
   ymin |-> Min({a.ymin, b.ymin}), ymax |-> Max({a.ymax, b.ymax})]

\* The && operator.
BoxesOverlap(a, b) ==
  /\ a.xmin <= b.xmax /\ b.xmin <= a.xmax
  /\ a.ymin <= b.ymax /\ b.ymin <= a.ymax

gbox_contains_2d(a, b) ==
  /\ a.xmin <= b.xmin /\ b.xmax <= a.xmax
  /\ a.ymin <= b.ymin /\ b.ymax <= a.ymax

StepsBox(steps) == BoxOf({s[1] : s \in steps} \cup {s[2] : s \in steps})

-----------------------------------------------------------------------------
(* The regions into which walls, a set of undirected steps, cut the plane.  *)

GridSteps ==
  {<<<<x, y>>, <<x + 1, y>>>> : x \in 0 .. Width - 1, y \in 0 .. Height}
  \cup {<<<<x, y>>, <<x, y + 1>>>> : x \in 0 .. Width, y \in 0 .. Height - 1}

\* Pairs of cells on the two sides of a grid step.
Borders == {[step |-> {s[1], s[2]}, cells |-> {LeftCell(s), RightCell(s)}] : s \in GridSteps}

\* All cells that can be reached from those of S without crossing a wall.
Reach(walls, S) ==
  LET open == {b.cells : b \in {c \in Borders : c.step \notin walls}}
      spread[X \in SUBSET Cells] ==
        LET Y == X \cup UNION {o \in open : o \cap X # {}}
        IN  IF Y = X THEN X ELSE spread[Y]
  IN  spread[S]

Regions(walls) ==
  LET regions[X \in SUBSET Cells] ==
        IF X = {} THEN {}
        ELSE LET r == Reach(walls, {CHOOSE c \in X : TRUE}) IN {r} \cup regions[X \ r]
  IN  regions[Cells]

\* The bounding box of a region without Outer.
RegionBox(cells) ==
  BoxOf(UNION {{<<c[1], c[2]>>, <<c[1] + 1, c[2] + 1>>} : c \in cells})
=============================================================================
