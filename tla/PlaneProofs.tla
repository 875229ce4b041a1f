---------------------------- MODULE PlaneProofs -----------------------------
(***************************************************************************)
(* The plane in which a topology is drawn.  After any sequence of calls    *)
(* edges meet only at nodes: Planar.  Where they do, the rings of darts    *)
(* that next_left_edge and next_right_edge make are closed curves, and     *)
(* each of them turns one way: its winding number is the same all along    *)
(* its left, and on its right one less, or the same where it goes back.    *)
(* What is inside a ring, and which way it turns, is thus found from its   *)
(* area, as AddFaceSplit does.                                             *)
(*                                                                         *)
(* Regions of cells, the area of a ring and winding numbers are defined by *)
(* recursion.  What they are is stated without: a region as the cells that *)
(* no enclosed set parts from one (Connected), an area as a balance of the *)
(* squares below steps.  The recursive functions are shown to be these, as *)
(* the only ones that satisfy their equations on sets that can be counted. *)
(***************************************************************************)
EXTENDS TopologyProofs, FunctionTheorems

-----------------------------------------------------------------------------
(* Unit steps of the grid. *)

East(x, y)  == <<<<x, y>>, <<x + 1, y>>>>
West(x, y)  == <<<<x + 1, y>>, <<x, y>>>>
North(x, y) == <<<<x, y>>, <<x, y + 1>>>>
South(x, y) == <<<<x, y + 1>>, <<x, y>>>>

\* Steps between neighbouring vertices, in both directions.
UnitSteps ==
  {East(x, y) : x \in 0 .. Width - 1, y \in 0 .. Height}
  \cup {West(x, y) : x \in 0 .. Width - 1, y \in 0 .. Height}
  \cup {North(x, y) : x \in 0 .. Width, y \in 0 .. Height - 1}
  \cup {South(x, y) : x \in 0 .. Width, y \in 0 .. Height - 1}

\* The same step the other way.
Back(s) == <<s[2], s[1]>>

\* The grid has cells.
LEMMA GridSize == Width \in Nat /\ Width > 0 /\ Height \in Nat /\ Height > 0
  BY GridAssumption

\* A unit step goes in one of the four directions.
LEMMA UnitCases ==
  ASSUME NEW s \in UnitSteps
  PROVE  \E x, y \in Int :
           \/ s = East(x, y) /\ x \in 0 .. Width - 1 /\ y \in 0 .. Height
           \/ s = West(x, y) /\ x \in 0 .. Width - 1 /\ y \in 0 .. Height
           \/ s = North(x, y) /\ x \in 0 .. Width /\ y \in 0 .. Height - 1
           \/ s = South(x, y) /\ x \in 0 .. Width /\ y \in 0 .. Height - 1
<1>1. /\ 0 .. Width - 1 \subseteq Int /\ 0 .. Height \subseteq Int
      /\ 0 .. Width \subseteq Int /\ 0 .. Height - 1 \subseteq Int
  BY GridSize
<1>2. QED  BY <1>1 DEF UnitSteps

\* What is left and right of a step along a row ...
LEMMA EastStep ==
  ASSUME NEW x \in Int, NEW y \in Int
  PROVE  /\ LeftCell(East(x, y)) = CellAt(x, y)
         /\ RightCell(East(x, y)) = CellAt(x, y - 1)
         /\ LeftCell(West(x, y)) = CellAt(x, y - 1)
         /\ RightCell(West(x, y)) = CellAt(x, y)
         /\ Back(East(x, y)) = West(x, y) /\ Back(West(x, y)) = East(x, y)
<1>1. LeftCell(East(x, y)) = CellAt(x, y)  BY DEF LeftCell, East
<1>2. LeftCell(West(x, y)) = CellAt(x, y - 1)  BY DEF LeftCell, West
<1>3. Back(East(x, y)) = West(x, y) /\ Back(West(x, y)) = East(x, y)  BY DEF Back, East, West
<1>4. QED  BY <1>1, <1>2, <1>3 DEF RightCell, Back

\* ... and along a column.
LEMMA NorthStep ==
  ASSUME NEW x \in Int, NEW y \in Int
  PROVE  /\ LeftCell(North(x, y)) = CellAt(x - 1, y)
         /\ RightCell(North(x, y)) = CellAt(x, y)
         /\ LeftCell(South(x, y)) = CellAt(x, y)
         /\ RightCell(South(x, y)) = CellAt(x - 1, y)
         /\ Back(North(x, y)) = South(x, y) /\ Back(South(x, y)) = North(x, y)
<1>1. LeftCell(North(x, y)) = CellAt(x - 1, y)  BY DEF LeftCell, North
<1>2. LeftCell(South(x, y)) = CellAt(x, y)  BY DEF LeftCell, South
<1>3. Back(North(x, y)) = South(x, y) /\ Back(South(x, y)) = North(x, y)
  BY DEF Back, North, South
<1>4. QED  BY <1>1, <1>2, <1>3 DEF RightCell, Back

\* Around a point of the grid are cells of it, or the outside.
LEMMA CellFacts ==
  ASSUME NEW x \in Int, NEW y \in Int
  PROVE  /\ CellAt(x, y) \in Cells /\ Outer \in Cells
         /\ x \in 0 .. Width - 1 /\ y \in 0 .. Height - 1 => CellAt(x, y) = <<x, y>>
         /\ ~(x \in 0 .. Width - 1 /\ y \in 0 .. Height - 1) => CellAt(x, y) = Outer
<1>1. <<x, y>> \in (0 .. Width - 1) \X (0 .. Height - 1)
        <=> x \in 0 .. Width - 1 /\ y \in 0 .. Height - 1
  OBVIOUS
<1>2. <<x, y>> = Outer => ~(x \in 0 .. Width - 1 /\ y \in 0 .. Height - 1)  BY DEF Outer
<1>3. QED  BY <1>1, <1>2 DEF CellAt, Cells

\* Every cell is the one at some point.
LEMMA CellIntro ==
  ASSUME NEW c \in Cells
  PROVE  \E x, y \in Int : c = CellAt(x, y) /\ x \in -1 .. Width - 1 /\ y \in -1 .. Height - 1
<1>1. CASE c = Outer
  <2>1. CellAt(-1, -1) = Outer  BY CellFacts
  <2>2. -1 \in Int /\ -1 \in -1 .. Width - 1 /\ -1 \in -1 .. Height - 1  BY GridSize
  <2>3. QED  BY <1>1, <2>1, <2>2
<1>2. CASE c # Outer
  <2>1. PICK x \in 0 .. Width - 1, y \in 0 .. Height - 1 : c = <<x, y>>  BY <1>2 DEF Cells
  <2>2. x \in Int /\ y \in Int /\ x \in -1 .. Width - 1 /\ y \in -1 .. Height - 1
    BY GridSize
  <2>3. c = CellAt(x, y)  BY <2>1, <2>2, CellFacts
  <2>4. QED  BY <2>2, <2>3
<1>3. QED  BY <1>1, <1>2

\* A unit step is a step of the grid or the reverse of one.
LEMMA UnitGrid ==
  ASSUME NEW s
  PROVE  s \in UnitSteps <=> s \in GridSteps \/ \E t \in GridSteps : s = Back(t)
<1>1. GridSteps = {East(x, y) : x \in 0 .. Width - 1, y \in 0 .. Height}
                  \cup {North(x, y) : x \in 0 .. Width, y \in 0 .. Height - 1}
  BY DEF GridSteps, East, North
<1>2. \A x, y \in Int : Back(East(x, y)) = West(x, y) /\ Back(North(x, y)) = South(x, y)
  BY EastStep, NorthStep
<1>3. 0 .. Width - 1 \subseteq Int /\ 0 .. Height \subseteq Int /\ 0 .. Width \subseteq Int
      /\ 0 .. Height - 1 \subseteq Int
  BY GridSize
<1>4. ASSUME NEW t \in GridSteps PROVE Back(t) \in UnitSteps
  <2>1. CASE \E x \in 0 .. Width - 1, y \in 0 .. Height : t = East(x, y)
    BY <2>1, <1>2, <1>3 DEF UnitSteps
  <2>2. CASE \E x \in 0 .. Width, y \in 0 .. Height - 1 : t = North(x, y)
    BY <2>2, <1>2, <1>3 DEF UnitSteps
  <2>3. QED  BY <1>1, <2>1, <2>2
<1>5. GridSteps \subseteq UnitSteps  BY <1>1 DEF UnitSteps
<1>6. ASSUME s \in UnitSteps PROVE s \in GridSteps \/ \E t \in GridSteps : s = Back(t)
  <2>1. PICK x \in Int, y \in Int :
           \/ s = East(x, y) /\ x \in 0 .. Width - 1 /\ y \in 0 .. Height
           \/ s = West(x, y) /\ x \in 0 .. Width - 1 /\ y \in 0 .. Height
           \/ s = North(x, y) /\ x \in 0 .. Width /\ y \in 0 .. Height - 1
           \/ s = South(x, y) /\ x \in 0 .. Width /\ y \in 0 .. Height - 1
    BY <1>6, UnitCases
  <2>2. CASE s = West(x, y) /\ x \in 0 .. Width - 1 /\ y \in 0 .. Height
    BY <2>2, <1>1, <1>2
  <2>3. CASE s = South(x, y) /\ x \in 0 .. Width /\ y \in 0 .. Height - 1
    BY <2>3, <1>1, <1>2
  <2>4. QED  BY <1>1, <2>1, <2>2, <2>3
<1>7. QED  BY <1>4, <1>5, <1>6

-----------------------------------------------------------------------------
(* Functions on cells that change only at walls, and sets of cells that     *)
(* walls enclose.                                                           *)

\* The colours k of cells change nowhere but at walls.
Smooth(walls, k) ==
  \A b \in Borders : b.step \notin walls => \A c, d \in b.cells : k[c] = k[d]

\* A step with the cells on its sides is a border.
LEMMA BorderOf ==
  ASSUME NEW s \in UnitSteps
  PROVE  [step |-> {s[1], s[2]}, cells |-> {LeftCell(s), RightCell(s)}] \in Borders
<1>1. CASE s \in GridSteps  BY <1>1 DEF Borders
<1>2. ASSUME NEW t \in GridSteps, s = Back(t)
      PROVE  [step |-> {s[1], s[2]}, cells |-> {LeftCell(s), RightCell(s)}] \in Borders
  <2>1. [step |-> {t[1], t[2]}, cells |-> {LeftCell(t), RightCell(t)}] \in Borders
    BY DEF Borders
  <2>2. s[1] = t[2] /\ s[2] = t[1]  BY <1>2 DEF Back
  <2>3. t = Back(s)
    <3>1. PICK x \in Int, y \in Int : t = East(x, y) \/ t = North(x, y)
      BY GridSize DEF GridSteps, East, North
    <3>2. QED  BY <1>2, <3>1 DEF Back, East, North
  <2>4. LeftCell(s) = RightCell(t) /\ RightCell(s) = LeftCell(t)
    BY <1>2, <2>3 DEF RightCell, Back
  <2>5. {s[1], s[2]} = {t[1], t[2]} /\ {LeftCell(s), RightCell(s)} = {LeftCell(t), RightCell(t)}
    BY <2>2, <2>4
  <2>6. QED  BY <2>1, <2>5
<1>3. QED  BY <1>1, <1>2, UnitGrid

\* A border lies between the cells on the two sides of a unit step.
LEMMA BorderIs ==
  ASSUME NEW b \in Borders
  PROVE  \E s \in UnitSteps : b = [step |-> {s[1], s[2]}, cells |-> {LeftCell(s), RightCell(s)}]
  BY UnitGrid DEF Borders

\* Across a step that is no wall the colour stays.
LEMMA SmoothAcross ==
  ASSUME NEW walls, NEW k, Smooth(walls, k), NEW s \in UnitSteps, {s[1], s[2]} \notin walls
  PROVE  k[LeftCell(s)] = k[RightCell(s)]
<1> DEFINE b == [step |-> {s[1], s[2]}, cells |-> {LeftCell(s), RightCell(s)}]
<1>1. b \in Borders  BY BorderOf
<1>2. b.step \notin walls /\ LeftCell(s) \in b.cells /\ RightCell(s) \in b.cells  OBVIOUS
<1>3. QED  BY <1>1, <1>2 DEF Smooth

\* It is enough to look at unit steps.
LEMMA SmoothIntro ==
  ASSUME NEW walls, NEW k,
         \A s \in UnitSteps : {s[1], s[2]} \notin walls => k[LeftCell(s)] = k[RightCell(s)]
  PROVE  Smooth(walls, k)
<1> SUFFICES ASSUME NEW b \in Borders, b.step \notin walls, NEW c \in b.cells, NEW d \in b.cells
             PROVE  k[c] = k[d]
  BY DEF Smooth
<1>1. PICK s \in UnitSteps : b = [step |-> {s[1], s[2]}, cells |-> {LeftCell(s), RightCell(s)}]
  BY BorderIs
<1>2. {s[1], s[2]} \notin walls /\ c \in {LeftCell(s), RightCell(s)}
      /\ d \in {LeftCell(s), RightCell(s)}
  BY <1>1
<1>3. QED  BY <1>2

\* The same, over the grid and beyond it.
LEMMA SmoothRows ==
  ASSUME NEW walls, NEW k, Smooth(walls, k), NEW x \in Int, NEW y \in Int
  PROVE  /\ {<<x, y>>, <<x + 1, y>>} \notin walls => k[CellAt(x, y)] = k[CellAt(x, y - 1)]
         /\ {<<x, y>>, <<x, y + 1>>} \notin walls => k[CellAt(x - 1, y)] = k[CellAt(x, y)]
<1>1. ASSUME {<<x, y>>, <<x + 1, y>>} \notin walls
      PROVE  k[CellAt(x, y)] = k[CellAt(x, y - 1)]
  <2>1. CASE x \in 0 .. Width - 1 /\ y \in 0 .. Height
    <3>1. East(x, y) \in UnitSteps  BY <2>1 DEF UnitSteps
    <3>2. East(x, y)[1] = <<x, y>> /\ East(x, y)[2] = <<x + 1, y>>  BY DEF East
    <3>3. QED  BY <1>1, <3>1, <3>2, SmoothAcross, EastStep
  <2>2. CASE ~(x \in 0 .. Width - 1 /\ y \in 0 .. Height)
    <3>1. CellAt(x, y) = Outer /\ CellAt(x, y - 1) = Outer  BY <2>2, CellFacts, GridSize
    <3>2. QED  BY <3>1
  <2>3. QED  BY <2>1, <2>2
<1>2. ASSUME {<<x, y>>, <<x, y + 1>>} \notin walls
      PROVE  k[CellAt(x - 1, y)] = k[CellAt(x, y)]
  <2>1. CASE x \in 0 .. Width /\ y \in 0 .. Height - 1
    <3>1. North(x, y) \in UnitSteps  BY <2>1 DEF UnitSteps
    <3>2. North(x, y)[1] = <<x, y>> /\ North(x, y)[2] = <<x, y + 1>>  BY DEF North
    <3>3. QED  BY <1>2, <3>1, <3>2, SmoothAcross, NorthStep
  <2>2. CASE ~(x \in 0 .. Width /\ y \in 0 .. Height - 1)
    <3>1. CellAt(x, y) = Outer /\ CellAt(x - 1, y) = Outer  BY <2>2, CellFacts, GridSize
    <3>2. QED  BY <3>1
  <2>3. QED  BY <2>1, <2>2
<1>3. QED  BY <1>1, <1>2

-----------------------------------------------------------------------------
(* Regions of cells. *)

\* No way leads out of X but through a wall.
Enclosed(walls, X) ==
  \A b \in Borders : b.step \notin walls /\ b.cells \cap X # {} => b.cells \subseteq X

\* No enclosed set separates d from c.
Connected(walls, c, d) == \A X \in SUBSET Cells : Enclosed(walls, X) /\ c \in X => d \in X

\* The region of cell c.
Region(walls, c) == {d \in Cells : Connected(walls, c, d)}

\* A border lies between cells.
LEMMA BorderCells == \A b \in Borders : b.cells \subseteq Cells
<1> SUFFICES ASSUME NEW b \in Borders PROVE b.cells \subseteq Cells  OBVIOUS
<1>1. PICK s \in UnitSteps : b = [step |-> {s[1], s[2]}, cells |-> {LeftCell(s), RightCell(s)}]
  BY BorderIs
<1>2. LeftCell(s) \in Cells /\ RightCell(s) \in Cells
  <2>1. PICK x \in Int, y \in Int :
          s = East(x, y) \/ s = West(x, y) \/ s = North(x, y) \/ s = South(x, y)
    BY UnitCases
  <2>2. x - 1 \in Int /\ y - 1 \in Int  OBVIOUS
  <2>3. CellAt(x, y) \in Cells /\ CellAt(x - 1, y) \in Cells /\ CellAt(x, y - 1) \in Cells
    BY <2>2, CellFacts
  <2>4. QED  BY <2>1, <2>3, EastStep, NorthStep
<1>3. QED  BY <1>1, <1>2

\* What is around an enclosed set is enclosed.
LEMMA Complement ==
  ASSUME NEW walls, NEW X \in SUBSET Cells, Enclosed(walls, X)
  PROVE  Enclosed(walls, Cells \ X)
  BY BorderCells DEF Enclosed

\* To be connected is an equivalence of cells.
LEMMA ConnectedIs ==
  ASSUME NEW walls, NEW c \in Cells, NEW d \in Cells
  PROVE  /\ Connected(walls, c, c)
         /\ Connected(walls, c, d) => Connected(walls, d, c)
         /\ \A e : Connected(walls, c, d) /\ Connected(walls, d, e) => Connected(walls, c, e)
<1>1. ASSUME Connected(walls, c, d) PROVE Connected(walls, d, c)
  <2> SUFFICES ASSUME NEW X \in SUBSET Cells, Enclosed(walls, X), d \in X, c \notin X
               PROVE  FALSE
    BY DEF Connected
  <2>1. Enclosed(walls, Cells \ X) /\ Cells \ X \in SUBSET Cells /\ c \in Cells \ X
    BY Complement
  <2>2. QED  BY <1>1, <2>1 DEF Connected
<1>2. QED  BY <1>1 DEF Connected

\* Connected cells have one colour.
LEMMA SmoothConnected ==
  ASSUME NEW walls, NEW k, Smooth(walls, k), NEW c \in Cells, NEW d, Connected(walls, c, d)
  PROVE  k[c] = k[d]
<1> DEFINE X == {e \in Cells : k[e] = k[c]}
<1>1. Enclosed(walls, X)
  <2> SUFFICES ASSUME NEW b \in Borders, b.step \notin walls, NEW e \in b.cells, e \in X,
                      NEW f \in b.cells
               PROVE  f \in X
    BY DEF Enclosed
  <2>1. k[e] = k[f] /\ f \in Cells  BY BorderCells DEF Smooth
  <2>2. QED  BY <2>1
<1>2. QED  BY <1>1 DEF Connected

\* A region is enclosed by walls.
LEMMA EnclosedRegion ==
  ASSUME NEW walls, NEW c \in Cells
  PROVE  Enclosed(walls, Region(walls, c)) /\ c \in Region(walls, c)
<1>1. c \in Region(walls, c)  BY ConnectedIs DEF Region
<1> SUFFICES ASSUME NEW b \in Borders, b.step \notin walls, NEW e \in b.cells,
                    e \in Region(walls, c), NEW f \in b.cells
             PROVE  f \in Region(walls, c)
  BY <1>1 DEF Enclosed
<1>2. f \in Cells  BY BorderCells
<1>3. Connected(walls, e, f)  BY DEF Connected, Enclosed
<1>4. QED  BY <1>2, <1>3 DEF Region, Connected

\* There are finitely many cells.
LEMMA CellsFinite == IsFiniteSet(Cells)
<1>1. IsFiniteSet(0 .. Width - 1) /\ IsFiniteSet(0 .. Height - 1)
  <2>1. 0 \in Int /\ Width - 1 \in Int /\ Height - 1 \in Int  BY GridSize
  <2>2. QED  BY <2>1, FS_Interval
<1>2. QED  BY <1>1, FS_Product, FS_Singleton, FS_Union DEF Cells

-----------------------------------------------------------------------------
(* What Reach and Regions compute.                                          *)

\* X with the cells next to it that no wall parts from it.
Grown(walls, X) ==
  X \cup UNION {o \in {b.cells : b \in {c \in Borders : c.step \notin walls}} : o \cap X # {}}

\* The cells connected with X.
Hull(walls, X) == {d \in Cells : \E c \in X : Connected(walls, c, d)}

\* To grow a set stays within what is connected with it.
LEMMA GrownIs ==
  ASSUME NEW walls, NEW X \in SUBSET Cells
  PROVE  /\ X \subseteq Grown(walls, X) /\ Grown(walls, X) \in SUBSET Cells
         /\ Grown(walls, X) = X => Hull(walls, X) = X
         /\ Hull(walls, Grown(walls, X)) = Hull(walls, X)
<1>1. X \subseteq Grown(walls, X) /\ Grown(walls, X) \in SUBSET Cells
  BY BorderCells DEF Grown
<1>2. ASSUME Grown(walls, X) = X PROVE Hull(walls, X) = X
  <2>1. Enclosed(walls, X)
    <3> SUFFICES ASSUME NEW b \in Borders, b.step \notin walls, b.cells \cap X # {}
                 PROVE  b.cells \subseteq X
      BY DEF Enclosed
    <3>1. b.cells \in {o \in {a.cells : a \in {c \in Borders : c.step \notin walls}} : o \cap X # {}}
      OBVIOUS
    <3>2. QED  BY <3>1, <1>2 DEF Grown
  <2>2. QED  BY <2>1, ConnectedIs DEF Hull, Connected
<1>3. ASSUME NEW d \in Cells, NEW e \in Grown(walls, X), Connected(walls, e, d)
      PROVE  \E c \in X : Connected(walls, c, d)
  <2>1. CASE e \in X  BY <1>3, <2>1
  <2>2. CASE e \notin X
    <3>1. PICK b \in Borders : b.step \notin walls /\ e \in b.cells /\ b.cells \cap X # {}
      BY <2>2 DEF Grown
    <3>2. PICK c \in b.cells : c \in X  BY <3>1
    <3>3. Connected(walls, c, e)  BY <3>1, <3>2 DEF Connected, Enclosed
    <3>4. QED  BY <1>3, <3>2, <3>3 DEF Connected
  <2>3. QED  BY <2>1, <2>2
<1>4. QED  BY <1>1, <1>2, <1>3 DEF Hull

\* The recursion of Reach has one solution.
LEMMA Spreading ==
  ASSUME NEW walls
  PROVE  /\ [X \in SUBSET Cells |-> Hull(walls, X)]
              = [X \in SUBSET Cells |->
                   IF Grown(walls, X) = X THEN X
                   ELSE [Y \in SUBSET Cells |-> Hull(walls, Y)][Grown(walls, X)]]
         /\ \A g : g = [X \in SUBSET Cells |->
                          IF Grown(walls, X) = X THEN X ELSE g[Grown(walls, X)]]
                     => \A X \in SUBSET Cells : g[X] = Hull(walls, X)
<1>1. ASSUME NEW X \in SUBSET Cells
      PROVE  Hull(walls, X)
               = IF Grown(walls, X) = X THEN X
                 ELSE [Y \in SUBSET Cells |-> Hull(walls, Y)][Grown(walls, X)]
  BY GrownIs
<1>2. ASSUME NEW g, g = [X \in SUBSET Cells |->
                          IF Grown(walls, X) = X THEN X ELSE g[Grown(walls, X)]],
             NEW X \in SUBSET Cells, g[X] # Hull(walls, X)
      PROVE  FALSE
  <2> DEFINE Left(Y) == Cardinality(Cells \ Y)
             T == {Left(Y) : Y \in {Z \in SUBSET Cells : g[Z] # Hull(walls, Z)}}
  <2>0. \A Y \in SUBSET Cells : Left(Y) \in Nat
    <3> TAKE Y \in SUBSET Cells
    <3>1. IsFiniteSet(Cells \ Y)  BY CellsFinite, FS_Difference
    <3>2. QED  BY <3>1, FS_CardinalityType
  <2>1. T \in SUBSET Nat /\ T # {}  BY <1>2, <2>0
  <2>2. Min(T) \in T /\ \A i \in T : Min(T) <= i
    <3> HIDE DEF T
    <3>1. QED  BY <2>1, LeastOf
  <2>3. PICK Y \in SUBSET Cells : g[Y] # Hull(walls, Y) /\ Min(T) = Left(Y)
    BY <2>2
  <2> DEFINE Z == Grown(walls, Y)
  <2>4. g[Y] = IF Z = Y THEN Y ELSE g[Z]  BY <1>2
  <2>5. Y \subseteq Z /\ Z \in SUBSET Cells /\ (Z = Y => Hull(walls, Y) = Y)
        /\ Hull(walls, Z) = Hull(walls, Y)
    BY GrownIs
  <2> HIDE DEF Z
  <2>6. Z # Y /\ g[Z] # Hull(walls, Z)  BY <2>3, <2>4, <2>5
  <2>7. Left(Y) <= Left(Z)  BY <2>2, <2>3, <2>5, <2>6
  <2>8. Left(Z) <= Left(Y) /\ (Left(Z) = Left(Y) => Cells \ Z = Cells \ Y)
    <3>1. IsFiniteSet(Cells \ Y)  BY CellsFinite, FS_Difference
    <3>2. Cells \ Z \in SUBSET (Cells \ Y)  BY <2>5
    <3>3. QED  BY <3>1, <3>2, FS_Subset
  <2>9. Left(Y) \in Nat /\ Left(Z) \in Nat  BY <2>0, <2>5
  <2>10. Cells \ Z = Cells \ Y
    <3> HIDE DEF Left
    <3> QED  BY <2>7, <2>8, <2>9
  <2>11. QED  BY <2>5, <2>6, <2>10
<1>3. QED  BY <1>1, <1>2

\* What the search for a region reaches is what is connected with where it
\* starts.
LEMMA ReachIs ==
  ASSUME NEW walls, NEW S \in SUBSET Cells
  PROVE  Reach(walls, S) = Hull(walls, S)
<1> DEFINE Sol(g) == g = [X \in SUBSET Cells |->
                            IF Grown(walls, X) = X THEN X ELSE g[Grown(walls, X)]]
<1>1. Reach(walls, S) = (CHOOSE g : Sol(g))[S]  BY DEF Reach, Grown
<1>2. \E g : Sol(g)  BY Spreading
<1>3. Sol(CHOOSE g : Sol(g))
  <2> HIDE DEF Sol
  <2> QED  BY <1>2
<1>4. \A g : Sol(g) => g[S] = Hull(walls, S)  BY Spreading
<1>5. QED
  <2> HIDE DEF Sol
  <2> QED  BY <1>1, <1>3, <1>4

\* From one cell it reaches the region of the cell.
LEMMA ReachRegion ==
  ASSUME NEW walls, NEW c \in Cells
  PROVE  Reach(walls, {c}) = Region(walls, c)
  BY ReachIs DEF Hull, Region

\* Two cells have one region just if they are connected.
LEMMA SameRegion ==
  ASSUME NEW walls, NEW c \in Cells, NEW d \in Cells
  PROVE  /\ d \in Region(walls, c) <=> Region(walls, d) = Region(walls, c)
         /\ Region(walls, d) = Region(walls, c) <=> Connected(walls, c, d)
  BY ConnectedIs DEF Region

\* The recursion of Regions has one solution, too.
AnyOf(X) == CHOOSE c \in X : TRUE

\* g divides sets of cells into regions, one after the other, as Regions does.
Divides(walls, g) ==
  g = [X \in SUBSET Cells |->
         IF X = {} THEN {} ELSE {Region(walls, AnyOf(X))} \cup g[X \ Region(walls, AnyOf(X))]]

\* The regions that meet a set of cells.
RegionsMeeting(walls) == [X \in SUBSET Cells |-> {Region(walls, c) : c \in X}]

\* Whatever divides as Regions does, finds the regions that meet a set.
LEMMA Dividing ==
  ASSUME NEW walls
  PROVE  /\ Divides(walls, RegionsMeeting(walls))
         /\ \A g : Divides(walls, g) => \A X \in SUBSET Cells : g[X] = RegionsMeeting(walls)[X]
<1> DEFINE Rest(X) == X \ Region(walls, AnyOf(X))
           All(X) == {Region(walls, c) : c \in X}
<1>1. ASSUME NEW X \in SUBSET Cells, X # {}
      PROVE  /\ AnyOf(X) \in X /\ AnyOf(X) \in Region(walls, AnyOf(X)) /\ Rest(X) \in SUBSET Cells
             /\ All(X) = {Region(walls, AnyOf(X))} \cup All(Rest(X))
  <2>1. AnyOf(X) \in X  BY <1>1 DEF AnyOf
  <2>2. AnyOf(X) \in Region(walls, AnyOf(X))  BY <2>1, EnclosedRegion
  <2>3. \A c \in X \cap Region(walls, AnyOf(X)) : Region(walls, c) = Region(walls, AnyOf(X))
    BY <2>1, SameRegion
  <2>4. All(X) = {Region(walls, AnyOf(X))} \cup All(Rest(X))  BY <2>1, <2>3
  <2>5. QED  BY <2>1, <2>2, <2>4
<1>2. ASSUME NEW X \in SUBSET Cells
      PROVE  All(X) = IF X = {} THEN {}
                      ELSE {Region(walls, AnyOf(X))} \cup [Y \in SUBSET Cells |-> All(Y)][Rest(X)]
  <2>1. CASE X = {}  BY <2>1
  <2>2. CASE X # {}
    <3>1. /\ Rest(X) \in SUBSET Cells
          /\ All(X) = {Region(walls, AnyOf(X))} \cup All(Rest(X))
      BY <2>2, <1>1
    <3> HIDE DEF Rest, All
    <3>2. [Y \in SUBSET Cells |-> All(Y)][Rest(X)] = All(Rest(X))  BY <3>1
    <3>3. QED  BY <2>2, <3>1, <3>2
  <2>3. QED  BY <2>1, <2>2
<1>3. ASSUME NEW g, Divides(walls, g), NEW X \in SUBSET Cells, g[X] # All(X)
      PROVE  FALSE
  <2> DEFINE T == {Cardinality(Y) : Y \in {Z \in SUBSET Cells : g[Z] # All(Z)}}
  <2>0. \A Y \in SUBSET Cells : IsFiniteSet(Y) /\ Cardinality(Y) \in Nat
    BY CellsFinite, FS_Subset, FS_CardinalityType
  <2>1. T \in SUBSET Nat /\ T # {}
    <3> HIDE DEF All
    <3>1. Cardinality(X) \in T  BY <1>3
    <3>2. QED  BY <2>0, <3>1
  <2>2. Min(T) \in T /\ \A i \in T : Min(T) <= i
    <3> HIDE DEF T
    <3>1. QED  BY <2>1, LeastOf
  <2>3. PICK Y \in SUBSET Cells : g[Y] # All(Y) /\ Min(T) = Cardinality(Y)
    <3> HIDE DEF All
    <3> QED  BY <2>2
  <2>4. g[Y] = IF Y = {} THEN {} ELSE {Region(walls, AnyOf(Y))} \cup g[Rest(Y)]
    BY <1>3 DEF Divides
  <2>5. Y # {}
    <3>1. CASE Y = {}  BY <2>3, <2>4, <3>1
    <3>2. QED  BY <3>1
  <2>6. Rest(Y) \in SUBSET Y /\ Rest(Y) # Y /\ g[Rest(Y)] # All(Rest(Y))
    <3>1. /\ AnyOf(Y) \in Y /\ AnyOf(Y) \in Region(walls, AnyOf(Y))
          /\ All(Y) = {Region(walls, AnyOf(Y))} \cup All(Rest(Y))
      BY <1>1, <2>5
    <3>2. Rest(Y) \in SUBSET Y /\ Rest(Y) # Y  BY <3>1
    <3> HIDE DEF Rest, All
    <3>3. QED  BY <2>3, <2>4, <2>5, <3>1, <3>2
  <2>7. Cardinality(Y) <= Cardinality(Rest(Y))
    <3> HIDE DEF Rest, All
    <3> QED  BY <2>2, <2>3, <2>6
  <2>8. Cardinality(Rest(Y)) <= Cardinality(Y)
        /\ (Cardinality(Rest(Y)) = Cardinality(Y) => Rest(Y) = Y)
    <3> HIDE DEF Rest
    <3> QED  BY <2>0, <2>6, FS_Subset
  <2>9. Cardinality(Y) \in Nat /\ Cardinality(Rest(Y)) \in Nat
    <3> HIDE DEF Rest
    <3> QED  BY <2>0, <2>6
  <2>10. QED
    <3> HIDE DEF Rest
    <3> QED  BY <2>6, <2>7, <2>8, <2>9
<1>4. Divides(walls, RegionsMeeting(walls))  BY <1>2 DEF Divides, RegionsMeeting
<1>5. QED  BY <1>3, <1>4 DEF RegionsMeeting

\* The regions are those of the cells.
LEMMA RegionsAre ==
  ASSUME NEW walls
  PROVE  Regions(walls) = {Region(walls, c) : c \in Cells}
<1> DEFINE Found(g) == g = [X \in SUBSET Cells |->
                            IF X = {} THEN {}
                            ELSE {Reach(walls, {AnyOf(X)})} \cup g[X \ Reach(walls, {AnyOf(X)})]]
<1>1. Regions(walls) = (CHOOSE g : Found(g))[Cells]  BY DEF Regions, AnyOf
<1>2. \A g : Found(g) <=> Divides(walls, g)
  <2>1. ASSUME NEW X \in SUBSET Cells, X # {}
        PROVE  Reach(walls, {AnyOf(X)}) = Region(walls, AnyOf(X))
    <3>1. AnyOf(X) \in Cells  BY <2>1 DEF AnyOf
    <3>2. QED  BY <3>1, ReachRegion
  <2> TAKE g
  <2>2. [X \in SUBSET Cells |->
            IF X = {} THEN {}
            ELSE {Reach(walls, {AnyOf(X)})} \cup g[X \ Reach(walls, {AnyOf(X)})]]
        = [X \in SUBSET Cells |->
            IF X = {} THEN {}
            ELSE {Region(walls, AnyOf(X))} \cup g[X \ Region(walls, AnyOf(X))]]
    BY <2>1
  <2>3. QED  BY <2>2 DEF Divides
<1> HIDE DEF Found
<1>3. \E g : Found(g)  BY <1>2, Dividing
<1>4. Found(CHOOSE g : Found(g))  BY <1>3
<1>5. Regions(walls) = RegionsMeeting(walls)[Cells]  BY <1>1, <1>2, <1>4, Dividing
<1>6. QED  BY <1>5 DEF RegionsMeeting

-----------------------------------------------------------------------------
(* Winding numbers. *)

\* 1 if s is in S.
Has(S, s) == IF s \in S THEN 1 ELSE 0

\* It is a number.
LEMMA HasIs == \A S, s : Has(S, s) \in {0, 1} /\ Has(S, s) \in Int
  BY DEF Has

\* The winding number at a point that need not be a cell.
Wind(S, x, y) == Winding(S, <<x, y>>)

\* The steps up and down that a ray to the east from <<x, y>> crosses.
Ups(S, x, y)   == {s \in S : s[1][1] > x /\ s[2][2] - s[1][2] = 1 /\ s[1][2] = y}
\* The steps of S that pass the row of y downwards, east of x.
Downs(S, x, y) == {s \in S : s[1][1] > x /\ s[2][2] - s[1][2] = -1 /\ s[2][2] = y}

\* A winding number is the upward steps to the east less the downward ones.
LEMMA WindIs ==
  ASSUME NEW S, NEW x \in Int, NEW y \in Int
  PROVE  Wind(S, x, y) = Cardinality(Ups(S, x, y)) - Cardinality(Downs(S, x, y))
  BY DEF Wind, Winding, Ups, Downs

\* One more element counts one more.
LEMMA CountOne ==
  ASSUME NEW A, IsFiniteSet(A), NEW s, s \notin A, NEW S
  PROVE  /\ IsFiniteSet(A \cup ({s} \cap S))
         /\ Cardinality(A \cup ({s} \cap S)) = Cardinality(A) + Has(S, s)
         /\ Cardinality(A) \in Nat /\ Has(S, s) \in {0, 1}
<1>0. Cardinality(A) \in Nat  BY FS_CardinalityType
<1>1. CASE s \in S
  <2>1. A \cup ({s} \cap S) = A \cup {s}  BY <1>1
  <2>2. Has(S, s) = 1  BY <1>1 DEF Has
  <2>3. QED  BY <1>0, <2>1, <2>2, FS_AddElement
<1>2. CASE s \notin S
  <2>1. A \cup ({s} \cap S) = A  BY <1>2
  <2>2. Has(S, s) = 0  BY <1>2 DEF Has
  <2>3. Cardinality(A) = Cardinality(A) + 0  BY <1>0
  <2>4. QED  BY <1>0, <2>1, <2>2, <2>3
<1>3. QED  BY <1>1, <1>2

\* Where unit steps start and end.
LEMMA StepParts ==
  ASSUME NEW x \in Int, NEW y \in Int
  PROVE  /\ East(x, y)[1] = <<x, y>> /\ East(x, y)[2] = <<x + 1, y>>
         /\ West(x, y)[1] = <<x + 1, y>> /\ West(x, y)[2] = <<x, y>>
         /\ North(x, y)[1] = <<x, y>> /\ North(x, y)[2] = <<x, y + 1>>
         /\ South(x, y)[1] = <<x, y + 1>> /\ South(x, y)[2] = <<x, y>>
         /\ <<x, y>>[1] = x /\ <<x, y>>[2] = y
  BY DEF East, West, North, South

\* Steps up and down of a set of steps.
LEMMA UpDown ==
  ASSUME NEW s \in UnitSteps
  PROVE  /\ s[1][1] \in Int /\ s[1][2] \in Int /\ s[2][1] \in Int /\ s[2][2] \in Int
         /\ s[2][2] - s[1][2] = 1 => s = North(s[1][1], s[1][2])
         /\ s[2][2] - s[1][2] = -1 => s = South(s[1][1], s[2][2])
<1>1. PICK x \in Int, y \in Int :
          s = East(x, y) \/ s = West(x, y) \/ s = North(x, y) \/ s = South(x, y)
  BY UnitCases
<1>2. CASE s = East(x, y)  BY <1>2 DEF East
<1>3. CASE s = West(x, y)  BY <1>3 DEF West
<1>4. CASE s = North(x, y)  BY <1>4 DEF North
<1>5. CASE s = South(x, y)  BY <1>5 DEF South
<1>6. QED  BY <1>1, <1>2, <1>3, <1>4, <1>5

\* How the winding number changes from one column to the next.
LEMMA WindEast ==
  ASSUME NEW S \in SUBSET UnitSteps, IsFiniteSet(S), NEW x \in Int, NEW y \in Int
  PROVE  /\ Wind(S, x, y) \in Int
         /\ Wind(S, x - 1, y) = Wind(S, x, y) + Has(S, North(x, y)) - Has(S, South(x, y))
<1>1. Ups(S, x - 1, y) = Ups(S, x, y) \cup ({North(x, y)} \cap S)
  <2>1. ASSUME NEW s \in Ups(S, x - 1, y), s \notin Ups(S, x, y)  PROVE s = North(x, y)
    <3>1. s \in UnitSteps /\ s[1][1] > x - 1 /\ ~(s[1][1] > x) /\ s[2][2] - s[1][2] = 1
          /\ s[1][2] = y
      BY <2>1 DEF Ups
    <3>2. s[1][1] = x  BY <3>1, UpDown
    <3>3. QED  BY <3>1, <3>2, UpDown
  <2>2. ASSUME North(x, y) \in S PROVE North(x, y) \in Ups(S, x - 1, y)
    <3>1. North(x, y)[1][1] = x /\ North(x, y)[1][2] = y /\ North(x, y)[2][2] = y + 1
      BY DEF North
    <3>2. QED  BY <2>2, <3>1 DEF Ups
  <2>3. Ups(S, x, y) \subseteq Ups(S, x - 1, y)
    <3> SUFFICES ASSUME NEW s \in Ups(S, x, y) PROVE s \in Ups(S, x - 1, y)  OBVIOUS
    <3>1. s \in UnitSteps  BY DEF Ups
    <3>2. QED  BY <3>1, UpDown DEF Ups
  <2>4. QED  BY <2>1, <2>2, <2>3 DEF Ups
<1>2. Downs(S, x - 1, y) = Downs(S, x, y) \cup ({South(x, y)} \cap S)
  <2>1. ASSUME NEW s \in Downs(S, x - 1, y), s \notin Downs(S, x, y)  PROVE s = South(x, y)
    <3>1. s \in UnitSteps /\ s[1][1] > x - 1 /\ ~(s[1][1] > x) /\ s[2][2] - s[1][2] = -1
          /\ s[2][2] = y
      BY <2>1 DEF Downs
    <3>2. s[1][1] = x  BY <3>1, UpDown
    <3>3. QED  BY <3>1, <3>2, UpDown
  <2>2. ASSUME South(x, y) \in S PROVE South(x, y) \in Downs(S, x - 1, y)
    <3>1. South(x, y)[1][1] = x /\ South(x, y)[1][2] = y + 1 /\ South(x, y)[2][2] = y
      BY DEF South
    <3>2. QED  BY <2>2, <3>1 DEF Downs
  <2>3. Downs(S, x, y) \subseteq Downs(S, x - 1, y)
    <3> SUFFICES ASSUME NEW s \in Downs(S, x, y) PROVE s \in Downs(S, x - 1, y)  OBVIOUS
    <3>1. s \in UnitSteps  BY DEF Downs
    <3>2. QED  BY <3>1, UpDown DEF Downs
  <2>4. QED  BY <2>1, <2>2, <2>3 DEF Downs
<1>3. /\ IsFiniteSet(Ups(S, x, y)) /\ IsFiniteSet(Downs(S, x, y))
      /\ North(x, y) \notin Ups(S, x, y) /\ South(x, y) \notin Downs(S, x, y)
  <2>1. Ups(S, x, y) \in SUBSET S /\ Downs(S, x, y) \in SUBSET S  BY DEF Ups, Downs
  <2>2. North(x, y)[1][1] = x /\ South(x, y)[1][1] = x  BY DEF North, South
  <2>3. North(x, y) \notin Ups(S, x, y) /\ South(x, y) \notin Downs(S, x, y)
    BY <2>2 DEF Ups, Downs
  <2>4. QED  BY <2>1, <2>3, FS_Subset
<1>4. /\ Cardinality(Ups(S, x - 1, y)) = Cardinality(Ups(S, x, y)) + Has(S, North(x, y))
      /\ Cardinality(Downs(S, x - 1, y)) = Cardinality(Downs(S, x, y)) + Has(S, South(x, y))
      /\ Cardinality(Ups(S, x, y)) \in Nat /\ Cardinality(Downs(S, x, y)) \in Nat
      /\ Has(S, North(x, y)) \in {0, 1} /\ Has(S, South(x, y)) \in {0, 1}
  BY <1>1, <1>2, <1>3, CountOne
<1>5. x - 1 \in Int  OBVIOUS
<1>6. QED  BY <1>4, <1>5, WindIs

\* Beyond the last column, and in rows without steps up or down, nothing is wound around.
LEMMA WindBeyond ==
  ASSUME NEW S \in SUBSET UnitSteps, NEW x \in Int, NEW y \in Int,
         x >= Width \/ y < 0 \/ y >= Height
  PROVE  Wind(S, x, y) = 0
<1>1. ASSUME NEW s \in S, s[2][2] - s[1][2] \in {1, -1}
      PROVE  /\ s[1][1] <= Width /\ s[1][1] \in Int /\ Width \in Int
             /\ s[2][2] - s[1][2] = 1 => s[1][2] \in 0 .. Height - 1
             /\ s[2][2] - s[1][2] = -1 => s[2][2] \in 0 .. Height - 1
  <2>1. PICK a \in Int, b \in Int :
           \/ s = East(a, b) /\ a \in 0 .. Width - 1 /\ b \in 0 .. Height
           \/ s = West(a, b) /\ a \in 0 .. Width - 1 /\ b \in 0 .. Height
           \/ s = North(a, b) /\ a \in 0 .. Width /\ b \in 0 .. Height - 1
           \/ s = South(a, b) /\ a \in 0 .. Width /\ b \in 0 .. Height - 1
    BY UnitCases
  <2>2. CASE s = East(a, b)  BY <1>1, <2>2 DEF East
  <2>3. CASE s = West(a, b)  BY <1>1, <2>3 DEF West
  <2>4. CASE s = North(a, b) /\ a \in 0 .. Width /\ b \in 0 .. Height - 1
    BY <2>4, GridSize DEF North
  <2>5. CASE s = South(a, b) /\ a \in 0 .. Width /\ b \in 0 .. Height - 1
    BY <2>5, GridSize DEF South
  <2>6. QED  BY <2>1, <2>2, <2>3, <2>4, <2>5
<1>2. Ups(S, x, y) = {}
  <2> SUFFICES ASSUME NEW s \in Ups(S, x, y) PROVE FALSE  OBVIOUS
  <2>1. s \in S /\ s[1][1] > x /\ s[2][2] - s[1][2] = 1 /\ s[1][2] = y  BY DEF Ups
  <2>2. /\ s[1][1] <= Width /\ s[1][1] \in Int /\ Width \in Int /\ y \in 0 .. Height - 1
    BY <1>1, <2>1
  <2>3. QED  BY <2>1, <2>2, GridSize
<1>3. Downs(S, x, y) = {}
  <2> SUFFICES ASSUME NEW s \in Downs(S, x, y) PROVE FALSE  OBVIOUS
  <2>1. s \in S /\ s[1][1] > x /\ s[2][2] - s[1][2] = -1 /\ s[2][2] = y  BY DEF Downs
  <2>2. /\ s[1][1] <= Width /\ s[1][1] \in Int /\ Width \in Int /\ y \in 0 .. Height - 1
    BY <1>1, <2>1
  <2>3. QED  BY <2>1, <2>2, GridSize
<1>4. QED  BY <1>2, <1>3, WindIs, FS_EmptySet

-----------------------------------------------------------------------------
(* Sets of steps that come to a vertex as often as they leave it.           *)

\* The steps of S that leave v ...
From(S, v) == {s \in S : s[1] = v}
\* ... and those that arrive there.
Into(S, v) == {s \in S : s[2] = v}

\* As many steps leave each point as arrive there.
Balanced(S) ==
  /\ S \in SUBSET UnitSteps /\ IsFiniteSet(S)
  /\ \A v : Cardinality(From(S, v)) = Cardinality(Into(S, v))

\* The steps that leave a vertex and arrive there, direction by direction.
LEMMA CountAround ==
  ASSUME NEW S \in SUBSET UnitSteps, IsFiniteSet(S), NEW x \in Int, NEW y \in Int
  PROVE  /\ Cardinality(From(S, <<x, y>>))
              = Has(S, East(x, y)) + Has(S, North(x, y))
                + Has(S, West(x - 1, y)) + Has(S, South(x, y - 1))
         /\ Cardinality(Into(S, <<x, y>>))
              = Has(S, West(x, y)) + Has(S, South(x, y))
                + Has(S, East(x - 1, y)) + Has(S, North(x, y - 1))
<1> DEFINE Four(a, b, c, d) == {} \cup ({a} \cap S) \cup ({b} \cap S)
                                 \cup ({c} \cap S) \cup ({d} \cap S)
<1>1. ASSUME NEW a, NEW b, NEW c, NEW d, a # b, a # c, a # d, b # c, b # d, c # d
      PROVE  Cardinality(Four(a, b, c, d)) = Has(S, a) + Has(S, b) + Has(S, c) + Has(S, d)
  <2> DEFINE A == {} \cup ({a} \cap S)
             B == A \cup ({b} \cap S)
             C == B \cup ({c} \cap S)
  <2>1. IsFiniteSet({}) /\ Cardinality({}) = 0  BY FS_EmptySet
  <2>2. IsFiniteSet(A) /\ Cardinality(A) = 0 + Has(S, a) /\ Has(S, a) \in {0, 1} /\ b \notin A
    <3>1. a \notin {} /\ b \notin A  BY <1>1
    <3>2. QED  BY <2>1, <3>1, CountOne
  <2>3. IsFiniteSet(B) /\ Cardinality(B) = Cardinality(A) + Has(S, b) /\ Has(S, b) \in {0, 1}
        /\ c \notin B
    BY <1>1, <2>2, CountOne
  <2>4. IsFiniteSet(C) /\ Cardinality(C) = Cardinality(B) + Has(S, c) /\ Has(S, c) \in {0, 1}
        /\ d \notin C
    BY <1>1, <2>3, CountOne
  <2>5. Cardinality(C \cup ({d} \cap S)) = Cardinality(C) + Has(S, d) /\ Has(S, d) \in {0, 1}
    BY <2>4, CountOne
  <2>6. Four(a, b, c, d) = C \cup ({d} \cap S)  OBVIOUS
  <2> HIDE DEF A, B, C, Four
  <2>7. QED  BY <2>2, <2>3, <2>4, <2>5, <2>6
<1>2. From(S, <<x, y>>) = Four(East(x, y), North(x, y), West(x - 1, y), South(x, y - 1))
  <2>1. ASSUME NEW s \in S, s[1] = <<x, y>>
        PROVE  s \in {East(x, y), North(x, y), West(x - 1, y), South(x, y - 1)}
    <3>1. PICK a \in Int, b \in Int :
            s = East(a, b) \/ s = West(a, b) \/ s = North(a, b) \/ s = South(a, b)
      BY UnitCases
    <3>2. CASE s = East(a, b)
      <4>1. a = x /\ b = y  BY <2>1, <3>2 DEF East
      <4>2. QED  BY <3>2, <4>1
    <3>3. CASE s = West(a, b)
      <4>1. a = x - 1 /\ b = y  BY <2>1, <3>3 DEF West
      <4>2. QED  BY <3>3, <4>1
    <3>4. CASE s = North(a, b)
      <4>1. a = x /\ b = y  BY <2>1, <3>4 DEF North
      <4>2. QED  BY <3>4, <4>1
    <3>5. CASE s = South(a, b)
      <4>1. a = x /\ b = y - 1  BY <2>1, <3>5 DEF South
      <4>2. QED  BY <3>5, <4>1
    <3>6. QED  BY <3>1, <3>2, <3>3, <3>4, <3>5
  <2>2. /\ East(x, y)[1] = <<x, y>> /\ North(x, y)[1] = <<x, y>>
        /\ West(x - 1, y)[1] = <<x, y>> /\ South(x, y - 1)[1] = <<x, y>>
    BY DEF East, North, West, South
  <2>3. QED  BY <2>1, <2>2 DEF From
<1>3. Into(S, <<x, y>>) = Four(West(x, y), South(x, y), East(x - 1, y), North(x, y - 1))
  <2>1. ASSUME NEW s \in S, s[2] = <<x, y>>
        PROVE  s \in {West(x, y), South(x, y), East(x - 1, y), North(x, y - 1)}
    <3>1. PICK a \in Int, b \in Int :
            s = East(a, b) \/ s = West(a, b) \/ s = North(a, b) \/ s = South(a, b)
      BY UnitCases
    <3>2. CASE s = East(a, b)
      <4>1. a = x - 1 /\ b = y  BY <2>1, <3>2 DEF East
      <4>2. QED  BY <3>2, <4>1
    <3>3. CASE s = West(a, b)
      <4>1. a = x /\ b = y  BY <2>1, <3>3 DEF West
      <4>2. QED  BY <3>3, <4>1
    <3>4. CASE s = North(a, b)
      <4>1. a = x /\ b = y - 1  BY <2>1, <3>4 DEF North
      <4>2. QED  BY <3>4, <4>1
    <3>5. CASE s = South(a, b)
      <4>1. a = x /\ b = y  BY <2>1, <3>5 DEF South
      <4>2. QED  BY <3>5, <4>1
    <3>6. QED  BY <3>1, <3>2, <3>3, <3>4, <3>5
  <2>2. /\ West(x, y)[2] = <<x, y>> /\ South(x, y)[2] = <<x, y>>
        /\ East(x - 1, y)[2] = <<x, y>> /\ North(x, y - 1)[2] = <<x, y>>
    BY DEF East, North, West, South
  <2>3. QED  BY <2>1, <2>2 DEF Into
<1>4. LET a == East(x, y)  b == North(x, y)  c == West(x - 1, y)  d == South(x, y - 1)
      IN  a # b /\ a # c /\ a # d /\ b # c /\ b # d /\ c # d
  BY DEF East, North, West, South
<1>5. LET a == West(x, y)  b == South(x, y)  c == East(x - 1, y)  d == North(x, y - 1)
      IN  a # b /\ a # c /\ a # d /\ b # c /\ b # d /\ c # d
  BY DEF East, North, West, South
<1> HIDE DEF Four
<1>6. Cardinality(From(S, <<x, y>>))
        = Has(S, East(x, y)) + Has(S, North(x, y))
          + Has(S, West(x - 1, y)) + Has(S, South(x, y - 1))
  <2>1. Cardinality(Four(East(x, y), North(x, y), West(x - 1, y), South(x, y - 1)))
          = Has(S, East(x, y)) + Has(S, North(x, y))
            + Has(S, West(x - 1, y)) + Has(S, South(x, y - 1))
    BY <1>1, <1>4
  <2>2. QED  BY <1>2, <2>1
<1>7. Cardinality(Into(S, <<x, y>>))
        = Has(S, West(x, y)) + Has(S, South(x, y))
          + Has(S, East(x - 1, y)) + Has(S, North(x, y - 1))
  <2>1. Cardinality(Four(West(x, y), South(x, y), East(x - 1, y), North(x, y - 1)))
          = Has(S, West(x, y)) + Has(S, South(x, y))
            + Has(S, East(x - 1, y)) + Has(S, North(x, y - 1))
    BY <1>1, <1>5
  <2>2. QED  BY <1>3, <2>1
<1>8. QED  BY <1>6, <1>7

\* Balance at a vertex, direction by direction.
LEMMA BalancedAround ==
  ASSUME NEW S, Balanced(S), NEW x \in Int, NEW y \in Int
  PROVE  Has(S, East(x, y)) + Has(S, North(x, y))
           + Has(S, West(x - 1, y)) + Has(S, South(x, y - 1))
         = Has(S, West(x, y)) + Has(S, South(x, y))
             + Has(S, East(x - 1, y)) + Has(S, North(x, y - 1))
<1>1. S \in SUBSET UnitSteps /\ IsFiniteSet(S)
      /\ Cardinality(From(S, <<x, y>>)) = Cardinality(Into(S, <<x, y>>))
  BY DEF Balanced
<1>2. QED  BY <1>1, CountAround

\* A set of naturals from which each step down from a member stays in the set.
LEMMA Downward ==
  ASSUME NEW n \in Nat, NEW P, 0 \in P, \A i \in 0 .. n : i > 0 /\ i - 1 \in P => i \in P
  PROVE  0 .. n \subseteq P
<1> DEFINE T == {i \in 0 .. n : i \notin P}
<1> SUFFICES ASSUME T # {} PROVE FALSE  OBVIOUS
<1>1. T \in SUBSET Nat  OBVIOUS
<1>2. Min(T) \in T /\ \A i \in T : Min(T) <= i
  <2> HIDE DEF T
  <2> QED  BY <1>1, LeastOf
<1>3. PICK m \in T : \A i \in T : m <= i  BY <1>2
<1>4. m \in 0 .. n /\ m # 0 /\ m > 0  BY <1>3
<1>5. m - 1 \in 0 .. n /\ m - 1 \notin T  BY <1>3, <1>4
<1>6. QED  BY <1>3, <1>4, <1>5

\* How the winding number changes from one row to the next.
LEMMA WindNorth ==
  ASSUME NEW S, Balanced(S), NEW x \in Int, x >= -1, NEW y \in Int
  PROVE  Wind(S, x, y) = Wind(S, x, y - 1) + Has(S, East(x, y)) - Has(S, West(x, y))
<1> DEFINE H(a) == Has(S, East(a, y)) - Has(S, West(a, y))
           P == {i \in Nat : Wind(S, Width - i, y) = Wind(S, Width - i, y - 1) + H(Width - i)}
<1>0. S \in SUBSET UnitSteps /\ IsFiniteSet(S) /\ y - 1 \in Int /\ Width \in Int
  BY GridSize DEF Balanced
<1>1. \A a \in Int : a >= Width => East(a, y) \notin S /\ West(a, y) \notin S
  <2> SUFFICES ASSUME NEW a \in Int, NEW s \in S, s = East(a, y) \/ s = West(a, y)
               PROVE  a < Width
    BY <1>0
  <2>1. PICK c \in Int, b \in Int :
           \/ s = East(c, b) /\ c \in 0 .. Width - 1 /\ b \in 0 .. Height
           \/ s = West(c, b) /\ c \in 0 .. Width - 1 /\ b \in 0 .. Height
           \/ s = North(c, b) /\ c \in 0 .. Width /\ b \in 0 .. Height - 1
           \/ s = South(c, b) /\ c \in 0 .. Width /\ b \in 0 .. Height - 1
    BY <1>0, UnitCases
  <2>2. c = a /\ (s = East(c, b) \/ s = West(c, b))  BY <2>1 DEF East, West, North, South
  <2>3. c \in 0 .. Width - 1  BY <2>1, <2>2 DEF East, West, North, South
  <2>4. QED  BY <1>0, <2>2, <2>3
<1>2. \A a \in Int : a >= Width =>
         Wind(S, a, y) = Wind(S, a, y - 1) + Has(S, East(a, y)) - Has(S, West(a, y))
  <2> TAKE a \in Int
  <2> HAVE a >= Width
  <2>1. Has(S, East(a, y)) = 0 /\ Has(S, West(a, y)) = 0  BY <1>1 DEF Has
  <2>2. QED  BY <1>0, <2>1, WindBeyond
<1>3. \A s : Has(S, s) \in Int  BY HasIs
<1>4. \A a, b \in Int : Wind(S, a, b) \in Int  BY <1>0, WindEast
<1>5. 0 \in P
  <2>1. Width - 0 = Width /\ Width >= Width  BY <1>0
  <2>2. Has(S, East(Width, y)) \in Int /\ Has(S, West(Width, y)) \in Int  BY <1>3
  <2>3. Wind(S, Width, y - 1) \in Int  BY <1>0, <1>4
  <2>4. Wind(S, Width, y) = Wind(S, Width, y - 1) + H(Width)
    BY <1>0, <1>2, <2>1, <2>2, <2>3
  <2>5. QED  BY <2>1, <2>4
<1>6. ASSUME NEW i \in Nat, i > 0, i - 1 \in P PROVE i \in P
  <2> DEFINE a == Width - (i - 1)
  <2>1. a \in Int /\ a - 1 = Width - i  BY <1>0
  <2>2. Wind(S, a, y) = Wind(S, a, y - 1) + H(a)  BY <1>6
  <2> HIDE DEF a
  <2>3. Wind(S, a - 1, y) = Wind(S, a, y) + Has(S, North(a, y)) - Has(S, South(a, y))
    BY <1>0, <2>1, WindEast
  <2>4. Wind(S, a - 1, y - 1)
          = Wind(S, a, y - 1) + Has(S, North(a, y - 1)) - Has(S, South(a, y - 1))
    BY <1>0, <2>1, WindEast
  <2>5. Has(S, East(a, y)) + Has(S, North(a, y))
           + Has(S, West(a - 1, y)) + Has(S, South(a, y - 1))
         = Has(S, West(a, y)) + Has(S, South(a, y))
             + Has(S, East(a - 1, y)) + Has(S, North(a, y - 1))
    BY <2>1, BalancedAround
  <2>6. /\ Wind(S, a, y) \in Int /\ Wind(S, a, y - 1) \in Int
        /\ Has(S, East(a, y)) \in Int /\ Has(S, North(a, y)) \in Int
        /\ Has(S, West(a - 1, y)) \in Int /\ Has(S, South(a, y - 1)) \in Int
        /\ Has(S, West(a, y)) \in Int /\ Has(S, South(a, y)) \in Int
        /\ Has(S, East(a - 1, y)) \in Int /\ Has(S, North(a, y - 1)) \in Int
    BY <1>0, <1>3, <1>4, <2>1
  <2>7. Wind(S, a - 1, y) = Wind(S, a - 1, y - 1) + H(a - 1)
    BY <2>2, <2>3, <2>4, <2>5, <2>6
  <2>8. QED  BY <2>1, <2>7
<1>7. CASE x >= Width  BY <1>2, <1>7
<1>8. CASE x < Width
  <2> DEFINE i == Width - x
             n == Width + 1
  <2>1. i \in 0 .. n /\ Width - i = x /\ n \in Nat  BY <1>0, <1>8, GridSize
  <2>2. 0 .. n \subseteq P
    <3> HIDE DEF P
    <3>1. QED  BY <1>5, <1>6, <2>1, Downward
  <2>3. i \in P  BY <2>1, <2>2
  <2>4. Wind(S, x, y) = Wind(S, x, y - 1) + H(x)  BY <2>1, <2>3
  <2>5. /\ Wind(S, x, y - 1) \in Int /\ Has(S, East(x, y)) \in Int /\ Has(S, West(x, y)) \in Int
    BY <1>0, <1>3, <1>4
  <2>6. QED  BY <2>4, <2>5
<1>9. QED  BY <1>0, <1>7, <1>8

\* Nor is anything wound around in the column before the first.
LEMMA WindBefore ==
  ASSUME NEW S, Balanced(S), NEW y \in Int
  PROVE  Wind(S, -1, y) = 0
<1>0. S \in SUBSET UnitSteps /\ IsFiniteSet(S) /\ -1 \in Int  BY DEF Balanced
<1>1. CASE y < 0  BY <1>0, <1>1, WindBeyond
<1>2. CASE y >= 0
  <2> DEFINE P == {i \in Nat : Wind(S, -1, i) = 0}
  <2>1. \A b \in Int : East(-1, b) \notin S /\ West(-1, b) \notin S
    <3> SUFFICES ASSUME NEW b \in Int, NEW s \in S, s = East(-1, b) \/ s = West(-1, b)
                 PROVE  FALSE
      BY <1>0
    <3>1. PICK c \in Int, d \in Int :
             \/ s = East(c, d) /\ c \in 0 .. Width - 1 /\ d \in 0 .. Height
             \/ s = West(c, d) /\ c \in 0 .. Width - 1 /\ d \in 0 .. Height
             \/ s = North(c, d) /\ c \in 0 .. Width /\ d \in 0 .. Height - 1
             \/ s = South(c, d) /\ c \in 0 .. Width /\ d \in 0 .. Height - 1
      BY <1>0, UnitCases
    <3>2. c = -1 /\ (s = East(c, d) \/ s = West(c, d))
      BY <3>1 DEF East, West, North, South
    <3>3. c \in 0 .. Width - 1  BY <3>1, <3>2 DEF East, West, North, South
    <3>4. QED  BY <3>2, <3>3
  <2>2. \A b \in Int : Wind(S, -1, b) = Wind(S, -1, b - 1)
    <3> TAKE b \in Int
    <3>1. Has(S, East(-1, b)) = 0 /\ Has(S, West(-1, b)) = 0  BY <2>1 DEF Has
    <3>2. Wind(S, -1, b - 1) \in Int  BY <1>0, WindEast
    <3>3. QED  BY <1>0, <3>1, <3>2, WindNorth
  <2>3. Wind(S, -1, -1) = 0  BY <1>0, WindBeyond
  <2>4. 0 - 1 = -1  OBVIOUS
  <2>5. 0 \in P  BY <2>2, <2>3, <2>4
  <2>6. \A i \in 0 .. y : i > 0 /\ i - 1 \in P => i \in P  BY <2>2
  <2>7. y \in Nat /\ y \in 0 .. y  BY <1>2
  <2>8. 0 .. y \subseteq P
    <3> HIDE DEF P
    <3>1. QED  BY <2>5, <2>6, <2>7, Downward
  <2>9. QED  BY <2>7, <2>8
<1>3. QED  BY <1>1, <1>2

\* How a balanced set of steps winds around cells: from the right to the left of
\* a step it winds once more for the step, and once less for the step back.
LEMMA WindCell ==
  ASSUME NEW S, Balanced(S), NEW x \in Int, NEW y \in Int, x >= -1
  PROVE  Winding(S, CellAt(x, y)) = Wind(S, x, y)
<1>1. CASE x \in 0 .. Width - 1 /\ y \in 0 .. Height - 1
  BY <1>1, CellFacts DEF Wind
<1>2. CASE ~(x \in 0 .. Width - 1 /\ y \in 0 .. Height - 1)
  <2>1. CellAt(x, y) = <<-1, -1>>  BY <1>2, CellFacts DEF Outer
  <2>2. Wind(S, -1, -1) = 0  BY WindBefore
  <2>3. Wind(S, x, y) = 0
    <3>1. CASE x = -1  BY <3>1, WindBefore
    <3>2. CASE x # -1
      <4>1. x >= Width \/ y < 0 \/ y >= Height  BY <1>2, <3>2, GridSize
      <4>2. QED  BY <4>1, WindBeyond DEF Balanced
    <3>3. QED  BY <3>1, <3>2
  <2>4. QED  BY <2>1, <2>2, <2>3 DEF Wind
<1>3. QED  BY <1>1, <1>2

\* Across a step the winding number changes by the steps that are there.
LEMMA WindingAcross ==
  ASSUME NEW S, Balanced(S), NEW s \in UnitSteps
  PROVE  /\ Winding(S, LeftCell(s)) = Winding(S, RightCell(s)) + Has(S, s) - Has(S, Back(s))
         /\ Winding(S, LeftCell(s)) \in Int /\ Winding(S, RightCell(s)) \in Int
<1>0. S \in SUBSET UnitSteps /\ IsFiniteSet(S)  BY DEF Balanced
<1>1. PICK x \in Int, y \in Int :
           \/ s = East(x, y) /\ x \in 0 .. Width - 1 /\ y \in 0 .. Height
           \/ s = West(x, y) /\ x \in 0 .. Width - 1 /\ y \in 0 .. Height
           \/ s = North(x, y) /\ x \in 0 .. Width /\ y \in 0 .. Height - 1
           \/ s = South(x, y) /\ x \in 0 .. Width /\ y \in 0 .. Height - 1
  BY UnitCases
<1>2. x >= 0 /\ x >= -1 /\ x - 1 >= -1 /\ x - 1 \in Int /\ y - 1 \in Int
  BY <1>1, GridSize
<1>3. /\ Winding(S, CellAt(x, y)) = Wind(S, x, y)
      /\ Winding(S, CellAt(x, y - 1)) = Wind(S, x, y - 1)
      /\ Winding(S, CellAt(x - 1, y)) = Wind(S, x - 1, y)
      /\ Wind(S, x, y) \in Int /\ Wind(S, x, y - 1) \in Int /\ Wind(S, x - 1, y) \in Int
  BY <1>0, <1>2, WindCell, WindEast
<1>4. Wind(S, x, y) = Wind(S, x, y - 1) + Has(S, East(x, y)) - Has(S, West(x, y))
  BY <1>2, WindNorth
<1>5. Wind(S, x - 1, y) = Wind(S, x, y) + Has(S, North(x, y)) - Has(S, South(x, y))
  BY <1>0, WindEast
<1>6. \A t : Has(S, t) \in Int  BY HasIs
<1>7. /\ Has(S, East(x, y)) \in Int /\ Has(S, West(x, y)) \in Int
      /\ Has(S, North(x, y)) \in Int /\ Has(S, South(x, y)) \in Int
  BY <1>6
<1>8. CASE s = East(x, y)
  <2>1. LeftCell(s) = CellAt(x, y) /\ RightCell(s) = CellAt(x, y - 1) /\ Back(s) = West(x, y)
    BY <1>8, EastStep
  <2>2. QED  BY <1>3, <1>4, <1>7, <1>8, <2>1
<1>9. CASE s = West(x, y)
  <2>1. LeftCell(s) = CellAt(x, y - 1) /\ RightCell(s) = CellAt(x, y) /\ Back(s) = East(x, y)
    BY <1>9, EastStep
  <2>2. QED  BY <1>3, <1>4, <1>7, <1>9, <2>1
<1>10. CASE s = North(x, y)
  <2>1. LeftCell(s) = CellAt(x - 1, y) /\ RightCell(s) = CellAt(x, y) /\ Back(s) = South(x, y)
    BY <1>10, NorthStep
  <2>2. QED  BY <1>3, <1>5, <1>7, <1>10, <2>1
<1>11. CASE s = South(x, y)
  <2>1. LeftCell(s) = CellAt(x, y) /\ RightCell(s) = CellAt(x - 1, y) /\ Back(s) = North(x, y)
    BY <1>11, NorthStep
  <2>2. QED  BY <1>3, <1>5, <1>7, <1>11, <2>1
<1>12. QED  BY <1>1, <1>8, <1>9, <1>10, <1>11

\* Winding numbers as colours of the cells.
WindingOf(S) == [c \in Cells |-> Winding(S, c)]

\* The cells on the sides of a step and of the same step backwards.
LEMMA StepCells ==
  ASSUME NEW s \in UnitSteps
  PROVE  LeftCell(s) \in Cells /\ RightCell(s) \in Cells /\ Back(s) \in UnitSteps
         /\ {Back(s)[1], Back(s)[2]} = {s[1], s[2]} /\ Back(Back(s)) = s
         /\ LeftCell(Back(s)) = RightCell(s) /\ RightCell(Back(s)) = LeftCell(s)
<1>1. PICK x \in Int, y \in Int :
           \/ s = East(x, y) /\ x \in 0 .. Width - 1 /\ y \in 0 .. Height
           \/ s = West(x, y) /\ x \in 0 .. Width - 1 /\ y \in 0 .. Height
           \/ s = North(x, y) /\ x \in 0 .. Width /\ y \in 0 .. Height - 1
           \/ s = South(x, y) /\ x \in 0 .. Width /\ y \in 0 .. Height - 1
  BY UnitCases
<1>2. x - 1 \in Int /\ y - 1 \in Int  OBVIOUS
<1>3. CellAt(x, y) \in Cells /\ CellAt(x - 1, y) \in Cells /\ CellAt(x, y - 1) \in Cells
  BY <1>2, CellFacts
<1>4. Back(s)[1] = s[2] /\ Back(s)[2] = s[1]  BY DEF Back
<1>5. Back(s) \in UnitSteps  BY <1>1, EastStep, NorthStep DEF UnitSteps
<1>6. QED  BY <1>1, <1>3, <1>4, <1>5, EastStep, NorthStep

\* Winding numbers change only at walls, and are 0 outside.
LEMMA WindingSmooth ==
  ASSUME NEW S, Balanced(S), NEW walls, \A s \in S : {s[1], s[2]} \in walls
  PROVE  Smooth(walls, WindingOf(S)) /\ WindingOf(S)[Outer] = 0 /\ WindingOf(S) \in [Cells -> Int]
<1>1. ASSUME NEW s \in UnitSteps, {s[1], s[2]} \notin walls
      PROVE  WindingOf(S)[LeftCell(s)] = WindingOf(S)[RightCell(s)]
  <2>1. s \notin S /\ Back(s) \notin S  BY <1>1, StepCells
  <2>2. Has(S, s) = 0 /\ Has(S, Back(s)) = 0  BY <2>1 DEF Has
  <2>3. LeftCell(s) \in Cells /\ RightCell(s) \in Cells  BY StepCells
  <2>4. QED  BY <2>2, <2>3, WindingAcross DEF WindingOf
<1>2. WindingOf(S)[Outer] = 0
  <2>1. Wind(S, -1, -1) = 0  BY WindBefore
  <2>2. QED  BY <2>1, CellFacts DEF WindingOf, Wind, Outer
<1>3. WindingOf(S) \in [Cells -> Int]
  <2> SUFFICES ASSUME NEW c \in Cells PROVE Winding(S, c) \in Int  BY DEF WindingOf
  <2>1. PICK x \in Int, y \in Int :
           c = CellAt(x, y) /\ x \in -1 .. Width - 1 /\ y \in -1 .. Height - 1
    BY CellIntro
  <2>2. x >= -1  BY <2>1, GridSize
  <2>3. QED  BY <2>1, <2>2, WindCell, WindEast DEF Balanced
<1>4. QED  BY <1>1, <1>2, <1>3, SmoothIntro

-----------------------------------------------------------------------------
(* Rows of points, and the unit segments below them. *)

\* The grid squares below the points A, down to row 0.
Under(A) == {q \in A \X (1 .. Height) : q[2] <= q[1][2]}

\* A vertex is a pair of numbers.
LEMMA VertexParts ==
  ASSUME NEW p \in Vertices
  PROVE  p[1] \in 0 .. Width /\ p[2] \in 0 .. Height /\ p = <<p[1], p[2]>>
         /\ p[1] \in Int /\ p[2] \in Int
  BY GridSize DEF Vertices

\* They can be counted.
LEMMA UnderFinite ==
  ASSUME NEW A \in SUBSET Vertices
  PROVE  IsFiniteSet(A) /\ IsFiniteSet(Under(A)) /\ Cardinality(Under(A)) \in Nat
<1>1. IsFiniteSet(0 .. Width) /\ IsFiniteSet(0 .. Height) /\ IsFiniteSet(1 .. Height)
  <2>1. 0 \in Int /\ 1 \in Int /\ Width \in Int /\ Height \in Int  BY GridSize
  <2>2. QED  BY <2>1, FS_Interval
<1>2. IsFiniteSet(Vertices)  BY <1>1, FS_Product DEF Vertices
<1>3. IsFiniteSet(A)  BY <1>2, FS_Subset
<1>4. IsFiniteSet(A \X (1 .. Height))  BY <1>1, <1>3, FS_Product
<1>5. Under(A) \in SUBSET (A \X (1 .. Height))  BY DEF Under
<1>6. IsFiniteSet(Under(A))  BY <1>4, <1>5, FS_Subset
<1>7. QED  BY <1>3, <1>6, FS_CardinalityType

\* A point more adds its height.
LEMMA UnderOne ==
  ASSUME NEW A \in SUBSET Vertices, NEW p \in Vertices, p \notin A
  PROVE  Cardinality(Under(A \cup {p})) = Cardinality(Under(A)) + p[2]
<1> DEFINE N == {p} \X (1 .. p[2])
<1>1. Under(A \cup {p}) = Under(A) \cup N
  <2>1. p[2] \in Int /\ p[2] <= Height  BY VertexParts, GridSize
  <2>2. ASSUME NEW q \in Under(A \cup {p}), q \notin Under(A) PROVE q \in N
    <3>1. q \in (A \cup {p}) \X (1 .. Height) /\ q[2] <= q[1][2]  BY DEF Under
    <3>2. q[1] = p  BY <2>2, <3>1 DEF Under
    <3>3. q[2] \in 1 .. p[2]  BY <2>1, <3>1, <3>2
    <3>4. QED  BY <3>1, <3>2, <3>3
  <2>3. ASSUME NEW q \in N PROVE q \in Under(A \cup {p})
    <3>1. q[1] = p /\ q[2] \in 1 .. p[2] /\ q = <<q[1], q[2]>>  OBVIOUS
    <3>2. q[2] \in 1 .. Height /\ q[2] <= q[1][2]  BY <2>1, <3>1, GridSize
    <3>3. QED  BY <3>1, <3>2 DEF Under
  <2>4. Under(A) \subseteq Under(A \cup {p})  BY DEF Under
  <2>5. QED  BY <2>2, <2>3, <2>4
<1>2. Under(A) \cap N = {}
  <2>1. \A q \in Under(A) : q[1] \in A  BY DEF Under
  <2>2. \A q \in N : q[1] = p  OBVIOUS
  <2>3. QED  BY <2>1, <2>2
<1>3. IsFiniteSet(N) /\ Cardinality(N) = p[2]
  <2>1. p[2] \in Nat  BY VertexParts
  <2>2. IsFiniteSet(1 .. p[2]) /\ Cardinality(1 .. p[2]) = p[2]
    <3>1. IsFiniteSet(1 .. p[2])
          /\ Cardinality(1 .. p[2]) = IF 1 > p[2] THEN 0 ELSE p[2] - 1 + 1
      BY <2>1, FS_Interval
    <3>2. QED  BY <2>1, <3>1
  <2>3. IsFiniteSet({p}) /\ Cardinality({p}) = 1  BY FS_Singleton
  <2>4. IsFiniteSet(N) /\ Cardinality(N) = 1 * Cardinality(1 .. p[2])
    BY <2>2, <2>3, FS_Product
  <2>5. QED
    <3> HIDE DEF N
    <3> QED  BY <2>1, <2>2, <2>4
<1> HIDE DEF N
<1>4. IsFiniteSet(Under(A)) /\ Cardinality(Under(A)) \in Nat  BY UnderFinite
<1>5. Cardinality(Under(A) \cup N)
        = Cardinality(Under(A)) + Cardinality(N) - Cardinality(Under(A) \cap N)
  BY <1>3, <1>4, FS_Union
<1>6. Cardinality(Under(A) \cap N) = 0  BY <1>2, FS_EmptySet
<1>7. p[2] \in Int  BY VertexParts
<1>8. Cardinality(Under(A) \cup N) = Cardinality(Under(A)) + p[2] - 0
  BY <1>3, <1>5, <1>6
<1>9. \A c \in Nat, i \in Int : c + i - 0 = c + i  OBVIOUS
<1>10. Cardinality(Under(A) \cup N) = Cardinality(Under(A)) + p[2]  BY <1>4, <1>7, <1>8, <1>9
<1>11. QED  BY <1>1, <1>10

\* A function of points is 0 or 1, 0 below and above the grid, rises only in A
\* and falls only in B.
Stepping(u, A, B) ==
  /\ \A x \in 0 .. Width, y \in -1 .. Height : u[<<x, y>>] \in {0, 1}
  /\ \A x \in 0 .. Width : u[<<x, -1>>] = 0 /\ u[<<x, Height>>] = 0
  /\ \A x \in 0 .. Width, y \in 0 .. Height :
       u[<<x, y>>] = u[<<x, y - 1>>] + Has(A, <<x, y>>) - Has(B, <<x, y>>)

\* Where u steps up and down along a column.
LEMMA RiseFall ==
  ASSUME NEW A, NEW B, NEW u, Stepping(u, A, B), NEW x \in 0 .. Width, NEW y \in 0 .. Height
  PROVE  /\ <<x, y>> \in A \ B <=> u[<<x, y>>] = 1 /\ u[<<x, y - 1>>] = 0
         /\ <<x, y>> \in B \ A <=> u[<<x, y>>] = 0 /\ u[<<x, y - 1>>] = 1
<1>1. y - 1 \in -1 .. Height /\ y \in -1 .. Height  BY GridSize
<1>2. /\ u[<<x, y>>] \in {0, 1} /\ u[<<x, y - 1>>] \in {0, 1}
      /\ u[<<x, y>>] = u[<<x, y - 1>>] + Has(A, <<x, y>>) - Has(B, <<x, y>>)
  BY <1>1 DEF Stepping
<1> DEFINE p == <<x, y>>
           a == u[p]
           b == u[<<x, y - 1>>]
<1>3. /\ Has(A, p) = IF p \in A THEN 1 ELSE 0
      /\ Has(B, p) = IF p \in B THEN 1 ELSE 0
  BY DEF Has
<1>4. a \in {0, 1} /\ b \in {0, 1} /\ a = b + Has(A, p) - Has(B, p)  BY <1>2
<1> HIDE DEF a, b, p
<1>5. /\ p \in A \ B <=> a = 1 /\ b = 0
      /\ p \in B \ A <=> a = 0 /\ b = 1
  <2>1. CASE p \in A /\ p \in B
    <3>1. Has(A, p) = 1 /\ Has(B, p) = 1  BY <1>3, <2>1
    <3>2. a = b  BY <1>4, <3>1
    <3>3. QED  BY <2>1, <3>2
  <2>2. CASE p \in A /\ p \notin B
    <3>1. Has(A, p) = 1 /\ Has(B, p) = 0  BY <1>3, <2>2
    <3>2. a = b + 1  BY <1>4, <3>1
    <3>3. a = 1 /\ b = 0  BY <1>4, <3>2
    <3>4. QED  BY <2>2, <3>3
  <2>3. CASE p \notin A /\ p \in B
    <3>1. Has(A, p) = 0 /\ Has(B, p) = 1  BY <1>3, <2>3
    <3>2. a = b - 1  BY <1>4, <3>1
    <3>3. a = 0 /\ b = 1  BY <1>4, <3>2
    <3>4. QED  BY <2>3, <3>3
  <2>4. CASE p \notin A /\ p \notin B
    <3>1. Has(A, p) = 0 /\ Has(B, p) = 0  BY <1>3, <2>4
    <3>2. a = b  BY <1>4, <3>1
    <3>3. QED  BY <2>4, <3>2
  <2>5. QED  BY <2>1, <2>2, <2>3, <2>4
<1>6. QED  BY <1>5 DEF a, b, p

\* Where the function falls first above <<x, y>>.
FallRow(u, p) == Min({z \in p[2] + 1 .. Height : u[<<p[1], z>>] = 0})

\* Above each point where u is 1 there is the point where it falls.
LEMMA FallAbove ==
  ASSUME NEW A, NEW B, NEW u, Stepping(u, A, B), NEW p \in Vertices, u[p] = 1
  PROVE  LET z == FallRow(u, p)
         IN  /\ z \in 1 .. Height /\ z > p[2] /\ <<p[1], z>> \in B \ A
             /\ \A y \in p[2] + 1 .. Height : u[<<p[1], y>>] = 0 => z <= y
<1> DEFINE T == {z \in p[2] + 1 .. Height : u[<<p[1], z>>] = 0}
           x == p[1]
           y == p[2]
<1>1. x \in 0 .. Width /\ y \in 0 .. Height /\ p = <<x, y>> /\ y \in Int  BY VertexParts
<1>2. T \in SUBSET Nat /\ Height \in T
  <2>1. u[<<x, Height>>] = 0  BY <1>1 DEF Stepping
  <2>2. y # Height
    <3>1. u[<<x, y>>] = 1  BY <1>1
    <3>2. QED  BY <2>1, <3>1
  <2>3. y + 1 <= Height /\ Height \in Int  BY <1>1, <2>2, GridSize
  <2>4. QED  BY <1>1, <2>1, <2>3
<1>3. Min(T) \in T /\ \A i \in T : Min(T) <= i
  <2> HIDE DEF T
  <2> QED  BY <1>2, LeastOf
<1> DEFINE z == Min(T)
<1>4. z = FallRow(u, p)  BY DEF FallRow
<1>5. z \in y + 1 .. Height /\ u[<<x, z>>] = 0 /\ \A i \in T : z <= i  BY <1>3
<1> HIDE DEF z
<1>6. u[<<x, z - 1>>] = 1
  <2>1. CASE z - 1 = y
    <3>1. u[<<x, y>>] = 1  BY <1>1
    <3>2. QED  BY <2>1, <3>1
  <2>2. CASE z - 1 # y
    <3>0. z \in Int /\ y + 1 <= z /\ z <= Height /\ Height \in Int  BY <1>5, GridSize
    <3>1. z - 1 \in y + 1 .. Height /\ ~(z <= z - 1)
      <4> HIDE DEF y
      <4> QED  BY <1>1, <2>2, <3>0
    <3>2. z - 1 \notin T  BY <1>5, <3>1
    <3>3. u[<<x, z - 1>>] # 0  BY <3>1, <3>2
    <3>4. z - 1 \in -1 .. Height  BY <1>1, <3>1
    <3>5. QED  BY <1>1, <3>3, <3>4 DEF Stepping
  <2>3. QED  BY <2>1, <2>2
<1>7. z \in 0 .. Height /\ z \in 1 .. Height /\ z > y  BY <1>1, <1>5
<1>8. <<x, z>> \in B \ A  BY <1>1, <1>5, <1>6, <1>7, RiseFall
<1>9. \A i \in y + 1 .. Height : u[<<x, i>>] = 0 => z <= i  BY <1>5
<1>10. QED  BY <1>4, <1>7, <1>8, <1>9

\* What falls lies above what rises: more of the grid is below B than below A.
LEMMA LessUnder ==
  ASSUME NEW A \in SUBSET Vertices, NEW B \in SUBSET Vertices, NEW u, Stepping(u, A, B)
  PROVE  /\ Cardinality(Under(A)) <= Cardinality(Under(B))
         /\ A \ B # {} => Cardinality(Under(A)) < Cardinality(Under(B))
<1> DEFINE up(p) == <<p[1], FallRow(u, p)>>
           F == [q \in Under(A) |-> IF q[1] \in B THEN q ELSE <<up(q[1]), q[2]>>]
<1>1. ASSUME NEW q \in Under(A)
      PROVE  /\ q[1] \in A /\ q[1] \in Vertices /\ q = <<q[1], q[2]>>
             /\ q[2] \in 1 .. Height /\ q[2] <= q[1][2]
  BY DEF Under
<1>2. ASSUME NEW p \in A, p \notin B
      PROVE  /\ p \in Vertices /\ u[p] = 1 /\ u[<<p[1], p[2] - 1>>] = 0
             /\ up(p) \in B \ A /\ FallRow(u, p) \in 1 .. Height /\ FallRow(u, p) > p[2]
             /\ \A y \in p[2] + 1 .. Height : u[<<p[1], y>>] = 0 => FallRow(u, p) <= y
  <2>1. p \in Vertices /\ p[1] \in 0 .. Width /\ p[2] \in 0 .. Height /\ p = <<p[1], p[2]>>
    BY VertexParts
  <2>2. u[p] = 1 /\ u[<<p[1], p[2] - 1>>] = 0
    <3>1. <<p[1], p[2]>> \in A \ B  BY <1>2, <2>1
    <3>2. u[<<p[1], p[2]>>] = 1 /\ u[<<p[1], p[2] - 1>>] = 0  BY <2>1, <3>1, RiseFall
    <3>3. QED  BY <2>1, <3>2
  <2>3. QED  BY <2>1, <2>2, FallAbove
<1>3. ASSUME NEW q \in Under(A) PROVE F[q] \in Under(B)
  <2>1. CASE q[1] \in B  BY <1>1, <2>1 DEF Under
  <2>2. CASE q[1] \notin B
    <3>1. /\ up(q[1]) \in B /\ FallRow(u, q[1]) \in 1 .. Height /\ FallRow(u, q[1]) > q[1][2]
          /\ q[1] \in Vertices /\ q[2] \in 1 .. Height /\ q[2] <= q[1][2]
      BY <1>1, <1>2, <2>2
    <3>2. F[q] = <<up(q[1]), q[2]>>  BY <2>2
    <3>3. q[2] <= FallRow(u, q[1])  BY <3>1, VertexParts
    <3>4. QED  BY <3>1, <3>2, <3>3 DEF Under
  <2>3. QED  BY <2>1, <2>2
<1>4. ASSUME NEW p \in A, NEW q \in A, p \notin B, q \notin B, up(p) = up(q), p[2] < q[2]
      PROVE  FALSE
  <2>1. p \in Vertices /\ q \in Vertices  OBVIOUS
  <2>2. p[1] = q[1] /\ FallRow(u, p) = FallRow(u, q)  BY <1>4
  <2>3. p[2] \in Int /\ q[2] \in 0 .. Height /\ p = <<p[1], p[2]>>  BY <2>1, VertexParts
  <2>4. q[2] - 1 # p[2]
    <3>1. u[p] = 1 /\ u[<<p[1], q[2] - 1>>] = 0  BY <1>2, <1>4, <2>2
    <3>2. QED  BY <2>3, <3>1
  <2>5. q[2] - 1 \in p[2] + 1 .. Height  BY <1>4, <2>3, <2>4, GridSize
  <2>6. u[<<p[1], q[2] - 1>>] = 0  BY <1>2, <1>4, <2>2
  <2>7. FallRow(u, p) <= q[2] - 1  BY <1>2, <1>4, <2>5, <2>6
  <2>8. FallRow(u, q) > q[2] /\ FallRow(u, q) \in Int
    <3>1. FallRow(u, q) > q[2] /\ FallRow(u, q) \in 1 .. Height  BY <1>2, <1>4
    <3>2. QED  BY <3>1
  <2>9. QED  BY <2>2, <2>3, <2>7, <2>8
<1>5. ASSUME NEW q \in Under(A), NEW r \in Under(A), F[q] = F[r] PROVE q = r
  <2>1. CASE q[1] \in B /\ r[1] \in B  BY <1>5, <2>1
  <2>2. CASE q[1] \in B /\ r[1] \notin B
    <3>1. q = <<up(r[1]), r[2]>>  BY <1>5, <2>2
    <3>2. q[1] = up(r[1])  BY <3>1
    <3>3. QED  BY <1>1, <1>2, <2>2, <3>2
  <2>3. CASE q[1] \notin B /\ r[1] \in B
    <3>1. r = <<up(q[1]), q[2]>>  BY <1>5, <2>3
    <3>2. r[1] = up(q[1])  BY <3>1
    <3>3. QED  BY <1>1, <1>2, <2>3, <3>2
  <2>4. CASE q[1] \notin B /\ r[1] \notin B
    <3>1. up(q[1]) = up(r[1]) /\ q[2] = r[2]  BY <1>5, <2>4
    <3>2. q[1][1] = r[1][1]  BY <3>1
    <3>3. q[1] \in Vertices /\ r[1] \in Vertices /\ q[1] \in A /\ r[1] \in A  BY <1>1
    <3>4. ~(q[1][2] < r[1][2]) /\ ~(r[1][2] < q[1][2])  BY <1>4, <2>4, <3>1, <3>3
    <3>5. q[1][2] = r[1][2]  BY <3>3, <3>4, VertexParts
    <3>6. q[1] = r[1]  BY <3>2, <3>3, <3>5, VertexParts
    <3>7. QED  BY <1>1, <3>1, <3>6
  <2>5. QED  BY <2>1, <2>2, <2>3, <2>4
<1>6. F \in Injection(Under(A), Under(B))
  <2>1. F \in [Under(A) -> Under(B)]  BY <1>3
  <2>2. \A q, r \in Under(A) : F[q] = F[r] => q = r  BY <1>5
  <2> HIDE DEF F
  <2>3. QED  BY <2>1, <2>2, Fun_IsInj
<1>7. /\ Cardinality(Under(A)) <= Cardinality(Under(B))
      /\ Cardinality(Under(A)) = Cardinality(Under(B)) => F \in Surjection(Under(A), Under(B))
  <2> HIDE DEF F
  <2> QED  BY <1>6, UnderFinite, FS_Injection
<1>8. ASSUME NEW p \in A \ B PROVE F \notin Surjection(Under(A), Under(B))
  <2> DEFINE t == <<up(p), FallRow(u, p)>>
  <2>1. up(p) \in B \ A /\ FallRow(u, p) \in 1 .. Height  BY <1>2
  <2>2. t \in Under(B)  BY <2>1 DEF Under
  <2>3. ASSUME NEW q \in Under(A), F[q] = t PROVE FALSE
    <3>1. CASE q[1] \in B
      <4>1. q[1] = up(p)  BY <2>3, <3>1
      <4>2. QED  BY <1>1, <2>1, <4>1
    <3>2. CASE q[1] \notin B
      <4>1. up(q[1]) = up(p) /\ q[2] = FallRow(u, p)  BY <2>3, <3>2
      <4>2. FallRow(u, q[1]) = FallRow(u, p)  BY <4>1
      <4>3. FallRow(u, q[1]) > q[1][2] /\ q[2] <= q[1][2] /\ q[1] \in Vertices
            /\ FallRow(u, q[1]) \in Int
        <5>1. q[1] \in A /\ q[2] <= q[1][2] /\ q[1] \in Vertices  BY <1>1
        <5>2. FallRow(u, q[1]) > q[1][2] /\ FallRow(u, q[1]) \in 1 .. Height  BY <1>2, <3>2, <5>1
        <5>3. QED  BY <5>1, <5>2
      <4>4. QED  BY <4>1, <4>2, <4>3, VertexParts
    <3>3. QED  BY <3>1, <3>2
  <2> HIDE DEF F, t
  <2>4. QED  BY <2>2, <2>3, Fun_SurjectionProperties
<1>9. QED  BY <1>7, <1>8, UnderFinite

\* If the function is 1 anywhere, it rises somewhere.
LEMMA RisesBelow ==
  ASSUME NEW A, NEW B, NEW u, Stepping(u, A, B), NEW p \in Vertices, u[p] = 1
  PROVE  A \ B # {}
<1> DEFINE x == p[1]
           y == p[2]
           T == {k \in 1 .. y + 1 : u[<<x, y - k>>] = 0}
<1>1. x \in 0 .. Width /\ y \in 0 .. Height /\ p = <<x, y>> /\ y \in Int  BY VertexParts
<1> HIDE DEF x, y
<1>2. T \in SUBSET Nat /\ y + 1 \in T
  <2>1. u[<<x, -1>>] = 0  BY <1>1 DEF Stepping
  <2>2. y - (y + 1) = -1 /\ y + 1 \in 1 .. y + 1  BY <1>1
  <2>3. QED  BY <1>1, <2>1, <2>2
<1>3. Min(T) \in T /\ \A i \in T : Min(T) <= i
  <2> HIDE DEF T
  <2> QED  BY <1>2, LeastOf
<1>4. PICK k \in T : \A i \in T : k <= i  BY <1>3
<1>5. k \in 1 .. y + 1 /\ u[<<x, y - k>>] = 0  BY <1>4
<1> DEFINE z == y - k + 1
<1>6. z \in 0 .. Height /\ z \in -1 .. Height /\ z - 1 = y - k  BY <1>1, <1>5, GridSize
<1>7. u[<<x, z>>] = 1
  <2>1. CASE k = 1  BY <1>1, <2>1
  <2>2. CASE k # 1
    <3>1. k - 1 \in 1 .. y + 1 /\ k - 1 \notin T /\ y - (k - 1) = z  BY <1>1, <1>4, <1>5, <2>2
    <3>2. u[<<x, z>>] # 0  BY <3>1
    <3>3. QED  BY <1>1, <1>6, <3>2 DEF Stepping
  <2>3. QED  BY <2>1, <2>2
<1> HIDE DEF z
<1>8. <<x, z>> \in A \ B
  <2>1. u[<<x, z - 1>>] = 0  BY <1>5, <1>6
  <2>2. QED  BY <1>1, <1>6, <1>7, <2>1, RiseFall
<1>9. QED  BY <1>8

-----------------------------------------------------------------------------
(* The area of a set of unit steps, and which way a ring turns. *)

\* What a step adds to the area of a ring.
Weight(s) == (s[1][1] - s[2][1]) * s[1][2]

\* The places of the steps westwards ...
Wests(T) == {p \in Vertices : West(p[1], p[2]) \in T}
\* ... and eastwards.
Easts(T) == {p \in Vertices : East(p[1], p[2]) \in T}

\* The squares below the steps westwards less those below the steps eastwards.
Balance(T) == Cardinality(Under(Wests(T))) - Cardinality(Under(Easts(T)))

\* Places of steps stand for steps.
LEMMA HasRows ==
  ASSUME NEW S, NEW x \in 0 .. Width, NEW y \in 0 .. Height
  PROVE  /\ Has(Wests(S), <<x, y>>) = Has(S, West(x, y))
         /\ Has(Easts(S), <<x, y>>) = Has(S, East(x, y))
<1>1. <<x, y>> \in Vertices /\ <<x, y>>[1] = x /\ <<x, y>>[2] = y  BY DEF Vertices
<1>2. /\ <<x, y>> \in Wests(S) <=> West(x, y) \in S
      /\ <<x, y>> \in Easts(S) <=> East(x, y) \in S
  BY <1>1 DEF Wests, Easts
<1>3. QED  BY <1>2 DEF Has

\* Steps at different places or in different directions differ.
LEMMA SameRow ==
  ASSUME NEW x \in Int, NEW y \in Int, NEW a \in Int, NEW b \in Int
  PROVE  /\ East(x, y) = East(a, b) <=> x = a /\ y = b
         /\ West(x, y) = West(a, b) <=> x = a /\ y = b
         /\ East(x, y) # West(a, b)
         /\ North(x, y) # East(a, b) /\ North(x, y) # West(a, b)
         /\ South(x, y) # East(a, b) /\ South(x, y) # West(a, b)
  BY DEF East, West, North, South

\* A step westwards counts its height, one eastwards takes it away.
LEMMA WeightOf ==
  ASSUME NEW x \in Int, NEW y \in Int
  PROVE  /\ Weight(East(x, y)) = -y /\ Weight(West(x, y)) = y
         /\ Weight(North(x, y)) = 0 /\ Weight(South(x, y)) = 0
<1>1. Weight(East(x, y)) = (x - (x + 1)) * y /\ Weight(West(x, y)) = ((x + 1) - x) * y
  BY DEF Weight, East, West
<1>2. Weight(North(x, y)) = (x - x) * y /\ Weight(South(x, y)) = (x - x) * (y + 1)
  BY DEF Weight, North, South
<1>3. x - (x + 1) = -1 /\ (x + 1) - x = 1 /\ x - x = 0  OBVIOUS
<1>4. (-1) * y = -y /\ 1 * y = y /\ 0 * y = 0 /\ 0 * (y + 1) = 0  OBVIOUS
<1>5. QED  BY <1>1, <1>2, <1>3, <1>4

\* A step more adds its weight.
LEMMA Adding ==
  ASSUME NEW T \in SUBSET UnitSteps, NEW s \in UnitSteps, s \notin T
  PROVE  Balance(T \cup {s}) = Weight(s) + Balance(T) /\ Balance(T) \in Int
<1>0. /\ Wests(T) \in SUBSET Vertices /\ Easts(T) \in SUBSET Vertices
      /\ Cardinality(Under(Wests(T))) \in Nat /\ Cardinality(Under(Easts(T))) \in Nat
  BY UnderFinite DEF Wests, Easts
<1>1. PICK x \in Int, y \in Int :
           \/ s = East(x, y) /\ x \in 0 .. Width - 1 /\ y \in 0 .. Height
           \/ s = West(x, y) /\ x \in 0 .. Width - 1 /\ y \in 0 .. Height
           \/ s = North(x, y) /\ x \in 0 .. Width /\ y \in 0 .. Height - 1
           \/ s = South(x, y) /\ x \in 0 .. Width /\ y \in 0 .. Height - 1
  BY UnitCases
<1> DEFINE W == Cardinality(Under(Wests(T)))
           E == Cardinality(Under(Easts(T)))
<1>7. Balance(T) = W - E /\ W \in Nat /\ E \in Nat  BY <1>0 DEF Balance
<1>8. Balance(T \cup {s}) = Cardinality(Under(Wests(T \cup {s}))) - Cardinality(Under(Easts(T \cup {s})))
  BY DEF Balance
<1>2. ASSUME NEW p \in Vertices
      PROVE  /\ p[1] \in Int /\ p[2] \in Int /\ p = <<p[1], p[2]>>
  BY VertexParts
<1>3. CASE s = East(x, y) /\ x \in 0 .. Width - 1 /\ y \in 0 .. Height
  <2> DEFINE p == <<x, y>>
  <2>1. p \in Vertices /\ p[1] = x /\ p[2] = y  BY <1>3, GridSize DEF Vertices
  <2> HIDE DEF p
  <2>2. Wests(T \cup {s}) = Wests(T)
    BY <1>2, <1>3, SameRow DEF Wests
  <2>3. Easts(T \cup {s}) = Easts(T) \cup {p}
    <3>1. \A q \in Vertices : East(q[1], q[2]) = s <=> q = p
      BY <1>2, <1>3, <2>1, SameRow
    <3>2. QED  BY <2>1, <3>1 DEF Easts
  <2>4. p \notin Easts(T)  BY <1>3, <2>1 DEF Easts
  <2>5. Cardinality(Under(Easts(T) \cup {p})) = Cardinality(Under(Easts(T))) + y
    BY <1>0, <2>1, <2>4, UnderOne
  <2>6. Weight(s) = -y  BY <1>3, WeightOf
  <2>7. Balance(T \cup {s}) = W - (E + y)  BY <1>8, <2>2, <2>3, <2>5
  <2> HIDE DEF W, E
  <2>8. QED  BY <1>7, <2>6, <2>7
<1>4. CASE s = West(x, y) /\ x \in 0 .. Width - 1 /\ y \in 0 .. Height
  <2> DEFINE p == <<x, y>>
  <2>1. p \in Vertices /\ p[1] = x /\ p[2] = y  BY <1>4, GridSize DEF Vertices
  <2> HIDE DEF p
  <2>2. Easts(T \cup {s}) = Easts(T)
    BY <1>2, <1>4, SameRow DEF Easts
  <2>3. Wests(T \cup {s}) = Wests(T) \cup {p}
    <3>1. \A q \in Vertices : West(q[1], q[2]) = s <=> q = p
      BY <1>2, <1>4, <2>1, SameRow
    <3>2. QED  BY <2>1, <3>1 DEF Wests
  <2>4. p \notin Wests(T)  BY <1>4, <2>1 DEF Wests
  <2>5. Cardinality(Under(Wests(T) \cup {p})) = Cardinality(Under(Wests(T))) + y
    BY <1>0, <2>1, <2>4, UnderOne
  <2>6. Weight(s) = y  BY <1>4, WeightOf
  <2>7. Balance(T \cup {s}) = W + y - E
    <3>1. Under(Wests(T \cup {s})) = Under(Wests(T) \cup {p})
          /\ Under(Easts(T \cup {s})) = Under(Easts(T))
      BY <2>2, <2>3
    <3>2. QED  BY <1>7, <1>8, <2>5, <3>1
  <2> HIDE DEF W, E
  <2>8. QED  BY <1>7, <2>6, <2>7
<1>5. CASE s = North(x, y) \/ s = South(x, y)
  <2>1. Wests(T \cup {s}) = Wests(T) /\ Easts(T \cup {s}) = Easts(T)
    BY <1>2, <1>5, SameRow DEF Wests, Easts
  <2>2. Weight(s) = 0  BY <1>5, WeightOf
  <2>3. Balance(T \cup {s}) = W - E  BY <1>8, <2>1
  <2> HIDE DEF W, E
  <2>4. QED  BY <1>7, <2>2, <2>3
<1>6. QED  BY <1>1, <1>3, <1>4, <1>5

\* g adds the weights of steps, one after the other, as Area does.
Sums(S, g) ==
  g = [T \in SUBSET S |-> IF T = {} THEN 0 ELSE Weight(AnyOf(T)) + g[T \ {AnyOf(T)}]]

\* Whatever adds as Area does, finds the balance.
LEMMA Summing ==
  ASSUME NEW S \in SUBSET UnitSteps, IsFiniteSet(S)
  PROVE  /\ Sums(S, [T \in SUBSET S |-> Balance(T)])
         /\ \A g : Sums(S, g) => g[S] = Balance(S)
<1>1. ASSUME NEW T \in SUBSET S
      PROVE  Balance(T) = IF T = {} THEN 0 ELSE Weight(AnyOf(T)) + Balance(T \ {AnyOf(T)})
  <2>1. CASE T = {}
    <3>1. Wests(T) = {} /\ Easts(T) = {}  BY <2>1 DEF Wests, Easts
    <3>2. Under({}) = {}  BY DEF Under
    <3>3. Cardinality(Under(Wests(T))) = 0 /\ Cardinality(Under(Easts(T))) = 0
      BY <3>1, <3>2, FS_EmptySet
    <3>4. QED  BY <2>1, <3>3 DEF Balance
  <2>2. CASE T # {}
    <3>1. AnyOf(T) \in T  BY <2>2 DEF AnyOf
    <3>2. T = (T \ {AnyOf(T)}) \cup {AnyOf(T)} /\ AnyOf(T) \notin T \ {AnyOf(T)}
          /\ T \ {AnyOf(T)} \in SUBSET UnitSteps /\ AnyOf(T) \in UnitSteps
      BY <3>1
    <3>3. QED  BY <2>2, <3>2, Adding
  <2>3. QED  BY <2>1, <2>2
<1>2. Sums(S, [T \in SUBSET S |-> Balance(T)])
  <2> DEFINE h == [T \in SUBSET S |-> Balance(T)]
  <2>1. \A T \in SUBSET S : h[T] = Balance(T) /\ h[T \ {AnyOf(T)}] = Balance(T \ {AnyOf(T)})
    OBVIOUS
  <2>2. h = [T \in SUBSET S |-> IF T = {} THEN 0 ELSE Weight(AnyOf(T)) + h[T \ {AnyOf(T)}]]
    BY <1>1, <2>1
  <2>3. QED  BY <2>2 DEF Sums
<1>3. ASSUME NEW g, Sums(S, g), g[S] # Balance(S) PROVE FALSE
  <2> DEFINE X == {T \in SUBSET S : g[T] # Balance(T)}
             C == {Cardinality(T) : T \in X}
  <2>0. \A T \in SUBSET S : IsFiniteSet(T) /\ Cardinality(T) \in Nat
    BY FS_Subset, FS_CardinalityType
  <2>1. C \in SUBSET Nat /\ C # {}
    <3>1. S \in X  BY <1>3
    <3>2. QED  BY <2>0, <3>1
  <2>2. Min(C) \in C /\ \A i \in C : Min(C) <= i
    <3> HIDE DEF C
    <3> QED  BY <2>1, LeastOf
  <2>3. PICK T \in X : Cardinality(T) = Min(C)  BY <2>2
  <2>4. T \in SUBSET S /\ g[T] # Balance(T)  BY <2>3
  <2>5. g[T] = IF T = {} THEN 0 ELSE Weight(AnyOf(T)) + g[T \ {AnyOf(T)}]
    BY <1>3, <2>4 DEF Sums
  <2>6. T # {} /\ T \ {AnyOf(T)} \in X
    <3>1. T # {}  BY <1>1, <2>4, <2>5
    <3>2. g[T \ {AnyOf(T)}] # Balance(T \ {AnyOf(T)})  BY <1>1, <2>4, <2>5, <3>1
    <3>3. QED  BY <2>4, <3>1, <3>2
  <2>7. AnyOf(T) \in T  BY <2>6 DEF AnyOf
  <2>8. Cardinality(T \ {AnyOf(T)}) = Cardinality(T) - 1
    BY <2>0, <2>4, <2>7, FS_RemoveElement
  <2>9. Cardinality(T) <= Cardinality(T \ {AnyOf(T)})  BY <2>2, <2>3, <2>6
  <2>10. Cardinality(T) \in Nat  BY <2>0, <2>4
  <2> HIDE DEF X, C
  <2>11. QED  BY <2>8, <2>9, <2>10
<1>4. QED  BY <1>2, <1>3

\* The area of steps is the balance of the squares below them.
LEMMA AreaIs ==
  ASSUME NEW S \in SUBSET UnitSteps, IsFiniteSet(S)
  PROVE  Area(S) = Balance(S)
<1>1. Area(S) = (CHOOSE g : Sums(S, g))[S]
  BY DEF Area, MapThenSumSet, MapThenFoldSet, Sums, Weight, AnyOf
<1>2. \E g : Sums(S, g)  BY Summing
<1>3. Sums(S, CHOOSE g : Sums(S, g))  BY <1>2
<1>4. QED  BY <1>1, <1>3, Summing

-----------------------------------------------------------------------------
(* A ring: a balanced set of steps that winds equally around all cells on    *)
(* their left.                                                               *)

\* The steps go in rings that have winding number w on their left.
Ringed(S, w) ==
  /\ Balanced(S)
  /\ \A s \in S : Winding(S, LeftCell(s)) = w

\* To the right of a step of such a ring the number is one less, unless the step
\* is taken back.
LEMMA BesideRing ==
  ASSUME NEW S, NEW w, Ringed(S, w), NEW s \in S
  PROVE  /\ Winding(S, LeftCell(s)) = w /\ w \in Int
         /\ Winding(S, RightCell(s)) = w - 1 + Has(S, Back(s))
<1>1. Balanced(S) /\ s \in UnitSteps /\ Winding(S, LeftCell(s)) = w  BY DEF Ringed, Balanced
<1>2. /\ w = Winding(S, RightCell(s)) + Has(S, s) - Has(S, Back(s))
      /\ w \in Int /\ Winding(S, RightCell(s)) \in Int
  BY <1>1, WindingAcross
<1>3. Has(S, s) = 1 /\ Has(S, Back(s)) \in Int  BY HasIs DEF Has
<1>4. QED  BY <1>1, <1>2, <1>3

\* Everywhere the number is that on the left of the ring, the one on its right,
\* or 0.
LEMMA RingRows ==
  ASSUME NEW S, NEW w, Ringed(S, w), NEW x \in Int, x >= -1, NEW y \in Int
  PROVE  /\ Wind(S, x, y) \in {0, w, w - 1}
         /\ 0 \notin {w, w - 1} => Wind(S, x, y) = 0
<1> DEFINE Q(v) == v \in {0, w, w - 1} /\ (0 \notin {w, w - 1} => v = 0)
           P == {i \in Nat : i <= Width + 1 => Q(Wind(S, Width - i, y))}
<1>0. Balanced(S) /\ S \in SUBSET UnitSteps /\ IsFiniteSet(S) /\ Width \in Nat
  BY GridSize DEF Ringed, Balanced
<1>1. CASE x >= Width  BY <1>0, <1>1, WindBeyond
<1>2. CASE x < Width
  <2>1. 0 \in P
    <3>1. Wind(S, Width, y) = 0 /\ Width - 0 = Width  BY <1>0, WindBeyond
    <3>2. QED  BY <3>1
  <2>2. ASSUME NEW i \in Nat, i > 0, i - 1 \in P PROVE i \in P
    <3> SUFFICES ASSUME i <= Width + 1 PROVE Q(Wind(S, Width - i, y))  OBVIOUS
    <3> DEFINE a == Width - (i - 1)
    <3>1. a \in Int /\ a - 1 = Width - i /\ a >= 0 /\ a - 1 >= -1 /\ a >= -1 /\ a - 1 \in Int
      BY <1>0
    <3>2. Q(Wind(S, a, y))
      <4>1. i - 1 <= Width + 1  BY <1>0
      <4>2. QED  BY <2>2, <4>1
    <3> HIDE DEF a, Q
    <3>3. Wind(S, a - 1, y) = Wind(S, a, y) + Has(S, North(a, y)) - Has(S, South(a, y))
          /\ Wind(S, a, y) \in Int
      BY <1>0, <3>1, WindEast
    <3>4. /\ Winding(S, CellAt(a, y)) = Wind(S, a, y)
          /\ Winding(S, CellAt(a - 1, y)) = Wind(S, a - 1, y)
      BY <1>0, <3>1, WindCell
    <3>5. CASE North(a, y) \in S
      <4>1. Wind(S, a - 1, y) = w /\ Wind(S, a, y) \in {w, w - 1}
        <5>1. /\ Winding(S, LeftCell(North(a, y))) = w /\ w \in Int
              /\ Winding(S, RightCell(North(a, y))) = w - 1 + Has(S, Back(North(a, y)))
          BY <3>5, BesideRing
        <5>2. LeftCell(North(a, y)) = CellAt(a - 1, y) /\ RightCell(North(a, y)) = CellAt(a, y)
          BY <3>1, NorthStep
        <5>3. Has(S, Back(North(a, y))) \in {0, 1}  BY HasIs
        <5>4. QED  BY <3>4, <5>1, <5>2, <5>3
      <4>2. QED  BY <3>1, <3>2, <4>1 DEF Q
    <3>6. CASE South(a, y) \in S
      <4>1. Wind(S, a, y) = w /\ Wind(S, a - 1, y) \in {w, w - 1}
        <5>1. /\ Winding(S, LeftCell(South(a, y))) = w /\ w \in Int
              /\ Winding(S, RightCell(South(a, y))) = w - 1 + Has(S, Back(South(a, y)))
          BY <3>6, BesideRing
        <5>2. LeftCell(South(a, y)) = CellAt(a, y) /\ RightCell(South(a, y)) = CellAt(a - 1, y)
          BY <3>1, NorthStep
        <5>3. Has(S, Back(South(a, y))) \in {0, 1}  BY HasIs
        <5>4. QED  BY <3>4, <5>1, <5>2, <5>3
      <4>2. QED  BY <3>1, <3>2, <4>1 DEF Q
    <3>7. CASE North(a, y) \notin S /\ South(a, y) \notin S
      <4>1. Has(S, North(a, y)) = 0 /\ Has(S, South(a, y)) = 0  BY <3>7 DEF Has
      <4>2. Wind(S, a - 1, y) = Wind(S, a, y)  BY <3>3, <4>1
      <4>3. QED  BY <3>1, <3>2, <4>2
    <3>8. QED  BY <3>5, <3>6, <3>7
  <2> DEFINE i == Width - x
  <2>3. i \in Nat /\ i \in 0 .. i /\ i <= Width + 1 /\ Width - i = x  BY <1>0, <1>2
  <2>4. 0 .. i \subseteq P
    <3> HIDE DEF P, i
    <3>1. QED  BY <2>1, <2>2, <2>3, Downward
  <2>5. i \in P  BY <2>3, <2>4
  <2>6. Q(Wind(S, x, y))  BY <2>3, <2>5
  <2>7. QED  BY <2>6
<1>3. QED  BY <1>0, <1>1, <1>2

\* A ring that does not take every step back turns one way only.
LEMMA RingWinds ==
  ASSUME NEW S, NEW w, Ringed(S, w), NEW s \in S, Back(s) \notin S
  PROVE  /\ w \in {0, 1}
         /\ \A c \in Cells : Winding(S, c) \in {w, w - 1}
         /\ Winding(S, LeftCell(s)) = w /\ Winding(S, RightCell(s)) = w - 1
<1>1. s \in UnitSteps  BY DEF Ringed, Balanced
<1>2. Winding(S, LeftCell(s)) = w /\ Winding(S, RightCell(s)) = w - 1 /\ w \in Int
  <2>1. Has(S, Back(s)) = 0  BY DEF Has
  <2>2. QED  BY <2>1, BesideRing
<1>3. ASSUME NEW c \in Cells
      PROVE  /\ Winding(S, c) \in {0, w, w - 1}
             /\ 0 \notin {w, w - 1} => Winding(S, c) = 0
  <2>1. PICK x \in Int, y \in Int :
           c = CellAt(x, y) /\ x \in -1 .. Width - 1 /\ y \in -1 .. Height - 1
    BY CellIntro
  <2>2. x >= -1  BY <2>1, GridSize
  <2>3. Winding(S, c) = Wind(S, x, y)  BY <2>1, <2>2, WindCell DEF Ringed
  <2>4. QED  BY <2>2, <2>3, RingRows
<1>4. LeftCell(s) \in Cells /\ RightCell(s) \in Cells  BY <1>1, StepCells
<1>5. 0 \in {w, w - 1}
  <2> SUFFICES ASSUME 0 \notin {w, w - 1} PROVE FALSE  OBVIOUS
  <2>1. Winding(S, LeftCell(s)) = 0 /\ Winding(S, RightCell(s)) = 0  BY <1>3, <1>4
  <2>2. QED  BY <1>2, <2>1
<1>6. w \in {0, 1}  BY <1>2, <1>5
<1>7. QED  BY <1>2, <1>3, <1>5, <1>6

\* A ring encloses what is on its left just if it is counterclockwise; it has an
\* area then.
LEMMA RingTurns ==
  ASSUME NEW S, NEW w, Ringed(S, w), NEW s \in S, Back(s) \notin S
  PROVE  /\ ptarray_isccw(S) <=> w = 1
         /\ w = 1 => Area(S) > 0
<1>0. /\ Balanced(S) /\ S \in SUBSET UnitSteps /\ IsFiniteSet(S)
      /\ Easts(S) \in SUBSET Vertices /\ Wests(S) \in SUBSET Vertices
  BY DEF Ringed, Balanced, Easts, Wests
<1>1. /\ Area(S) = Cardinality(Under(Wests(S))) - Cardinality(Under(Easts(S)))
      /\ Cardinality(Under(Wests(S))) \in Nat /\ Cardinality(Under(Easts(S))) \in Nat
  BY <1>0, AreaIs, UnderFinite DEF Balance
<1>2. w \in {0, 1} /\ Winding(S, RightCell(s)) = w - 1  BY RingWinds
<1>3. ASSUME NEW x \in 0 .. Width, NEW y \in -1 .. Height
      PROVE  /\ Wind(S, x, y) \in {w, w - 1}
             /\ y \in {-1, Height} => Wind(S, x, y) = 0
             /\ y \in 0 .. Height => Wind(S, x, y) = Wind(S, x, y - 1) + Has(Easts(S), <<x, y>>)
                                                      - Has(Wests(S), <<x, y>>)
  <2>1. x \in Int /\ y \in Int /\ x >= -1  BY GridSize
  <2>2. Wind(S, x, y) \in {w, w - 1}  BY <1>2, <2>1, RingRows
  <2>3. y \in {-1, Height} => Wind(S, x, y) = 0  BY <1>0, <2>1, WindBeyond, GridSize
  <2>4. ASSUME y \in 0 .. Height
        PROVE  Wind(S, x, y) = Wind(S, x, y - 1) + Has(Easts(S), <<x, y>>)
                                                  - Has(Wests(S), <<x, y>>)
    BY <1>0, <2>1, <2>4, HasRows, WindNorth
  <2>5. QED  BY <2>2, <2>3, <2>4
<1>4. CASE w = 1
  <2> DEFINE u == [p \in (0 .. Width) \X (-1 .. Height) |-> Wind(S, p[1], p[2])]
  <2>1. ASSUME NEW x \in 0 .. Width, NEW y \in -1 .. Height
        PROVE  u[<<x, y>>] = Wind(S, x, y)
    OBVIOUS
  <2> HIDE DEF u
  <2>2. Stepping(u, Easts(S), Wests(S))
    <3>1. \A x \in 0 .. Width, y \in -1 .. Height : u[<<x, y>>] \in {0, 1}
      <4>1. w - 1 = 0  BY <1>4
      <4>2. QED  BY <1>3, <1>4, <2>1, <4>1
    <3>2. -1 \in -1 .. Height /\ Height \in -1 .. Height  BY GridSize
    <3>3. \A x \in 0 .. Width : u[<<x, -1>>] = 0 /\ u[<<x, Height>>] = 0  BY <1>3, <2>1, <3>2
    <3>4. ASSUME NEW x \in 0 .. Width, NEW y \in 0 .. Height
          PROVE  u[<<x, y>>] = u[<<x, y - 1>>] + Has(Easts(S), <<x, y>>) - Has(Wests(S), <<x, y>>)
      <4>1. y \in -1 .. Height /\ y - 1 \in -1 .. Height  BY GridSize
      <4>2. QED  BY <1>3, <2>1, <4>1
    <3>5. QED  BY <3>1, <3>3, <3>4 DEF Stepping
  <2>3. Easts(S) \ Wests(S) # {}
    <3>1. s \in UnitSteps  BY <1>0
    <3>2. PICK x \in Int, y \in Int :
             LeftCell(s) = CellAt(x, y) /\ x \in -1 .. Width - 1 /\ y \in -1 .. Height - 1
      BY <3>1, StepCells, CellIntro
    <3>3. x >= -1  BY <3>2, GridSize
    <3>4. Winding(S, LeftCell(s)) = 1  BY <1>4, RingWinds
    <3>5. Wind(S, x, y) = 1  BY <1>0, <3>2, <3>3, <3>4, WindCell
    <3>6. x # -1 /\ y # -1  BY <1>0, <3>5, WindBefore, WindBeyond
    <3>7. x \in 0 .. Width /\ y \in 0 .. Height /\ y \in -1 .. Height  BY <3>2, <3>6, GridSize
    <3>8. <<x, y>> \in Vertices  BY <3>7 DEF Vertices
    <3>9. u[<<x, y>>] = 1  BY <2>1, <3>5, <3>7
    <3>10. QED  BY <2>2, <3>8, <3>9, RisesBelow
  <2>4. Cardinality(Under(Easts(S))) < Cardinality(Under(Wests(S)))
    BY <1>0, <2>2, <2>3, LessUnder
  <2>5. Area(S) > 0 /\ Area(S) >= 0  BY <1>1, <2>4
  <2>6. QED  BY <1>4, <2>5 DEF ptarray_isccw
<1>5. CASE w = 0
  <2> DEFINE u == [p \in (0 .. Width) \X (-1 .. Height) |-> 0 - Wind(S, p[1], p[2])]
  <2>1. ASSUME NEW x \in 0 .. Width, NEW y \in -1 .. Height
        PROVE  u[<<x, y>>] = 0 - Wind(S, x, y)
    OBVIOUS
  <2> HIDE DEF u
  <2>2. Stepping(u, Wests(S), Easts(S))
    <3>1. \A x \in 0 .. Width, y \in -1 .. Height : u[<<x, y>>] \in {0, 1}
      <4> TAKE x \in 0 .. Width, y \in -1 .. Height
      <4>1. Wind(S, x, y) \in {0, -1}
        <5>1. w - 1 = -1  BY <1>5
        <5>2. QED  BY <1>3, <1>5, <5>1
      <4>2. QED  BY <2>1, <4>1
    <3>2. -1 \in -1 .. Height /\ Height \in -1 .. Height  BY GridSize
    <3>3. \A x \in 0 .. Width : u[<<x, -1>>] = 0 /\ u[<<x, Height>>] = 0
      <4> TAKE x \in 0 .. Width
      <4>1. Wind(S, x, -1) = 0 /\ Wind(S, x, Height) = 0  BY <1>3, <3>2
      <4>2. QED  BY <2>1, <3>2, <4>1
    <3>4. ASSUME NEW x \in 0 .. Width, NEW y \in 0 .. Height
          PROVE  u[<<x, y>>] = u[<<x, y - 1>>] + Has(Wests(S), <<x, y>>) - Has(Easts(S), <<x, y>>)
      <4>1. y \in -1 .. Height /\ y - 1 \in -1 .. Height  BY GridSize
      <4>2. /\ u[<<x, y>>] = 0 - Wind(S, x, y) /\ u[<<x, y - 1>>] = 0 - Wind(S, x, y - 1)
            /\ Wind(S, x, y) = Wind(S, x, y - 1) + Has(Easts(S), <<x, y>>)
                                                  - Has(Wests(S), <<x, y>>)
        BY <1>3, <2>1, <4>1
      <4>3. Has(Easts(S), <<x, y>>) \in Int /\ Has(Wests(S), <<x, y>>) \in Int  BY HasIs
      <4>4. Wind(S, x, y - 1) \in {0, -1}
        <5>1. w - 1 = -1  BY <1>5
        <5>2. QED  BY <1>3, <1>5, <4>1, <5>1
      <4>5. QED  BY <4>2, <4>3, <4>4
    <3>5. QED  BY <3>1, <3>3, <3>4 DEF Stepping
  <2>3. Wests(S) \ Easts(S) # {}
    <3>1. s \in UnitSteps  BY <1>0
    <3>2. PICK x \in Int, y \in Int :
             RightCell(s) = CellAt(x, y) /\ x \in -1 .. Width - 1 /\ y \in -1 .. Height - 1
      BY <3>1, StepCells, CellIntro
    <3>3. x >= -1  BY <3>2, GridSize
    <3>4. Wind(S, x, y) = -1  BY <1>0, <1>2, <1>5, <3>2, <3>3, WindCell
    <3>5. x # -1 /\ y # -1  BY <1>0, <3>4, WindBefore, WindBeyond
    <3>6. x \in 0 .. Width /\ y \in 0 .. Height /\ y \in -1 .. Height  BY <3>2, <3>5, GridSize
    <3>7. <<x, y>> \in Vertices  BY <3>6 DEF Vertices
    <3>8. u[<<x, y>>] = 1  BY <2>1, <3>4, <3>6
    <3>9. QED  BY <2>2, <3>7, <3>8, RisesBelow
  <2>4. Cardinality(Under(Wests(S))) < Cardinality(Under(Easts(S)))
    BY <1>0, <2>2, <2>3, LessUnder
  <2>5. ~(Area(S) >= 0)  BY <1>1, <2>4
  <2>6. QED  BY <1>5, <2>5 DEF ptarray_isccw
<1>6. QED  BY <1>2, <1>4, <1>5

-----------------------------------------------------------------------------
(* Lines and nodes meet only where a line ends. *)

\* No inner vertex of a line is another vertex of it.
Plain(g) == \A i \in 2 .. Len(g) - 1, j \in 1 .. Len(g) : g[i] = g[j] => i = j

\* Nodes at a and lines G.
Meeting(a, G) ==
  /\ \A m, n \in DOMAIN a : a[m] = a[n] => m = n
  /\ \A e \in DOMAIN G : Plain(G[e]) /\ \A n \in DOMAIN a : a[n] \notin InteriorPoints(G[e])
  /\ \A e, f \in DOMAIN G : e # f => InteriorPoints(G[e]) \cap InteriorPoints(G[f]) = {}

\* Lines and nodes meet only where a line ends.
Planar == Meeting(at, geom)

\* The inner vertices of a line.
LEMMA InteriorIs ==
  ASSUME NEW g
  PROVE  \A p : p \in InteriorPoints(g) <=> \E i \in 2 .. Len(g) - 1 : g[i] = p
  BY DEF InteriorPoints

\* A simple line passes no vertex twice, but may end where it starts.
LEMMA SimplePlain ==
  ASSUME NEW g, IsLine(g), lwgeom_is_simple(g)
  PROVE  Plain(g) /\ g[1] \notin InteriorPoints(g) /\ Last(g) \notin InteriorPoints(g)
<1> DEFINE n == Len(g) - 2
           f == [k \in 1 .. n |-> g[k + 1]]
           T == InteriorPoints(g)
<1>1. Len(g) \in Nat /\ n \in Nat /\ Last(g) = g[Len(g)]  BY LineFacts
<1>2. IsFiniteSet(1 .. n) /\ Cardinality(1 .. n) = n
  <2>1. n \in Int /\ 1 \in Int /\ (IF 1 > n THEN 0 ELSE n - 1 + 1) = n  BY <1>1
  <2> HIDE DEF n
  <2>2. QED  BY <2>1, FS_Interval
<1>3. Cardinality(T) = n /\ g[1] \notin T /\ g[Len(g)] \notin T
  BY <1>1 DEF lwgeom_is_simple, Ends
<1>4. \A i \in 2 .. Len(g) - 1 : i - 1 \in 1 .. n /\ f[i - 1] = g[i]
  <2> TAKE i \in 2 .. Len(g) - 1
  <2>1. i - 1 \in 1 .. n /\ i - 1 + 1 = i  BY <1>1
  <2>2. QED  BY <2>1
<1>5. \A k \in 1 .. n : k + 1 \in 2 .. Len(g) - 1  BY <1>1
<1>6. f \in Surjection(1 .. n, T)
  <2>1. \A k \in 1 .. n : f[k] \in T
    <3>1. \A k \in 1 .. n : f[k] = g[k + 1]  OBVIOUS
    <3> HIDE DEF n, f
    <3>2. QED  BY <1>5, <3>1, InteriorIs
  <2>2. \A p \in T : \E k \in 1 .. n : f[k] = p
    <3> TAKE p \in T
    <3>1. PICK i \in 2 .. Len(g) - 1 : g[i] = p  BY InteriorIs
    <3> HIDE DEF n, f
    <3>2. QED  BY <1>4, <3>1
  <2>3. QED  BY <2>1, <2>2 DEF Surjection
<1>7. f \in Injection(1 .. n, T)
  <2> HIDE DEF f, T, n
  <2>1. QED  BY <1>2, <1>3, <1>6, FS_SurjSameCardinalityImpliesInj
<1>8. \A i, j \in 2 .. Len(g) - 1 : g[i] = g[j] => i = j
  <2> SUFFICES ASSUME NEW i \in 2 .. Len(g) - 1, NEW j \in 2 .. Len(g) - 1, g[i] = g[j]
               PROVE  i = j
    OBVIOUS
  <2> HIDE DEF f, T, n
  <2>1. \A k, l \in 1 .. n : f[k] = f[l] => k = l  BY <1>7 DEF Injection, IsInjective
  <2>2. i - 1 = j - 1  BY <1>4, <2>1
  <2>3. QED  BY <1>1, <2>2
<1>9. QED  BY <1>1, <1>3, <1>8, InteriorIs DEF Plain

\* The reverse of a line passes the same vertices.
LEMMA PlainReverse ==
  ASSUME NEW g, IsLine(g)
  PROVE  InteriorPoints(Reverse(g)) = InteriorPoints(g) /\ (Plain(g) => Plain(Reverse(g)))
<1>1. /\ Len(g) \in Nat /\ Len(Reverse(g)) = Len(g)
      /\ \A i \in 1 .. Len(g) : Reverse(g)[i] = g[Len(g) - i + 1]
  BY LineFacts, ReverseLine
<1> DEFINE n == Len(g)
           r == Reverse(g)
<1>2. \A i \in 1 .. n : n - i + 1 \in 1 .. n /\ n - (n - i + 1) + 1 = i
                        /\ (i \in 2 .. n - 1 <=> n - i + 1 \in 2 .. n - 1)
  BY <1>1
<1>3. /\ n \in Nat /\ Len(r) = n /\ \A i \in 1 .. n : r[i] = g[n - i + 1] /\ g[i] = r[n - i + 1]
  BY <1>1, <1>2
<1>4. 2 .. n - 1 \subseteq 1 .. n  BY <1>1
<1>5. \A p : p \in InteriorPoints(r) <=> p \in InteriorPoints(g)
  <2> TAKE p
  <2>1. p \in InteriorPoints(r) <=> \E i \in 2 .. n - 1 : r[i] = p  BY <1>3, InteriorIs
  <2>2. p \in InteriorPoints(g) <=> \E i \in 2 .. n - 1 : g[i] = p  BY InteriorIs
  <2> HIDE DEF n, r
  <2>3. QED  BY <1>2, <1>3, <1>4, <2>1, <2>2
<1>6. ASSUME Plain(g), NEW i \in 2 .. n - 1, NEW j \in 1 .. n, r[i] = r[j]  PROVE i = j
  <2>1. i \in 1 .. n /\ n - i + 1 \in 2 .. n - 1 /\ n - j + 1 \in 1 .. n  BY <1>2, <1>4
  <2>2. g[n - i + 1] = g[n - j + 1]  BY <1>3, <1>6, <2>1
  <2>3. n - i + 1 = n - j + 1  BY <1>6, <2>1, <2>2 DEF Plain
  <2>4. QED  BY <1>3, <2>1, <2>3
<1>7. QED  BY <1>3, <1>5, <1>6 DEF Plain

\* The parts of a line share the vertex where it is cut, and no other.
LEMMA PlainCut ==
  ASSUME NEW g, IsLine(g), Plain(g), NEW c \in 2 .. Len(g) - 1, NEW s, NEW t, Cut(g, c, s, t)
  PROVE  /\ Plain(s) /\ Plain(t)
         /\ InteriorPoints(s) \subseteq InteriorPoints(g)
         /\ InteriorPoints(t) \subseteq InteriorPoints(g)
         /\ InteriorPoints(s) \cap InteriorPoints(t) = {}
         /\ g[c] \notin InteriorPoints(s) /\ g[c] \notin InteriorPoints(t)
         /\ g[c] \in InteriorPoints(g)
<1> DEFINE n == Len(g)
<1>1. n \in Nat /\ c \in 2 .. n - 1 /\ c \in Int  BY LineFacts
<1>2. /\ Len(s) = c /\ \A i \in 1 .. c : s[i] = g[i]
  <2>1. 1 \in 1 .. n /\ c \in 1 .. n /\ 1 < c  BY <1>1
  <2>2. Len(s) = c - 1 + 1 /\ \A i \in 1 .. c - 1 + 1 : s[i] = g[1 + i - 1]
    BY <2>1, PartOfLine DEF Cut
  <2>3. c - 1 + 1 = c /\ \A i \in 1 .. c : 1 + i - 1 = i  BY <1>1
  <2>4. QED  BY <2>2, <2>3
<1>3. /\ Len(t) = n - c + 1 /\ \A i \in 1 .. n - c + 1 : t[i] = g[c + i - 1]
  <2>1. c \in 1 .. n /\ n \in 1 .. n /\ c < n  BY <1>1
  <2>2. QED  BY <2>1, PartOfLine DEF Cut
<1>4. \A i \in 2 .. n - 1, j \in 1 .. n : g[i] = g[j] => i = j  BY DEF Plain
<1>5. \A p : p \in InteriorPoints(g) <=> \E i \in 2 .. n - 1 : g[i] = p  BY InteriorIs
<1>6. \A p \in InteriorPoints(s) : \E i \in 2 .. c - 1 : g[i] = p
  <2> TAKE p \in InteriorPoints(s)
  <2>1. PICK i \in 2 .. c - 1 : s[i] = p  BY <1>2, InteriorIs
  <2>2. i \in 1 .. c  BY <1>1
  <2>3. QED  BY <1>2, <2>1, <2>2
<1>7. \A p \in InteriorPoints(t) : \E i \in c + 1 .. n - 1 : g[i] = p
  <2> TAKE p \in InteriorPoints(t)
  <2>1. PICK i \in 2 .. n - c + 1 - 1 : t[i] = p  BY <1>3, InteriorIs
  <2>2. i \in 1 .. n - c + 1 /\ c + i - 1 \in c + 1 .. n - 1  BY <1>1
  <2>3. QED  BY <1>3, <2>1, <2>2
<1> HIDE DEF n
<1>8. Plain(s)
  <2> SUFFICES ASSUME NEW i \in 2 .. c - 1, NEW j \in 1 .. c, s[i] = s[j]  PROVE i = j
    BY <1>2 DEF Plain
  <2>1. i \in 1 .. c /\ i \in 2 .. n - 1 /\ j \in 1 .. n  BY <1>1
  <2>2. g[i] = g[j]  BY <1>2, <2>1
  <2>3. QED  BY <1>4, <2>1, <2>2
<1>9. Plain(t)
  <2>1. ASSUME NEW i \in 2 .. n - c, NEW j \in 1 .. n - c + 1, t[i] = t[j]  PROVE i = j
    <3>1. i \in 1 .. n - c + 1 /\ c + i - 1 \in 2 .. n - 1 /\ c + j - 1 \in 1 .. n  BY <1>1
    <3>2. g[c + i - 1] = g[c + j - 1]  BY <1>3, <2>1, <3>1
    <3>3. c + i - 1 = c + j - 1  BY <1>4, <3>1, <3>2
    <3>4. QED  BY <1>1, <3>1, <3>3
  <2>2. QED
    <3>1. Len(t) - 1 = n - c /\ Len(t) = n - c + 1  BY <1>1, <1>3
    <3>2. \A i \in 2 .. Len(t) - 1, j \in 1 .. Len(t) : t[i] = t[j] => i = j
      BY ONLY <2>1, <3>1
    <3>3. QED  BY <3>2 DEF Plain
<1>10. 2 .. c - 1 \subseteq 2 .. n - 1 /\ c + 1 .. n - 1 \subseteq 2 .. n - 1 /\ 2 .. n - 1 \subseteq 1 .. n
  BY <1>1
<1>11. InteriorPoints(s) \subseteq InteriorPoints(g) /\ InteriorPoints(t) \subseteq InteriorPoints(g)
  BY <1>5, <1>6, <1>7, <1>10
<1>12. ASSUME NEW p, p \in InteriorPoints(s), p \in InteriorPoints(t)  PROVE FALSE
  <2>1. PICK i \in 2 .. c - 1 : g[i] = p  BY <1>6, <1>12
  <2>2. PICK j \in c + 1 .. n - 1 : g[j] = p  BY <1>7, <1>12
  <2>3. i = j  BY <1>4, <1>10, <2>1, <2>2
  <2>4. QED  BY <1>1, <2>1, <2>2, <2>3
<1>13. g[c] \notin InteriorPoints(s)
  <2> SUFFICES ASSUME NEW i \in 2 .. c - 1, g[i] = g[c]  PROVE FALSE  BY <1>6
  <2>1. i = c  BY <1>1, <1>4, <1>10
  <2>2. QED  BY <1>1, <2>1
<1>14. g[c] \notin InteriorPoints(t)
  <2> SUFFICES ASSUME NEW i \in c + 1 .. n - 1, g[i] = g[c]  PROVE FALSE  BY <1>7
  <2>1. i = c  BY <1>1, <1>4, <1>10
  <2>2. QED  BY <1>1, <2>1
<1>15. QED  BY <1>1, <1>5, <1>8, <1>9, <1>11, <1>12, <1>13, <1>14

\* Two lines that meet only at their ends make one that passes no vertex twice.
LEMMA PlainJoined ==
  ASSUME NEW g, NEW h, NEW j, IsLine(g), IsLine(h), Plain(g), Plain(h), Joins(j, g, h),
         Last(g) = h[1], g[1] # h[1], Last(h) # h[1],
         InteriorPoints(g) \cap InteriorPoints(h) = {},
         g[1] \notin InteriorPoints(h), Last(h) \notin InteriorPoints(g)
  PROVE  Plain(j) /\ InteriorPoints(j) = InteriorPoints(g) \cup InteriorPoints(h) \cup {h[1]}
<1> DEFINE lg == Len(g)
           lh == Len(h)
           n == lg + lh - 1
<1>1. /\ lg \in Nat /\ lg > 1 /\ lh \in Nat /\ lh > 1 /\ Last(g) = g[lg] /\ Last(h) = h[lh]
  BY LineFacts
<1>2. /\ Len(j) = n /\ \A i \in 1 .. lg : j[i] = g[i]
      /\ \A i \in 1 .. lh : j[lg + i - 1] = h[i]
  BY DEF Joins
<1>3. \A i \in 2 .. lg - 1, k \in 1 .. lg : g[i] = g[k] => i = k  BY DEF Plain
<1>4. \A i \in 2 .. lh - 1, k \in 1 .. lh : h[i] = h[k] => i = k  BY DEF Plain
<1>5. \A p : p \in InteriorPoints(g) <=> \E i \in 2 .. lg - 1 : g[i] = p  BY InteriorIs
<1>6. \A p : p \in InteriorPoints(h) <=> \E i \in 2 .. lh - 1 : h[i] = p  BY InteriorIs
<1>7. \A p : p \in InteriorPoints(j) <=> \E i \in 2 .. n - 1 : j[i] = p  BY <1>2, InteriorIs
<1> HIDE DEF lg, lh
<1>8. n \in Nat  BY <1>1
<1>9. ASSUME NEW i \in 1 .. n
      PROVE  \/ i \in 1 .. lg - 1 /\ j[i] = g[i]
             \/ i = lg /\ j[i] = h[1] /\ j[i] = g[lg]
             \/ i - lg + 1 \in 2 .. lh /\ j[i] = h[i - lg + 1]
  <2>1. CASE i < lg
    <3>1. i \in 1 .. lg - 1 /\ i \in 1 .. lg  BY <1>1, <2>1
    <3>2. QED  BY <1>2, <3>1
  <2>2. CASE i = lg
    <3>1. i \in 1 .. lg  BY <1>1, <2>2
    <3>2. QED  BY <1>1, <1>2, <2>2, <3>1
  <2>3. CASE i > lg
    <3>1. i - lg + 1 \in 2 .. lh /\ i - lg + 1 \in 1 .. lh /\ lg + (i - lg + 1) - 1 = i  BY <1>1, <2>3
    <3>2. QED  BY <1>2, <3>1
  <2>4. QED  BY <1>1, <2>1, <2>2, <2>3
<1>10. ASSUME NEW i \in 2 .. n - 1
       PROVE  \/ i \in 2 .. lg - 1 /\ j[i] = g[i] /\ j[i] \in InteriorPoints(g)
              \/ i = lg /\ j[i] = h[1] /\ j[i] = g[lg]
              \/ /\ i - lg + 1 \in 2 .. lh - 1 /\ j[i] = h[i - lg + 1]
                 /\ j[i] \in InteriorPoints(h)
  <2>1. i \in 1 .. n  BY <1>8
  <2>2. CASE i \in 1 .. lg - 1 /\ j[i] = g[i]
    <3>1. i \in 2 .. lg - 1  BY <1>1, <2>2
    <3>2. QED  BY <1>5, <2>2, <3>1
  <2>3. CASE i = lg /\ j[i] = h[1] /\ j[i] = g[lg]  BY <2>3
  <2>4. CASE i - lg + 1 \in 2 .. lh /\ j[i] = h[i - lg + 1]
    <3>1. i - lg + 1 \in 2 .. lh - 1  BY <1>1, <2>4
    <3>2. QED  BY <1>6, <2>4, <3>1
  <2> HIDE DEF n
  <2>5. QED  BY <1>9, <2>1, <2>2, <2>3, <2>4
<1>11. Plain(j)
  <2> SUFFICES ASSUME NEW i \in 2 .. n - 1, NEW k \in 1 .. n, j[i] = j[k]  PROVE i = k
    BY <1>2 DEF Plain
  <2> HIDE DEF n
  <2>1. CASE i \in 2 .. lg - 1 /\ j[i] = g[i] /\ j[i] \in InteriorPoints(g)
    <3>1. CASE k \in 1 .. lg - 1 /\ j[k] = g[k]
      <4>1. k \in 1 .. lg  BY <1>1, <3>1
      <4>2. QED  BY <1>3, <2>1, <3>1, <4>1
    <3>2. CASE k = lg /\ j[k] = g[lg]
      <4>1. lg \in 1 .. lg  BY <1>1
      <4>2. QED  BY <1>3, <2>1, <3>2, <4>1
    <3>3. CASE k - lg + 1 \in 2 .. lh /\ j[k] = h[k - lg + 1]
      <4>1. CASE k - lg + 1 = lh  BY <1>1, <2>1, <3>3, <4>1
      <4>2. CASE k - lg + 1 # lh
        <5>1. k - lg + 1 \in 2 .. lh - 1  BY <1>1, <3>3, <4>2
        <5>2. QED  BY <1>6, <2>1, <3>3, <5>1
      <4>3. QED  BY <4>1, <4>2
    <3>4. QED  BY <1>9, <3>1, <3>2, <3>3
  <2>2. CASE i = lg /\ j[i] = h[1] /\ j[i] = g[lg]
    <3>1. CASE k \in 1 .. lg - 1 /\ j[k] = g[k]
      <4>1. CASE k = 1  BY <1>1, <2>2, <3>1, <4>1
      <4>2. CASE k # 1
        <5>1. k \in 2 .. lg - 1 /\ lg \in 1 .. lg  BY <1>1, <3>1, <4>2
        <5>2. QED  BY <1>3, <2>2, <3>1, <5>1
      <4>3. QED  BY <4>1, <4>2
    <3>2. CASE k = lg  BY <2>2, <3>2
    <3>3. CASE k - lg + 1 \in 2 .. lh /\ j[k] = h[k - lg + 1]
      <4>1. CASE k - lg + 1 = lh  BY <1>1, <2>2, <3>3, <4>1
      <4>2. CASE k - lg + 1 # lh
        <5>1. k - lg + 1 \in 2 .. lh - 1 /\ 1 \in 1 .. lh  BY <1>1, <3>3, <4>2
        <5>2. k - lg + 1 = 1  BY <1>4, <2>2, <3>3, <5>1
        <5>3. QED  BY <5>1, <5>2
      <4>3. QED  BY <4>1, <4>2
    <3>4. QED  BY <1>9, <3>1, <3>2, <3>3
  <2>3. CASE /\ i - lg + 1 \in 2 .. lh - 1 /\ j[i] = h[i - lg + 1]
             /\ j[i] \in InteriorPoints(h)
    <3>1. CASE k \in 1 .. lg - 1 /\ j[k] = g[k]
      <4>1. CASE k = 1  BY <2>3, <3>1, <4>1
      <4>2. CASE k # 1
        <5>1. k \in 2 .. lg - 1  BY <1>1, <3>1, <4>2
        <5>2. QED  BY <1>5, <2>3, <3>1, <5>1
      <4>3. QED  BY <4>1, <4>2
    <3>2. CASE k = lg /\ j[k] = h[1]
      <4>1. 1 \in 1 .. lh  BY <1>1
      <4>2. i - lg + 1 = 1  BY <1>4, <2>3, <3>2, <4>1
      <4>3. QED  BY <2>3, <4>2
    <3>3. CASE k - lg + 1 \in 2 .. lh /\ j[k] = h[k - lg + 1]
      <4>1. k - lg + 1 \in 1 .. lh  BY <1>1, <3>3
      <4>2. i - lg + 1 = k - lg + 1  BY <1>4, <2>3, <3>3, <4>1
      <4>3. i \in Int /\ k \in Int /\ lg \in Int  BY <1>1, <1>8
      <4>4. QED  BY <4>2, <4>3
    <3>4. QED  BY <1>9, <3>1, <3>2, <3>3
  <2>4. QED  BY <1>10, <2>1, <2>2, <2>3
<1>12. \A p \in InteriorPoints(j) : p \in InteriorPoints(g) \cup InteriorPoints(h) \cup {h[1]}
  BY <1>7, <1>10
<1>13. ASSUME NEW p \in InteriorPoints(g)  PROVE p \in InteriorPoints(j)
  <2>1. PICK i \in 2 .. lg - 1 : g[i] = p  BY <1>5
  <2>2. i \in 1 .. lg /\ i \in 2 .. n - 1  BY <1>1
  <2>3. QED  BY <1>2, <1>7, <2>1, <2>2
<1>14. ASSUME NEW p \in InteriorPoints(h)  PROVE p \in InteriorPoints(j)
  <2>1. PICK i \in 2 .. lh - 1 : h[i] = p  BY <1>6
  <2>2. i \in 1 .. lh /\ lg + i - 1 \in 2 .. n - 1  BY <1>1
  <2>3. QED  BY <1>2, <1>7, <2>1, <2>2
<1>15. h[1] \in InteriorPoints(j)
  <2>1. lg \in 1 .. lg /\ lg \in 2 .. n - 1  BY <1>1
  <2>2. QED  BY <1>1, <1>2, <1>7, <2>1
<1>16. QED  BY <1>11, <1>12, <1>13, <1>14, <1>15

\* Fewer nodes and lines,
LEMMA MeetingPart ==
  ASSUME NEW a, NEW G, Meeting(a, G),
         NEW b, DOMAIN b \subseteq DOMAIN a, \A n \in DOMAIN b : b[n] = a[n],
         NEW H, DOMAIN H \subseteq DOMAIN G, \A e \in DOMAIN H : H[e] = G[e]
  PROVE  Meeting(b, H)
<1>1. \A e \in DOMAIN H : e \in DOMAIN G  OBVIOUS
<1>2. \A n \in DOMAIN b : n \in DOMAIN a  OBVIOUS
<1>3. QED  BY <1>1, <1>2 DEF Meeting

\* a node in a place of its own,
LEMMA MeetingNode ==
  ASSUME NEW a, NEW G, Meeting(a, G), NEW n, NEW p,
         NEW b, DOMAIN b \subseteq DOMAIN a \cup {n}, b[n] = p,
         \A m \in DOMAIN b \ {n} : b[m] = a[m],
         \A m \in DOMAIN a : a[m] # p,
         \A e \in DOMAIN G : p \notin InteriorPoints(G[e])
  PROVE  Meeting(b, G)
  BY DEF Meeting

\* another line, new or for edge e,
LEMMA MeetingLine ==
  ASSUME NEW a, NEW G, Meeting(a, G), NEW e, NEW g,
         NEW H, DOMAIN H = DOMAIN G \cup {e}, H[e] = g,
         \A f \in DOMAIN G \ {e} : H[f] = G[f] /\ InteriorPoints(G[f]) \cap InteriorPoints(g) = {},
         Plain(g), \A n \in DOMAIN a : a[n] \notin InteriorPoints(g)
  PROVE  Meeting(a, H)
<1>1. ASSUME NEW f \in DOMAIN H
      PROVE  Plain(H[f]) /\ \A n \in DOMAIN a : a[n] \notin InteriorPoints(H[f])
  BY DEF Meeting
<1>2. ASSUME NEW f \in DOMAIN H, NEW h \in DOMAIN H, f # h
      PROVE  InteriorPoints(H[f]) \cap InteriorPoints(H[h]) = {}
  <2>1. CASE f = e  BY <1>2, <2>1
  <2>2. CASE h = e  BY <1>2, <2>2
  <2>3. CASE f # e /\ h # e  BY <1>2, <2>3 DEF Meeting
  <2>4. QED  BY <2>1, <2>2, <2>3
<1>3. QED  BY <1>1, <1>2 DEF Meeting

\* a node n that cuts the line of edge e into those of f and g,
CutLines(G, e, c, f, g, H) ==
  /\ e \in DOMAIN G /\ IsLine(G[e]) /\ c \in 2 .. Len(G[e]) - 1
  /\ f # g /\ f \notin DOMAIN G \ {e} /\ g \notin DOMAIN G \ {e}
  /\ DOMAIN H = (DOMAIN G \ {e}) \cup {f, g} /\ Cut(G[e], c, H[f], H[g])
  /\ \A u \in DOMAIN G \ {e} : H[u] = G[u]

\* Cutting a line at a new node keeps lines and nodes apart.
LEMMA MeetingCut ==
  ASSUME NEW a, NEW G, Meeting(a, G), NEW e, NEW c, NEW f, NEW g, NEW H,
         CutLines(G, e, c, f, g, H), NEW n, n \notin DOMAIN a,
         NEW b, DOMAIN b = DOMAIN a \cup {n}, b[n] = G[e][c], \A m \in DOMAIN a : b[m] = a[m]
  PROVE  Meeting(b, H)
<1>0. /\ e \in DOMAIN G /\ IsLine(G[e]) /\ c \in 2 .. Len(G[e]) - 1
      /\ f # g /\ f \notin DOMAIN G \ {e} /\ g \notin DOMAIN G \ {e}
      /\ DOMAIN H = (DOMAIN G \ {e}) \cup {f, g} /\ Cut(G[e], c, H[f], H[g])
      /\ \A u \in DOMAIN G \ {e} : H[u] = G[u]
  BY DEF CutLines
<1>1. /\ \A m, k \in DOMAIN a : a[m] = a[k] => m = k
      /\ \A u \in DOMAIN G : Plain(G[u]) /\ \A m \in DOMAIN a : a[m] \notin InteriorPoints(G[u])
      /\ \A u, v \in DOMAIN G : u # v => InteriorPoints(G[u]) \cap InteriorPoints(G[v]) = {}
  BY DEF Meeting
<1>2. /\ Plain(H[f]) /\ Plain(H[g])
      /\ InteriorPoints(H[f]) \subseteq InteriorPoints(G[e])
      /\ InteriorPoints(H[g]) \subseteq InteriorPoints(G[e])
      /\ InteriorPoints(H[f]) \cap InteriorPoints(H[g]) = {}
      /\ b[n] \notin InteriorPoints(H[f]) /\ b[n] \notin InteriorPoints(H[g])
      /\ b[n] \in InteriorPoints(G[e])
  <2>1. Plain(G[e])  BY <1>0, <1>1
  <2>2. QED  BY <1>0, <2>1, PlainCut
<1>3. \A m, k \in DOMAIN b : b[m] = b[k] => m = k
  <2>1. \A m \in DOMAIN a : b[m] # b[n]  BY <1>0, <1>1, <1>2
  <2>2. QED  BY <1>0, <1>1, <2>1
<1>4. ASSUME NEW u \in DOMAIN H
      PROVE  Plain(H[u]) /\ \A m \in DOMAIN b : b[m] \notin InteriorPoints(H[u])
  <2>1. CASE u \in {f, g}
    <3>1. Plain(H[u]) /\ InteriorPoints(H[u]) \subseteq InteriorPoints(G[e]) /\ b[n] \notin InteriorPoints(H[u])
      BY <1>0, <1>2, <2>1
    <3>2. QED  BY <1>0, <1>1, <3>1
  <2>2. CASE u \in DOMAIN G \ {e}
    <3>1. b[n] \notin InteriorPoints(H[u])  BY <1>0, <1>1, <1>2, <2>2
    <3>2. QED  BY <1>0, <1>1, <2>2, <3>1
  <2>3. QED  BY <1>0, <2>1, <2>2
<1>5. ASSUME NEW u \in DOMAIN H, NEW v \in DOMAIN H, u # v
      PROVE  InteriorPoints(H[u]) \cap InteriorPoints(H[v]) = {}
  <2>1. CASE u \in DOMAIN G \ {e} /\ v \in DOMAIN G \ {e}  BY <1>0, <1>1, <1>5, <2>1
  <2>2. CASE u \in {f, g} /\ v \in {f, g}  BY <1>0, <1>2, <1>5, <2>2
  <2>3. CASE u \in {f, g} /\ v \in DOMAIN G \ {e}
    <3>1. InteriorPoints(H[u]) \subseteq InteriorPoints(G[e])  BY <1>0, <1>2, <2>3
    <3>2. InteriorPoints(G[e]) \cap InteriorPoints(G[v]) = {} /\ H[v] = G[v]  BY <1>0, <1>1, <2>3
    <3>3. QED  BY <3>1, <3>2
  <2>4. CASE v \in {f, g} /\ u \in DOMAIN G \ {e}
    <3>1. InteriorPoints(H[v]) \subseteq InteriorPoints(G[e])  BY <1>0, <1>2, <2>4
    <3>2. InteriorPoints(G[e]) \cap InteriorPoints(G[u]) = {} /\ H[u] = G[u]  BY <1>0, <1>1, <2>4
    <3>3. QED  BY <3>1, <3>2
  <2>5. QED  BY <1>0, <2>1, <2>2, <2>3, <2>4
<1>6. QED  BY <1>3, <1>4, <1>5 DEF Meeting

\* a node n that goes, where the lines of edges e and f become that of edge k.
LEMMA MeetingHealed ==
  ASSUME NEW a, NEW G, Meeting(a, G), NEW e, NEW f, NEW P, NEW Q, NEW j, NEW k, NEW H,
         HealedLines(G, e, f, P, Q, j, k, H),
         NEW n \in DOMAIN a, Last(P) = a[n], Q[1] = a[n],
         NEW m1 \in DOMAIN a, P[1] = a[m1], m1 # n,
         NEW m2 \in DOMAIN a, Last(Q) = a[m2], m2 # n,
         NEW b, DOMAIN b = DOMAIN a \ {n}, \A m \in DOMAIN b : b[m] = a[m]
  PROVE  Meeting(b, H)
<1>1. /\ \A m, l \in DOMAIN a : a[m] = a[l] => m = l
      /\ \A u \in DOMAIN G : Plain(G[u]) /\ \A m \in DOMAIN a : a[m] \notin InteriorPoints(G[u])
      /\ \A u, v \in DOMAIN G : u # v => InteriorPoints(G[u]) \cap InteriorPoints(G[v]) = {}
  BY DEF Meeting
<1>2. /\ \A u \in DOMAIN G : IsLine(G[u])
      /\ e \in DOMAIN G /\ f \in DOMAIN G /\ e # f /\ k \notin DOMAIN G \ {e, f}
      /\ P \in {G[e], Reverse(G[e])} /\ Q \in {G[f], Reverse(G[f])} /\ Along(j, P, Q)
      /\ DOMAIN H = (DOMAIN G \ {e, f}) \cup {k} /\ H[k] \in {j, Reverse(j)}
      /\ \A u \in DOMAIN G \ {e, f} : H[u] = G[u]
  BY DEF HealedLines
<1>3. /\ IsLine(P) /\ Plain(P) /\ InteriorPoints(P) = InteriorPoints(G[e])
      /\ IsLine(Q) /\ Plain(Q) /\ InteriorPoints(Q) = InteriorPoints(G[f])
  <2>1. IsLine(G[e]) /\ Plain(G[e]) /\ IsLine(G[f]) /\ Plain(G[f])  BY <1>1, <1>2
  <2>2. /\ InteriorPoints(Reverse(G[e])) = InteriorPoints(G[e]) /\ Plain(Reverse(G[e]))
        /\ IsLine(Reverse(G[e]))
    BY <2>1, PlainReverse, ReverseLine
  <2>3. /\ InteriorPoints(Reverse(G[f])) = InteriorPoints(G[f]) /\ Plain(Reverse(G[f]))
        /\ IsLine(Reverse(G[f]))
    BY <2>1, PlainReverse, ReverseLine
  <2>4. QED  BY <1>2, <2>1, <2>2, <2>3
<1>4. /\ P[1] # Q[1] /\ Last(Q) # Q[1] /\ InteriorPoints(P) \cap InteriorPoints(Q) = {}
      /\ P[1] \notin InteriorPoints(Q) /\ Last(Q) \notin InteriorPoints(P) /\ Last(P) = Q[1]
  BY <1>1, <1>2, <1>3
<1>5. IsLine(j) /\ Joins(j, P, Q)  BY <1>2 DEF Along
<1>6. Plain(j) /\ InteriorPoints(j) = InteriorPoints(P) \cup InteriorPoints(Q) \cup {Q[1]}
  BY <1>3, <1>4, <1>5, PlainJoined
<1>7. /\ Plain(H[k])
      /\ InteriorPoints(H[k]) = InteriorPoints(G[e]) \cup InteriorPoints(G[f]) \cup {a[n]}
  <2>1. InteriorPoints(Reverse(j)) = InteriorPoints(j) /\ Plain(Reverse(j))  BY <1>5, <1>6, PlainReverse
  <2>2. QED  BY <1>2, <1>3, <1>6, <2>1
<1>8. \A m, l \in DOMAIN b : b[m] = b[l] => m = l  BY <1>1
<1>9. ASSUME NEW u \in DOMAIN H
      PROVE  Plain(H[u]) /\ \A m \in DOMAIN b : b[m] \notin InteriorPoints(H[u])
  <2>1. CASE u = k  BY <1>1, <1>2, <1>7, <2>1
  <2>2. CASE u # k  BY <1>1, <1>2, <2>2
  <2>3. QED  BY <2>1, <2>2
<1>10. \A u \in DOMAIN H \ {k} : InteriorPoints(H[u]) \cap InteriorPoints(H[k]) = {}
  BY <1>1, <1>2, <1>7
<1>11. ASSUME NEW u \in DOMAIN H, NEW v \in DOMAIN H, u # v
       PROVE  InteriorPoints(H[u]) \cap InteriorPoints(H[v]) = {}
  <2>1. CASE u = k  BY <1>10, <1>11, <2>1
  <2>2. CASE v = k  BY <1>10, <1>11, <2>2
  <2>3. CASE u # k /\ v # k  BY <1>1, <1>2, <1>11, <2>3
  <2>4. QED  BY <2>1, <2>2, <2>3
<1>12. QED  BY <1>8, <1>9, <1>11 DEF Meeting

\* Calls on nodes, ...
LEMMA NodeOpsPlanar ==
  ASSUME TopoInv, Planar, NodeOps
  PROVE  Planar'
<1>1. Meeting(at, geom)  BY DEF Planar
<1>2. ASSUME NEW p, ~ExistsEdgeIntersectingPoint(p)
      PROVE  \A e \in DOMAIN geom : p \notin InteriorPoints(geom[e])
  <2> TAKE e \in DOMAIN geom
  <2>1. p \notin Range(geom[e])  BY <1>2 DEF ExistsEdgeIntersectingPoint, Edges
  <2>2. geom[e] \in [1 .. Len(geom[e]) -> Vertices] /\ Len(geom[e]) \in Nat
    BY InvFacts, LineFacts DEF Edges
  <2>3. \A i \in 2 .. Len(geom[e]) - 1 : i \in DOMAIN geom[e]  BY <2>2
  <2>4. QED  BY <2>1, <2>3, InteriorIs DEF Range
<1>3. CASE \E n \in Nodes, p \in Sites : AddIsoNode(n, p)
  <2>1. PICK n \in Nodes, p \in Sites : AddIsoNode(n, p)  BY <1>3
  <2>2. /\ n \notin DOMAIN at /\ at' = WithEdge(at, n, p) /\ geom' = geom
        /\ \A e \in DOMAIN geom : p \notin InteriorPoints(geom[e])
        /\ \A m \in DOMAIN at : at[m] # p
    BY <1>2, <2>1 DEF AddIsoNode, ExistsCoincidentNode
  <2>3. DOMAIN at' = DOMAIN at \cup {n} /\ at'[n] = p /\ \A m \in DOMAIN at' \ {n} : at'[m] = at[m]
    BY <2>2 DEF WithEdge
  <2> HIDE <1>3, <2>1
  <2>4. Meeting(at', geom)  BY <1>1, <2>2, <2>3, MeetingNode
  <2>5. QED  BY <2>2, <2>4 DEF Planar
<1>4. CASE \E n \in DOMAIN at, p \in Sites : MoveIsoNode(n, p)
  <2>1. PICK n \in DOMAIN at, p \in Sites : MoveIsoNode(n, p)  BY <1>4
  <2>2. /\ at' = [at EXCEPT ![n] = p] /\ geom' = geom
        /\ \A e \in DOMAIN geom : p \notin InteriorPoints(geom[e])
        /\ \A m \in DOMAIN at : at[m] # p
    BY <1>2, <2>1 DEF MoveIsoNode, ExistsCoincidentNode
  <2>3. DOMAIN at' \subseteq DOMAIN at \cup {n} /\ at'[n] = p /\ \A m \in DOMAIN at' \ {n} : at'[m] = at[m]
    BY <2>2
  <2>4. Meeting(at', geom)  BY <1>1, <2>2, <2>3, MeetingNode
  <2>5. QED  BY <2>2, <2>4 DEF Planar
<1>5. CASE \E n \in DOMAIN at : RemoveIsoNode(n)
  <2>1. PICK n \in DOMAIN at : RemoveIsoNode(n)  BY <1>5
  <2>2. at' = [m \in DOMAIN at \ {n} |-> at[m]] /\ geom' = geom  BY <2>1 DEF RemoveIsoNode
  <2>3. Meeting(at', geom)  BY <1>1, <2>2, MeetingPart
  <2>4. QED  BY <2>2, <2>3 DEF Planar
<1>6. QED  BY <1>3, <1>4, <1>5 DEF NodeOps

\* A line that passes the checks of ST_AddEdge.
LEMMA LegalPlanar ==
  ASSUME TopoInv, NEW m, NEW n, NEW g \in Lines, LegalEdge(m, n, g)
  PROVE  /\ Plain(g) /\ \A k \in DOMAIN at : at[k] \notin InteriorPoints(g)
         /\ \A f \in Edges : InteriorPoints(geom[f]) \cap InteriorPoints(g) = {}
         /\ \A k \in DOMAIN at \ {m, n} : at[k] \notin Range(g)
<1>1. /\ IsLine(g) /\ lwgeom_is_simple(g) /\ at[m] = g[1] /\ at[n] = Last(g)
      /\ \A f \in Edges : ~InteriorsMeet(geom[f], g)
  BY LegalFacts
<1>2. Plain(g) /\ g[1] \notin InteriorPoints(g) /\ Last(g) \notin InteriorPoints(g)
  BY <1>1, SimplePlain
<1>3. \A k \in DOMAIN at \ {m, n} : at[k] \notin Range(g)  BY DEF LegalEdge, CheckEdgeCrossing
<1>4. InteriorPoints(g) \subseteq Range(g)
  <2>1. g \in [1 .. Len(g) -> Vertices] /\ Len(g) \in Nat  BY <1>1, LineFacts
  <2>2. \A i \in 2 .. Len(g) - 1 : i \in DOMAIN g  BY <2>1
  <2>3. QED  BY <2>2, InteriorIs DEF Range
<1>5. \A k \in DOMAIN at : at[k] \notin InteriorPoints(g)  BY <1>1, <1>2, <1>3, <1>4
<1>6. QED  BY <1>1, <1>2, <1>3, <1>5 DEF InteriorsMeet

\* ... calls that add edges, ...
LEMMA AddOpsPlanar ==
  ASSUME TopoInv, Planar, AddOps
  PROVE  Planar'
<1>1. PICK e \in L!NewEdgeIds(Edges), m, n \in DOMAIN at, g \in Lines :
        AddIsoEdge(e, m, n, g) \/ \E modFace \in BOOLEAN : AddEdge(e, m, n, g, modFace)
  BY DEF AddOps
<1>2. LegalEdge(m, n, g) /\ geom' = WithEdge(geom, e, g) /\ at' = at
  <2>1. CASE AddIsoEdge(e, m, n, g)  BY <2>1 DEF AddIsoEdge
  <2>2. CASE \E modFace \in BOOLEAN : AddEdge(e, m, n, g, modFace)  BY <2>2 DEF AddEdge
  <2>3. QED  BY <1>1, <2>1, <2>2
<1>3. e \notin DOMAIN geom  BY NewEdge, InvFacts DEF Edges
<1>4. /\ DOMAIN geom' = DOMAIN geom \cup {e} /\ geom'[e] = g
      /\ \A f \in DOMAIN geom \ {e} : geom'[f] = geom[f]
  BY <1>2 DEF WithEdge
<1>5. /\ Plain(g) /\ \A k \in DOMAIN at : at[k] \notin InteriorPoints(g)
      /\ \A f \in DOMAIN geom : InteriorPoints(geom[f]) \cap InteriorPoints(g) = {}
  BY <1>2, LegalPlanar DEF Edges
<1> HIDE <1>1
<1> DEFINE H == geom'
<1>6. Meeting(at, geom)  BY DEF Planar
<1>7. DOMAIN H = DOMAIN geom \cup {e} /\ H[e] = g
      /\ \A f \in DOMAIN geom \ {e} : H[f] = geom[f] /\ InteriorPoints(geom[f]) \cap InteriorPoints(g) = {}
  BY <1>4, <1>5
<1> HIDE DEF H
<1>8. Plain(g) /\ \A k \in DOMAIN at : at[k] \notin InteriorPoints(g)  BY <1>5
<1>9. Meeting(at, H)  BY ONLY <1>6, <1>7, <1>8, MeetingLine
<1>10. QED  BY <1>2, <1>9 DEF Planar, H

\* ... that take them away, ...
LEMMA RemOpsPlanar ==
  ASSUME TopoInv, Planar, RemOps
  PROVE  Planar'
<1>1. PICK e \in Edges : RemIsoEdge(e) \/ \E modFace \in BOOLEAN : RemEdge(e, modFace)
  BY DEF RemOps
<1>2. geom' = [x \in Edges \ {e} |-> geom[x]] /\ at' = at
  <2>1. CASE RemIsoEdge(e)  BY <2>1 DEF RemIsoEdge
  <2>2. CASE \E modFace \in BOOLEAN : RemEdge(e, modFace)  BY <2>2 DEF RemEdge
  <2>3. QED  BY <1>1, <2>1, <2>2
<1>3. DOMAIN geom' \subseteq DOMAIN geom /\ \A x \in DOMAIN geom' : geom'[x] = geom[x]
  BY <1>2 DEF Edges
<1>4. Meeting(at, geom)  BY DEF Planar
<1> DEFINE H == geom'
<1> HIDE <1>1
<1>5. Meeting(at, H)
  <2>1. DOMAIN H \subseteq DOMAIN geom /\ \A x \in DOMAIN H : H[x] = geom[x]  BY <1>3
  <2> HIDE DEF H
  <2>2. QED  BY ONLY <1>4, <2>1, MeetingPart
<1>6. QED  BY <1>2, <1>5 DEF Planar

\* ... and that move them keep lines apart, ...
LEMMA ChangeOpsPlanar ==
  ASSUME TopoInv, Planar, ChangeOps
  PROVE  Planar'
<1>1. PICK e \in Edges, g \in Lines : ChangeEdgeGeom(e, g)  BY DEF ChangeOps
<1>2. /\ g[1] = geom[e][1] /\ Last(g) = Last(geom[e]) /\ lwgeom_is_simple(g)
      /\ ~CheckEdgeCrossing(g, {org[e], org[-e]}, e)
      /\ geom' = [geom EXCEPT ![e] = g] /\ at' = at
  BY <1>1 DEF ChangeEdgeGeom
<1>3. IsLine(g)  BY LinesAreLines
<1>4. Plain(g) /\ g[1] \notin InteriorPoints(g) /\ Last(g) \notin InteriorPoints(g)
  BY <1>2, <1>3, SimplePlain
<1>5. /\ \A k \in DOMAIN at \ {org[e], org[-e]} : at[k] \notin Range(g)
      /\ \A f \in Edges \ {e} : InteriorPoints(geom[f]) \cap InteriorPoints(g) = {}
  BY <1>2 DEF CheckEdgeCrossing, InteriorsMeet
<1>6. g[1] = at[org[e]] /\ Last(g) = at[org[-e]]  BY <1>2, InvFacts DEF Drawn, Edges
<1>7. InteriorPoints(g) \subseteq Range(g)
  <2>1. g \in [1 .. Len(g) -> Vertices] /\ Len(g) \in Nat  BY <1>3, LineFacts
  <2>2. \A i \in 2 .. Len(g) - 1 : i \in DOMAIN g  BY <2>1
  <2>3. QED  BY <2>2, InteriorIs DEF Range
<1>8. \A k \in DOMAIN at : at[k] \notin InteriorPoints(g)  BY <1>4, <1>5, <1>6, <1>7
<1> HIDE <1>1
<1>9. Meeting(at, geom)  BY DEF Planar
<1> DEFINE H == geom'
<1>10. DOMAIN H = DOMAIN geom \cup {e} /\ H[e] = g
       /\ \A f \in DOMAIN geom \ {e} : H[f] = geom[f] /\ InteriorPoints(geom[f]) \cap InteriorPoints(g) = {}
  BY <1>2, <1>5 DEF Edges
<1> HIDE DEF H
<1>11. Meeting(at, H)  BY ONLY <1>4, <1>8, <1>9, <1>10, MeetingLine
<1>12. QED  BY <1>2, <1>11 DEF Planar, H

\* ... and so does cutting a line.
LEMMA CutPlanar ==
  ASSUME Meeting(at, geom), NEW e, NEW c, NEW f, NEW g, CutLines(geom, e, c, f, g, geom'),
         NEW n, n \notin DOMAIN at,
         DOMAIN at' = DOMAIN at \cup {n}, at'[n] = geom[e][c], \A m \in DOMAIN at : at'[m] = at[m]
  PROVE  Planar'
<1> DEFINE b == at'
           H == geom'
<1>1. /\ Meeting(at, geom) /\ CutLines(geom, e, c, f, g, H) /\ n \notin DOMAIN at
      /\ DOMAIN b = DOMAIN at \cup {n} /\ b[n] = geom[e][c]
      /\ \A m \in DOMAIN at : b[m] = at[m]
  OBVIOUS
<1> HIDE DEF b, H
<1>2. Meeting(b, H)  BY ONLY <1>1, MeetingCut
<1>3. QED  BY <1>2 DEF b, H, Planar

\* Node n cuts the line of edge e at its vertex c; edges k and g take its place.
SplitCall(e, n, c, k, g) ==
  /\ n \notin DOMAIN at /\ DOMAIN at' = DOMAIN at \cup {n} /\ at'[n] = geom[e][c]
  /\ \A m \in DOMAIN at : at'[m] = at[m] /\ inface'[m] = inface[m]
  /\ inface'[n] = None /\ face' = face
  /\ CutLines(geom, e, c, k, g, geom')
  /\ side'[k] = side[e] /\ side'[g] = side[e] /\ side'[-k] = side[-e] /\ side'[-g] = side[-e]
  /\ \A u \in Edges \ {e} : side'[u] = side[u] /\ side'[-u] = side[-u]

\* A split cuts the line of one edge.
LEMMA SplitCalls ==
  ASSUME TopoInv, SplitOps
  PROVE  \E e, n, c, k, g : SplitCall(e, n, c, k, g)
<1>1. PICK e \in Edges, n \in Nodes, p \in Sites, f \in L!NewEdgeIds(Edges) :
        \/ ModEdgeSplit(e, n, p, f)
        \/ \E g \in L!NewEdgeIds(Edges \cup {f}) : NewEdgesSplit(e, n, p, f, g)
  BY DEF SplitOps
<1> DEFINE s == lwgeom_split(geom[e], p)[1]
           t == lwgeom_split(geom[e], p)[2]
<1>2. /\ _lwt_EdgeSplit(e, p) /\ n \notin DOMAIN at /\ at' = WithEdge(at, n, p)
      /\ inface' = WithEdge(inface, n, None) /\ face' = face
  BY <1>1 DEF ModEdgeSplit, NewEdgesSplit
<1>3. PICK c \in 2 .. Len(geom[e]) - 1 : geom[e][c] = p /\ Cut(geom[e], c, s, t)
  <2>1. \E j \in 2 .. Len(geom[e]) - 1 : geom[e][j] = p  BY <1>2, InteriorIs DEF _lwt_EdgeSplit
  <2>2. IsLine(geom[e])  BY InvFacts
  <2>3. s = lwgeom_split(geom[e], p)[1] /\ t = lwgeom_split(geom[e], p)[2]  OBVIOUS
  <2> HIDE DEF s, t
  <2>4. PICK c : Halves(geom[e], p, s, t, c)  BY ONLY <2>1, <2>2, <2>3, SplitHalves
  <2>5. QED  BY <2>4 DEF Halves, Cut
<1> HIDE DEF s, t
<1>4. /\ f \in Int /\ f > 0 /\ f \notin Darts /\ -f \notin Darts /\ f \notin Edges
      /\ e \in Int /\ e > 0 /\ DOMAIN side = Darts /\ DOMAIN inface = DOMAIN at
      /\ \A u \in Edges : u \in Int /\ u > 0 /\ u \in Darts /\ -u \in Darts
      /\ \A d \in Darts : -(-d) = d /\ -d \in Darts
  <2>1. f \in Int /\ f > 0 /\ f \notin Darts /\ -f \notin Darts  BY NewEdge
  <2>2. side \in [Darts -> Nat]  BY InvFacts
  <2>3. DOMAIN side = Darts  BY <2>2
  <2>4. QED  BY <2>1, <2>3, InvFacts
<1> DEFINE Sided(k, g) ==
             /\ side'[k] = side[e] /\ side'[g] = side[e] /\ side'[-k] = side[-e] /\ side'[-g] = side[-e]
             /\ \A u \in Edges \ {e} : side'[u] = side[u] /\ side'[-u] = side[-u]
           Lines2(k, g) ==
             /\ k # g /\ DOMAIN geom' = (DOMAIN geom \ {e}) \cup {k, g}
             /\ k \notin DOMAIN geom \ {e} /\ g \notin DOMAIN geom \ {e}
             /\ geom'[k] = s /\ geom'[g] = t /\ \A u \in DOMAIN geom \ {e} : geom'[u] = geom[u]
<1>5. \E k, g : Lines2(k, g) /\ Sided(k, g)
  <2>1. CASE ModEdgeSplit(e, n, p, f)
    <3>1. /\ geom' = WithEdge([geom EXCEPT ![e] = s], f, t)
          /\ side' = L!With(side, f, side[e], side[-e])
      BY <2>1 DEF ModEdgeSplit, s, t
    <3>2. DOMAIN geom' = (DOMAIN geom \ {e}) \cup {e, f} /\ geom'[e] = s /\ geom'[f] = t
          /\ \A u \in DOMAIN geom \ {e} : geom'[u] = geom[u]
      BY <1>4, <3>1 DEF WithEdge, Edges
    <3>3. Lines2(e, f)  BY <1>4, <3>2 DEF Edges
    <3>4. f # -f  BY <1>4
    <3>5. side'[f] = side[e] /\ side'[-f] = side[-e] /\ \A d \in Darts : side'[d] = side[d]
      BY <1>4, <3>1, <3>4 DEF L!With
    <3>6. Sided(e, f)  BY <1>4, <3>5
    <3>7. QED  BY <3>3, <3>6
  <2>2. CASE \E g \in L!NewEdgeIds(Edges \cup {f}) : NewEdgesSplit(e, n, p, f, g)
    <3>1. PICK g \in L!NewEdgeIds(Edges \cup {f}) : NewEdgesSplit(e, n, p, f, g)  BY <2>2
    <3>2. /\ geom' = WithEdge(WithEdge([x \in Edges \ {e} |-> geom[x]], f, s), g, t)
          /\ side' = Replaced(side, e, f, side[e], side[-e], g, side[e], side[-e])
      BY <3>1 DEF NewEdgesSplit, s, t, Replaced
    <3>3. g \in Int /\ g > 0 /\ g \notin Edges \cup {f}
      BY TopologyAssumption DEF L!NewEdgeIds, L!EdgeIds
    <3>4. DOMAIN geom' = (DOMAIN geom \ {e}) \cup {f, g} /\ geom'[f] = s /\ geom'[g] = t
          /\ \A u \in DOMAIN geom \ {e} : geom'[u] = geom[u]
      BY <1>4, <3>2, <3>3 DEF WithEdge, Edges
    <3>5. Lines2(f, g)  BY <1>4, <3>3, <3>4 DEF Edges
    <3>6. g \notin Darts /\ -g \notin Darts
      <4>1. Edges = {d \in Darts : d > 0}  BY InvFacts
      <4>2. g \notin Darts  BY <3>3, <4>1
      <4>3. -(-g) = g  BY <3>3
      <4>4. QED  BY <1>4, <4>2, <4>3
    <3>7. Replaces(Darts, side, e, f, side[e], side[-e], g, side[e], side[-e], side')
      <4> DEFINE r == side'
      <4>1. r = Replaced(side, e, f, side[e], side[-e], g, side[e], side[-e])  BY <3>2
      <4> HIDE DEF r
      <4>2. f # g  BY <3>3
      <4>3. Replaces(Darts, side, e, f, side[e], side[-e], g, side[e], side[-e], r)
        BY <1>4, <3>3, <3>6, <4>1, <4>2, ReplacedBy
      <4>4. QED  BY <4>3 DEF r
    <3>8. /\ side'[f] = side[e] /\ side'[-f] = side[-e] /\ side'[g] = side[e] /\ side'[-g] = side[-e]
          /\ \A d \in Darts \ {e, -e} : side'[d] = side[d]
      BY <3>7 DEF Replaces
    <3>9. \A u \in Edges \ {e} : u \in Darts \ {e, -e} /\ -u \in Darts \ {e, -e}
      <4>1. \A u \in Edges \ {e} : u # -e /\ -u # e /\ -u # -e  BY <1>4
      <4>2. QED  BY <1>4, <4>1
    <3>10. Sided(f, g)  BY <3>8, <3>9
    <3>11. QED  BY <3>5, <3>10
  <2>3. QED  BY <1>1, <2>1, <2>2
<1>6. PICK k, g : Lines2(k, g) /\ Sided(k, g)
  BY <1>5
<1> HIDE <1>1
<1>7. e \in DOMAIN geom /\ IsLine(geom[e])  BY InvFacts DEF Edges
<1>8. /\ DOMAIN at' = DOMAIN at \cup {n} /\ at'[n] = geom[e][c]
      /\ \A m \in DOMAIN at : at'[m] = at[m] /\ inface'[m] = inface[m]
      /\ inface'[n] = None
  <2>1. \A m \in DOMAIN at : m # n  BY <1>2
  <2>2. DOMAIN at' = DOMAIN at \cup {n} /\ at'[n] = p /\ \A m \in DOMAIN at : at'[m] = at[m]
    BY <1>2, <2>1 DEF WithEdge
  <2>3. inface'[n] = None /\ \A m \in DOMAIN at : inface'[m] = inface[m]
    BY <1>2, <1>4, <2>1 DEF WithEdge
  <2>4. QED  BY <1>3, <2>2, <2>3
<1>9. CutLines(geom, e, c, k, g, geom')  BY <1>3, <1>6, <1>7 DEF CutLines
<1>10. SplitCall(e, n, c, k, g)  BY <1>2, <1>6, <1>8, <1>9 DEF SplitCall
<1>11. QED  BY <1>10

\* Splits keep lines apart.
LEMMA SplitOpsPlanar ==
  ASSUME TopoInv, Planar, SplitOps
  PROVE  Planar'
<1>1. PICK e, n, c, k, g : SplitCall(e, n, c, k, g)  BY SplitCalls
<1>2. /\ CutLines(geom, e, c, k, g, geom') /\ n \notin DOMAIN at
      /\ DOMAIN at' = DOMAIN at \cup {n} /\ at'[n] = geom[e][c] /\ \A m \in DOMAIN at : at'[m] = at[m]
  BY <1>1 DEF SplitCall
<1>3. Meeting(at, geom)  BY DEF Planar
<1> HIDE <1>1
<1>4. QED  BY <1>2, <1>3, CutPlanar

\* Darts x of edge e1 and y of e2 end at node n, which goes; edge k takes the
\* place of both, on line j, which is P, the line of x, and then Q, that of -y.
HealCall(e1, e2, x, y, k, P, Q, j, n) ==
  /\ EndAt(n, e1, e2, x, y) /\ P = Path(geom, x) /\ Q = Path(geom, -y)
  /\ k \in Int /\ k > 0
  /\ n \in DOMAIN at /\ org[x] \in DOMAIN at /\ org[y] \in DOMAIN at
  /\ P[1] = at[org[x]] /\ Last(P) = at[n] /\ Q[1] = at[n] /\ Last(Q) = at[org[y]]
  /\ HealedLines(geom, e1, e2, P, Q, j, k, geom') /\ geom'[k] = (IF x > 0 THEN j ELSE Reverse(j))
  /\ DOMAIN at' = DOMAIN at \ {n} /\ \A m \in DOMAIN at' : at'[m] = at[m] /\ inface'[m] = inface[m]
  /\ side' = L!With([d \in Darts \ {x, -x, y, -y} |-> side[d]], k, side[e1], side[-e1])
  /\ face' = face

\* A heal joins the lines of two edges.
LEMMA HealCalls ==
  ASSUME TopoInv, HealOps
  PROVE  \E e1, e2, x, y, k, P, Q, j, n : HealCall(e1, e2, x, y, k, P, Q, j, n)
<1>1. PICK e1, e2 \in Edges : \E x \in {e1, -e1}, y \in {e2, -e2} :
        \E k \in {e1} \cup L!NewEdgeIds(Edges) : HealEdges(e1, e2, x, y, k)
  BY DEF HealOps
<1>2. PICK x \in {e1, -e1}, y \in {e2, -e2} :
        \E k \in {e1} \cup L!NewEdgeIds(Edges) : HealEdges(e1, e2, x, y, k)
  BY <1>1
<1>3. PICK k \in {e1} \cup L!NewEdgeIds(Edges) : HealEdges(e1, e2, x, y, k)  BY <1>2
<1> HIDE <1>1, <1>2
<1> DEFINE P == Path(geom, x)
           Q == Path(geom, -y)
           j == P \o Tail(Q)
           line == IF x > 0 THEN j ELSE Reverse(j)
           n == org[-x]
<1>4. /\ L!HealsAt(e1, e2, x, y)
      /\ at' = [m \in DOMAIN at \ {n} |-> at[m]]
      /\ geom' = WithEdge([u \in Edges \ {e1, e2} |-> geom[u]], k, line)
      /\ inface' = [m \in DOMAIN at \ {n} |-> inface[m]] /\ face' = face
      /\ side' = L!With([d \in Darts \ {x, -x, y, -y} |-> side[d]], k, side[e1], side[-e1])
  BY <1>3 DEF HealEdges
<1>5. EndAt(org[-x], e1, e2, x, y)  BY <1>4, HealedDarts
<1>6. /\ e1 # e2 /\ x \in Darts /\ -x \in Darts /\ y \in Darts /\ -y \in Darts
      /\ EdgeOf(x) = e1 /\ EdgeOf(-y) = e2 /\ -(-x) = x /\ -(-y) = y /\ org[-y] = n
      /\ org[x] # n /\ org[y] # n
  BY <1>5 DEF EndAt
<1>7. /\ P \in {geom[e1], Reverse(geom[e1])} /\ Q \in {geom[e2], Reverse(geom[e2])}
      /\ IsLine(P) /\ IsLine(Q) /\ P[1] = at[org[x]] /\ Q[1] = at[org[-y]]
  BY <1>6, DartFacts
<1>8. Last(P) = at[n] /\ Last(Q) = at[org[y]]
  <2>1. Lined(geom, Darts)  BY InvFacts
  <2>2. Path(geom, -x)[1] = Last(P)  BY <1>6, <2>1, PathFacts
  <2>3. \A d \in Darts : Path(geom, -d)[1] = Last(Path(geom, d))  BY <2>1, PathFacts
  <2>4. Path(geom, -(-y))[1] = Last(Q)  BY <1>6, <2>3
  <2>5. Path(geom, -x)[1] = at[org[-x]] /\ Path(geom, y)[1] = at[org[y]]  BY <1>6, DartFacts
  <2>6. QED  BY <1>6, <2>2, <2>4, <2>5
<1>9. Along(j, P, Q)
  <2>1. IsLine(P) /\ IsLine(Q) /\ Last(P) = Q[1] /\ j = P \o Tail(Q)  BY <1>6, <1>7, <1>8
  <2> HIDE DEF P, Q, j
  <2>2. QED  BY ONLY <2>1, JoinedEnds
<1>10. line \in {j, Reverse(j)}  OBVIOUS
<1> HIDE DEF P, Q, j, line, n
<1>11. k \notin Edges \ {e1, e2}
  <2>1. CASE k = e1  BY <2>1
  <2>2. CASE k # e1  BY <2>2, NewEdge, InvFacts
  <2>3. QED  BY <2>1, <2>2
<1>12. DOMAIN geom' = (DOMAIN geom \ {e1, e2}) \cup {k} /\ geom'[k] = line
       /\ \A u \in DOMAIN geom \ {e1, e2} : geom'[u] = geom[u]
  BY <1>4, <1>11 DEF WithEdge, Edges
<1>13. /\ DOMAIN at' = DOMAIN at \ {n} /\ \A m \in DOMAIN at' : at'[m] = at[m] /\ inface'[m] = inface[m]
       /\ face' = face
  BY <1>4
<1> HIDE <1>3
<1>14. HealedLines(geom, e1, e2, P, Q, j, k, geom')
  BY <1>6, <1>7, <1>9, <1>10, <1>11, <1>12, InvFacts DEF HealedLines, Edges
<1>15. n \in DOMAIN at /\ org[x] \in DOMAIN at /\ org[y] \in DOMAIN at
  BY <1>6, InvFacts DEF n
<1>16. k \in Int /\ k > 0
  <2>1. e1 \in Int /\ e1 > 0  BY InvFacts
  <2>2. CASE k = e1  BY <2>1, <2>2
  <2>3. CASE k # e1  BY <2>3, NewEdge
  <2>4. QED  BY <2>2, <2>3
<1>17. Q[1] = at[n]  BY <1>6, <1>7
<1>18. EndAt(n, e1, e2, x, y) /\ P = Path(geom, x) /\ Q = Path(geom, -y) /\ line = (IF x > 0 THEN j ELSE Reverse(j))
  BY <1>5 DEF n, P, Q, line
<1>19. HealCall(e1, e2, x, y, k, P, Q, j, n)
  BY <1>4, <1>7, <1>8, <1>12, <1>13, <1>14, <1>15, <1>16, <1>17, <1>18 DEF HealCall
<1>20. QED  BY <1>19

\* Heals keep lines apart.
LEMMA HealOpsPlanar ==
  ASSUME TopoInv, Planar, HealOps
  PROVE  Planar'
<1>1. PICK e1, e2, x, y, k, P, Q, j, n : HealCall(e1, e2, x, y, k, P, Q, j, n)  BY HealCalls
<1> DEFINE H == geom'
           b == at'
<1>2. /\ HealedLines(geom, e1, e2, P, Q, j, k, H) /\ DOMAIN b = DOMAIN at \ {n} /\ \A m \in DOMAIN b : b[m] = at[m]
      /\ n \in DOMAIN at /\ org[x] \in DOMAIN at /\ org[y] \in DOMAIN at
      /\ Last(P) = at[n] /\ Q[1] = at[n] /\ P[1] = at[org[x]] /\ Last(Q) = at[org[y]]
  BY <1>1 DEF HealCall
<1>3. org[x] # n /\ org[y] # n  BY <1>1 DEF HealCall, EndAt
<1>4. Meeting(at, geom)  BY DEF Planar
<1> HIDE DEF H, b
<1> HIDE <1>1
<1>5. Meeting(b, H)
  BY ONLY <1>2, <1>3, <1>4, MeetingHealed
<1>6. QED  BY <1>5 DEF Planar, H, b

\* Every step keeps lines apart.
LEMMA PlanarInductive ==
  ASSUME TopoInv, Planar, [Next]_vars
  PROVE  Planar'
<1>1. CASE RelationOps
  <2>1. at' = at /\ geom' = geom
    BY <1>1 DEF RelationOps, TopoGeom_addElement, TopoGeom_remElement, clearTopoGeom
  <2>2. QED  BY <2>1 DEF Planar
<1>2. CASE UNCHANGED vars  BY <1>2 DEF vars, Planar
<1>3. CASE Next /\ ~RelationOps
  BY <1>3, NodeOpsPlanar, AddOpsPlanar, SplitOpsPlanar, HealOpsPlanar, RemOpsPlanar, ChangeOpsPlanar,
     Zenon DEF Next
<1>4. QED  BY <1>1, <1>2, <1>3

\* There are no lines at first.
LEMMA PlanarStart == Init => Planar
  BY DEF Init, Planar, Meeting

\* After any sequence of calls edges meet one another and themselves only at
\* their ends, where there is one node: what lwt_AddEdgeModFace and the others
\* test before they write.
THEOREM EdgesMeetAtNodes ==
  ASSUME AnySplit = FALSE
  PROVE  Spec => []Planar
<1>1. Init => TopoInv /\ Planar  BY Start, PlanarStart
<1>2. TopoInv /\ Planar /\ [Next]_vars => TopoInv' /\ Planar'  BY Inductive, PlanarInductive
<1>3. QED  BY <1>1, <1>2, PTL DEF Spec

-----------------------------------------------------------------------------
(* What lies around a vertex. *)

\* The four directions of steps, and the step from vertex v in direction i.
Ways == {0, 2, 4, 6}
\* The unit step from v in direction i ...
Ray(v, i) == <<v, <<v[1] + Compass[i + 1][1], v[2] + Compass[i + 1][2]>>>>
\* ... as a wall.
RayWall(v, i) == {Ray(v, i)[1], Ray(v, i)[2]}

\* The cell at v in one of the other four directions.
Quad(v, i) ==
  CellAt(v[1] + (IF i \in {1, 3} THEN 0 ELSE -1), v[2] + (IF i \in {1, 7} THEN 0 ELSE -1))

\* The steps in each direction.
LEMMA Rays ==
  ASSUME NEW x \in Int, NEW y \in Int
  PROVE  /\ Ray(<<x, y>>, 0) = North(x, y) /\ Ray(<<x, y>>, 2) = East(x, y)
         /\ Ray(<<x, y>>, 4) = South(x, y - 1) /\ Ray(<<x, y>>, 6) = West(x - 1, y)
<1>1. /\ Compass[1] = <<0, 1>> /\ Compass[3] = <<1, 0>>
      /\ Compass[5] = <<0, -1>> /\ Compass[7] = <<-1, 0>>
  BY DEF Compass
<1>2. Ray(<<x, y>>, 0) = <<<<x, y>>, <<x + 0, y + 1>>>>  BY <1>1 DEF Ray
<1>3. Ray(<<x, y>>, 2) = <<<<x, y>>, <<x + 1, y + 0>>>>  BY <1>1 DEF Ray
<1>4. Ray(<<x, y>>, 4) = <<<<x, y>>, <<x + 0, y + -1>>>>  BY <1>1 DEF Ray
<1>5. Ray(<<x, y>>, 6) = <<<<x, y>>, <<x + -1, y + 0>>>>  BY <1>1 DEF Ray
<1>6. x + 0 = x /\ y + 0 = y /\ y + -1 = y - 1 /\ x + -1 = x - 1 /\ y - 1 + 1 = y /\ x - 1 + 1 = x
  OBVIOUS
<1>7. QED  BY <1>2, <1>3, <1>4, <1>5, <1>6 DEF North, East, South, West

\* The cells around a vertex.
LEMMA Quads ==
  ASSUME NEW x \in Int, NEW y \in Int
  PROVE  /\ Quad(<<x, y>>, 1) = CellAt(x, y) /\ Quad(<<x, y>>, 3) = CellAt(x, y - 1)
         /\ Quad(<<x, y>>, 5) = CellAt(x - 1, y - 1) /\ Quad(<<x, y>>, 7) = CellAt(x - 1, y)
<1>1. x + 0 = x /\ y + 0 = y /\ y + -1 = y - 1 /\ x + -1 = x - 1  OBVIOUS
<1>2. QED  BY <1>1 DEF Quad

\* The cells on the sides of each ray.
LEMMA RayCells ==
  ASSUME NEW x \in Int, NEW y \in Int, NEW v, v = <<x, y>>
  PROVE  /\ LeftCell(Ray(v, 0)) = Quad(v, 7) /\ RightCell(Ray(v, 0)) = Quad(v, 1)
         /\ LeftCell(Ray(v, 2)) = Quad(v, 1) /\ RightCell(Ray(v, 2)) = Quad(v, 3)
         /\ LeftCell(Ray(v, 4)) = Quad(v, 3) /\ RightCell(Ray(v, 4)) = Quad(v, 5)
         /\ LeftCell(Ray(v, 6)) = Quad(v, 5) /\ RightCell(Ray(v, 6)) = Quad(v, 7)
<1>1. x - 1 \in Int /\ y - 1 \in Int  OBVIOUS
<1>2. QED  BY <1>1, Rays, Quads, EastStep, NorthStep

\* Where no wall goes from v in direction i, the cells on both sides are alike.
LEMMA AcrossRay ==
  ASSUME NEW walls, NEW k, Smooth(walls, k), NEW x \in Int, NEW y \in Int, NEW v, v = <<x, y>>
  PROVE  /\ RayWall(v, 0) \notin walls => k[Quad(v, 7)] = k[Quad(v, 1)]
         /\ RayWall(v, 2) \notin walls => k[Quad(v, 1)] = k[Quad(v, 3)]
         /\ RayWall(v, 4) \notin walls => k[Quad(v, 3)] = k[Quad(v, 5)]
         /\ RayWall(v, 6) \notin walls => k[Quad(v, 5)] = k[Quad(v, 7)]
<1>1. /\ RayWall(v, 0) = {<<x, y>>, <<x, y + 1>>} /\ RayWall(v, 2) = {<<x, y>>, <<x + 1, y>>}
      /\ RayWall(v, 4) = {<<x, y - 1>>, <<x, y>>} /\ RayWall(v, 6) = {<<x - 1, y>>, <<x, y>>}
  <2>1. y - 1 + 1 = y /\ x - 1 + 1 = x  OBVIOUS
  <2>2. QED  BY <2>1, Rays DEF RayWall, North, East, South, West
<1> DEFINE H(a, b) == {<<a, b>>, <<a + 1, b>>} \notin walls => k[CellAt(a, b)] = k[CellAt(a, b - 1)]
           V(a, b) == {<<a, b>>, <<a, b + 1>>} \notin walls => k[CellAt(a - 1, b)] = k[CellAt(a, b)]
<1>0. \A a, b \in Int : H(a, b) /\ V(a, b)
  <2>1. SUFFICES ASSUME NEW a \in Int, NEW b \in Int PROVE H(a, b) /\ V(a, b)  OBVIOUS
  <2>2. QED  BY SmoothRows
<1> HIDE DEF H, V
<1>2. /\ {<<x, y>>, <<x, y + 1>>} \notin walls => k[CellAt(x - 1, y)] = k[CellAt(x, y)]
      /\ {<<x, y>>, <<x + 1, y>>} \notin walls => k[CellAt(x, y)] = k[CellAt(x, y - 1)]
  BY <1>0 DEF H, V
<1>3. {<<x, y - 1>>, <<x, y>>} \notin walls => k[CellAt(x - 1, y - 1)] = k[CellAt(x, y - 1)]
  <2>1. PICK u \in Int : u = y - 1  OBVIOUS
  <2>2. {<<x, u>>, <<x, u + 1>>} \notin walls => k[CellAt(x - 1, u)] = k[CellAt(x, u)]
    BY <1>0 DEF V
  <2>3. u + 1 = y  BY <2>1
  <2>4. QED  BY <2>1, <2>2, <2>3
<1>4. {<<x - 1, y>>, <<x, y>>} \notin walls => k[CellAt(x - 1, y)] = k[CellAt(x - 1, y - 1)]
  <2>1. PICK u \in Int : u = x - 1  OBVIOUS
  <2>2. {<<u, y>>, <<u + 1, y>>} \notin walls => k[CellAt(u, y)] = k[CellAt(u, y - 1)]
    BY <1>0 DEF H
  <2>3. u + 1 = x  BY <2>1
  <2>4. QED  BY <2>1, <2>2, <2>3
<1>5. QED  BY <1>1, <1>2, <1>3, <1>4, Quads

\* The cell met first when one turns clockwise from direction i.
After(v, i) == Quad(v, CASE i \in {0, 1} -> 1 [] i \in {2, 3} -> 3 [] i \in {4, 5} -> 5 [] OTHER -> 7)

\* Clockwise from direction i to direction j, a full turn if they are one.
Clockwise(i, j) == IF j <= i THEN j - i + 8 ELSE j - i

\* The cell met first clockwise from a direction.
LEMMA Afters ==
  ASSUME NEW x \in Int, NEW y \in Int, NEW v, v = <<x, y>>
  PROVE  /\ After(v, 0) = Quad(v, 1) /\ After(v, 1) = Quad(v, 1)
         /\ After(v, 2) = Quad(v, 3) /\ After(v, 3) = Quad(v, 3)
         /\ After(v, 4) = Quad(v, 5) /\ After(v, 5) = Quad(v, 5)
         /\ After(v, 6) = Quad(v, 7) /\ After(v, 7) = Quad(v, 7)
         /\ \A i \in Ways : RightCell(Ray(v, i)) = After(v, i)
<1>1. /\ After(v, 0) = Quad(v, 1) /\ After(v, 1) = Quad(v, 1)
      /\ After(v, 2) = Quad(v, 3) /\ After(v, 3) = Quad(v, 3)
      /\ After(v, 4) = Quad(v, 5) /\ After(v, 5) = Quad(v, 5)
      /\ After(v, 6) = Quad(v, 7) /\ After(v, 7) = Quad(v, 7)
  BY DEF After
<1>2. QED  BY <1>1, RayCells DEF Ways

\* Turning from direction a to the first wall clockwise one meets nothing.
LEMMA Corner ==
  ASSUME NEW walls, NEW k, Smooth(walls, k), NEW x \in Int, NEW y \in Int, NEW v, v = <<x, y>>,
         NEW a \in 0 .. 7, NEW b \in Ways,
         \A j \in Ways : Clockwise(a, j) < Clockwise(a, b) => RayWall(v, j) \notin walls
  PROVE  k[After(v, a)] = k[LeftCell(Ray(v, b))]
<1> DEFINE q(i) == k[Quad(v, i)]
           w(i) == RayWall(v, i) \notin walls
<1>1. (w(0) => q(7) = q(1)) /\ (w(2) => q(1) = q(3)) /\ (w(4) => q(3) = q(5)) /\ (w(6) => q(5) = q(7))
  BY AcrossRay
<1>2. /\ k[LeftCell(Ray(v, 0))] = q(7) /\ k[LeftCell(Ray(v, 2))] = q(1)
      /\ k[LeftCell(Ray(v, 4))] = q(3) /\ k[LeftCell(Ray(v, 6))] = q(5)
  BY RayCells
<1>3. /\ k[After(v, 0)] = q(1) /\ k[After(v, 1)] = q(1) /\ k[After(v, 2)] = q(3) /\ k[After(v, 3)] = q(3)
      /\ k[After(v, 4)] = q(5) /\ k[After(v, 5)] = q(5) /\ k[After(v, 6)] = q(7) /\ k[After(v, 7)] = q(7)
  BY Afters
<1>4. /\ Clockwise(a, 0) < Clockwise(a, b) => w(0) 
      /\ Clockwise(a, 2) < Clockwise(a, b) => w(2) 
      /\ Clockwise(a, 4) < Clockwise(a, b) => w(4) 
      /\ Clockwise(a, 6) < Clockwise(a, b) => w(6)
  BY DEF Ways
<1>5. a \in {0, 1, 2, 3, 4, 5, 6, 7}  OBVIOUS
<1>6. b = 0 \/ b = 2 \/ b = 4 \/ b = 6  BY DEF Ways
<1> HIDE DEF q, w
<1>7. CASE b = 0  BY <1>1, <1>2, <1>3, <1>4, <1>5, <1>7 DEF Clockwise
<1>8. CASE b = 2  BY <1>1, <1>2, <1>3, <1>4, <1>5, <1>8 DEF Clockwise
<1>9. CASE b = 4  BY <1>1, <1>2, <1>3, <1>4, <1>5, <1>9 DEF Clockwise
<1>10. CASE b = 6  BY <1>1, <1>2, <1>3, <1>4, <1>5, <1>10 DEF Clockwise
<1>11. QED  BY <1>6, <1>7, <1>8, <1>9, <1>10

-----------------------------------------------------------------------------
(* Edges and what is beside them.                                           *)

\* The steps along the lines G.
WallsOf(G) == UNION {Undirected(Steps(G[e])) : e \in DOMAIN G}

\* Lines G of darts linked by nx, which leave the nodes o, which are at a.
Net(a, G, o, nx) ==
  /\ a \in [DOMAIN a -> Vertices]
  /\ Lined(G, DOMAIN nx) /\ Drawn(G, o, a) /\ TakenOnce(G) /\ Meeting(a, G)
  /\ LP!Good(DOMAIN a, o, Turning(G, DOMAIN nx), nx)

\* A wall is a step of a line.
LEMMA WallIs ==
  ASSUME NEW G, NEW w
  PROVE  w \in WallsOf(G) <=> \E e \in DOMAIN G : \E i \in Places(G[e]) : w = StepAt(G[e], i)
<1>1. \A e \in DOMAIN G : Undirected(Steps(G[e])) = {StepAt(G[e], i) : i \in Places(G[e])}
  BY UndirectedSteps
<1>2. w \in WallsOf(G) <=> \E e \in DOMAIN G : w \in Undirected(Steps(G[e]))
  BY DEF WallsOf
<1>3. QED  BY <1>1, <1>2

\* A step to a neighbour is the ray in its direction.
LEMMA StepRay ==
  ASSUME NEW p \in Vertices, NEW q \in Vertices, Adjacent(p, q)
  PROVE  /\ <<p, q>> \in UnitSteps /\ azimuth_pt_pt(p, q) \in Ways
         /\ <<p, q>> = Ray(p, azimuth_pt_pt(p, q))
         /\ \A j \in Ways : q = Ray(p, j)[2] => j = azimuth_pt_pt(p, q)
<1> DEFINE i == azimuth_pt_pt(p, q)
<1>1. <<p, q>> \in UnitSteps
  <2>1. Back(<<q, p>>) = <<p, q>>  BY DEF Back
  <2>2. QED  BY <2>1, UnitGrid DEF Adjacent
<1>2. /\ p \in Int \X Int /\ q \in Int \X Int /\ p # q
      /\ q[1] - p[1] \in {-1, 0, 1} /\ q[2] - p[2] \in {-1, 0, 1}
  BY AdjacentPoints
<1>3. i \in 0 .. 7 /\ Compass[i + 1] = Toward(p, q)
  BY <1>2, Azimuth
<1>4. /\ p[1] \in Int /\ p[2] \in Int /\ q[1] \in Int /\ q[2] \in Int
      /\ q[1] - p[1] \in Int /\ q[2] - p[2] \in Int /\ q = <<q[1], q[2]>>
  BY <1>2
<1>5. Toward(p, q) = <<q[1] - p[1], q[2] - p[2]>>
  BY <1>2, <1>4, SignOf DEF Toward
<1>6. q[1] - p[1] = 0 \/ q[2] - p[2] = 0
  <2>1. PICK x, y \in Int : <<p, q>> \in {East(x, y), West(x, y), North(x, y), South(x, y)}
    BY <1>1, UnitCases
  <2>2. QED  BY <2>1 DEF East, West, North, South
<1>7. /\ Compass[1] = <<0, 1>> /\ Compass[2] = <<1, 1>> /\ Compass[3] = <<1, 0>> /\ Compass[4] = <<1, -1>>
      /\ Compass[5] = <<0, -1>> /\ Compass[6] = <<-1, -1>> /\ Compass[7] = <<-1, 0>> /\ Compass[8] = <<-1, 1>>
  BY DEF Compass
<1> HIDE DEF i
<1>8. i \in Ways
  <2>1. i # 1 /\ i # 3 /\ i # 5 /\ i # 7
    BY <1>3, <1>5, <1>6, <1>7
  <2>2. QED  BY <2>1, <1>3 DEF Ways
<1>9. Ray(p, i)[1] = p /\ Ray(p, i)[2] = q /\ Ray(p, i) = <<p, q>>
  <2>1. Compass[i + 1][1] = q[1] - p[1] /\ Compass[i + 1][2] = q[2] - p[2]
    BY <1>3, <1>5
  <2>2. p[1] + (q[1] - p[1]) = q[1] /\ p[2] + (q[2] - p[2]) = q[2]
    BY <1>4
  <2>3. QED  BY <2>1, <2>2, <1>4 DEF Ray
<1>10. ASSUME NEW j \in Ways, q = Ray(p, j)[2]  PROVE j = i
  <2>1. q[1] = p[1] + Compass[j + 1][1] /\ q[2] = p[2] + Compass[j + 1][2]
    BY <1>10 DEF Ray
  <2>2. q[1] = p[1] + Compass[i + 1][1] /\ q[2] = p[2] + Compass[i + 1][2]
    BY <1>9 DEF Ray
  <2>3. j \in {0, 2, 4, 6} /\ i \in {0, 2, 4, 6}  BY <1>8 DEF Ways
  <2>4. QED  BY <2>1, <2>2, <2>3, <1>4, <1>7
<1>11. QED  BY <1>1, <1>8, <1>9, <1>10 DEF i

\* Past a bend from u over v to w, if no wall comes between on the left.
LEMMA Bend ==
  ASSUME NEW walls, NEW k, Smooth(walls, k), NEW u \in Vertices, NEW v \in Vertices, NEW w \in Vertices,
         Adjacent(v, u), Adjacent(v, w),
         \A j \in Ways : RayWall(v, j) \in walls =>
           Clockwise(azimuth_pt_pt(v, u), azimuth_pt_pt(v, w)) <= Clockwise(azimuth_pt_pt(v, u), j)
  PROVE  k[LeftCell(<<u, v>>)] = k[LeftCell(<<v, w>>)]
<1> DEFINE a == azimuth_pt_pt(v, u)
           b == azimuth_pt_pt(v, w)
<1>1. /\ a \in Ways /\ <<v, u>> = Ray(v, a) /\ b \in Ways /\ <<v, w>> = Ray(v, b)
  BY StepRay
<1>2. PICK x \in Int, y \in Int : v = <<x, y>>
  BY VertexParts
<1>3. LeftCell(<<u, v>>) = RightCell(<<v, u>>)
  BY DEF RightCell
<1>4. RightCell(Ray(v, a)) = After(v, a)
  BY <1>1, <1>2, Afters
<1>5. \A j \in Ways : Clockwise(a, j) \in Int /\ Clockwise(a, b) \in Int
  BY <1>1 DEF Ways, Clockwise
<1>6. \A j \in Ways : RayWall(v, j) \in walls => Clockwise(a, b) <= Clockwise(a, j)
  OBVIOUS
<1> HIDE DEF a, b
<1>7. \A j \in Ways : Clockwise(a, j) < Clockwise(a, b) => RayWall(v, j) \notin walls
  BY <1>5, <1>6
<1>8. a \in 0 .. 7  BY <1>1 DEF Ways
<1>9. k[After(v, a)] = k[LeftCell(Ray(v, b))]
  <2>1. \A aa \in 0 .. 7, bb \in Ways :
          (\A j \in Ways : Clockwise(aa, j) < Clockwise(aa, bb) => RayWall(v, j) \notin walls)
            => k[After(v, aa)] = k[LeftCell(Ray(v, bb))]
    <3> SUFFICES ASSUME NEW aa \in 0 .. 7, NEW bb \in Ways,
                        \A j \in Ways : Clockwise(aa, j) < Clockwise(aa, bb) => RayWall(v, j) \notin walls
                 PROVE  k[After(v, aa)] = k[LeftCell(Ray(v, bb))]
      OBVIOUS
    <3>1. QED  BY <1>2, Corner
  <2>2. QED  BY <2>1, <1>1, <1>7, <1>8
<1>10. QED  BY <1>1, <1>3, <1>4, <1>9

\* A step of a line at a point that is not an inner vertex is its first or last.
LEMMA EndStep ==
  ASSUME NEW g, IsLine(g), NEW i \in Places(g), NEW v \in StepAt(g, i), v \notin InteriorPoints(g)
  PROVE  \/ v = g[1] /\ StepAt(g, i) = {g[1], g[2]}
         \/ v = Last(g) /\ StepAt(g, i) = {g[Len(g)], g[Len(g) - 1]}
<1>1. Len(g) \in Nat /\ Len(g) > 1 /\ Last(g) = g[Len(g)]  BY LineFacts
<1>2. i \in 1 .. Len(g) - 1 /\ StepAt(g, i) = {g[i], g[i + 1]}  BY DEF Places, StepAt
<1>3. \A m \in 2 .. Len(g) - 1 : g[m] # v  BY InteriorIs
<1>4. CASE v = g[i]
  <2>1. i = 1  BY <1>1, <1>2, <1>3, <1>4
  <2>2. QED  BY <1>2, <1>4, <2>1
<1>5. CASE v = g[i + 1]
  <2>1. i + 1 = Len(g)  BY <1>1, <1>2, <1>3, <1>5
  <2>2. i = Len(g) - 1  BY <1>1, <1>2, <2>1
  <2>3. QED  BY <1>1, <1>2, <1>5, <2>1, <2>2
<1>6. QED  BY <1>2, <1>4, <1>5

\* What darts, links and lines have to do with each other.
LEMMA NetFacts ==
  ASSUME NEW a, NEW G, NEW o, NEW nx, Net(a, G, o, nx)
  PROVE  /\ \A d \in DOMAIN nx : /\ d \in Int /\ d # 0 /\ -d \in DOMAIN nx /\ -(-d) = d /\ d # -d
                                 /\ o[d] \in DOMAIN a /\ nx[d] \in DOMAIN nx /\ o[nx[d]] = o[-d]
                                 /\ IsLine(Path(G, d)) /\ Path(G, d)[1] = a[o[d]]
                                 /\ Last(Path(G, d)) = a[o[-d]]
                                 /\ EdgeOf(d) \in DOMAIN G
                                 /\ Path(G, d) \in {G[EdgeOf(d)], Reverse(G[EdgeOf(d)])}
                                 /\ Path(G, -d) = Reverse(Path(G, d))
         /\ DOMAIN o = DOMAIN nx /\ \A n \in DOMAIN a : a[n] \in Vertices
         /\ \A e \in DOMAIN G : /\ e \in DOMAIN nx /\ e > 0 /\ IsLine(G[e]) /\ Path(G, e) = G[e]
                                /\ a[o[e]] = G[e][1] /\ a[o[-e]] = Last(G[e])
<1>1. Lined(G, DOMAIN nx) /\ Drawn(G, o, a) /\ LP!Good(DOMAIN a, o, Turning(G, DOMAIN nx), nx)
  BY DEF Net
<1>2. \A d \in DOMAIN nx : /\ d \in Int /\ d # 0 /\ -d \in DOMAIN nx /\ -(-d) = d /\ d # -d
                           /\ EdgeOf(d) \in DOMAIN G
                           /\ Path(G, d) \in {G[EdgeOf(d)], Reverse(G[EdgeOf(d)])}
                           /\ IsLine(Path(G, d)) /\ Path(G, -d) = Reverse(Path(G, d))
                           /\ Path(G, -d)[1] = Last(Path(G, d))
  <2>1. \A d \in DOMAIN nx : d \in Int /\ d # 0 /\ -d \in DOMAIN nx  BY <1>1 DEF Lined
  <2>2. \A d \in Int : d # 0 => -(-d) = d /\ d # -d  OBVIOUS
  <2>3. QED  BY <1>1, <2>1, <2>2, PathFacts
<1>3. /\ DOMAIN o = DOMAIN nx
      /\ \A d \in DOMAIN nx : o[d] \in DOMAIN a /\ nx[d] \in DOMAIN nx
                              /\ LP!Follows(o, Turning(G, DOMAIN nx), d, nx[d])
  BY <1>1, Linking, LP!GoodFacts
<1>4. \A d \in DOMAIN nx : o[nx[d]] = o[-d]
  BY <1>3 DEF LP!Follows
<1>5. \A e \in DOMAIN G : /\ e \in DOMAIN nx /\ e > 0 /\ IsLine(G[e]) /\ Path(G, e) = G[e]
                          /\ a[o[e]] = G[e][1] /\ a[o[-e]] = Last(G[e])
  BY <1>1 DEF Lined, Drawn, Path
<1>6. ASSUME NEW d \in DOMAIN nx
      PROVE  Path(G, d)[1] = a[o[d]] /\ Last(Path(G, d)) = a[o[-d]]
  <2>1. CASE d > 0
    <3>1. d \in DOMAIN G  BY <1>1, <2>1 DEF Lined
    <3>2. QED  BY <3>1, <1>5
  <2>2. CASE ~(d > 0)
    <3>1. PICK e : e = -d  OBVIOUS
    <3>2. e \in DOMAIN nx /\ e > 0 /\ d = -e  BY <1>2, <2>2, <3>1
    <3>3. e \in DOMAIN G  BY <1>1, <3>2 DEF Lined
    <3>4. Path(G, d) = Reverse(G[e]) /\ Path(G, d)[1] = Last(G[e])
      BY <1>2, <1>5, <3>2, <3>3
    <3>5. Last(Reverse(G[e])) = G[e][1]  BY <1>5, <3>3, ReverseLine
    <3>6. QED  BY <1>5, <3>1, <3>2, <3>3, <3>4, <3>5
  <2>3. QED  BY <2>1, <2>2
<1>7. \A n \in DOMAIN a : a[n] \in Vertices  BY DEF Net
<1>8. QED  BY <1>2, <1>3, <1>4, <1>5, <1>6, <1>7

\* A wall at a node is the first step of a dart that leaves it.
LEMMA NodeWalls ==
  ASSUME NEW a, NEW G, NEW o, NEW nx, Net(a, G, o, nx), NEW n \in DOMAIN a, NEW j \in Ways,
         RayWall(a[n], j) \in WallsOf(G)
  PROVE  \E d \in DOMAIN nx : o[d] = n /\ Turning(G, DOMAIN nx)[d] = j
<1>1. PICK e \in DOMAIN G : \E i \in Places(G[e]) : RayWall(a[n], j) = StepAt(G[e], i)
  BY WallIs
<1>2. PICK i \in Places(G[e]) : RayWall(a[n], j) = StepAt(G[e], i)
  BY <1>1
<1>3. /\ e \in DOMAIN nx /\ IsLine(G[e]) /\ Path(G, e) = G[e]
      /\ a[o[e]] = G[e][1] /\ a[o[-e]] = Last(G[e])
      /\ o[e] \in DOMAIN a /\ o[-e] \in DOMAIN a /\ -e \in DOMAIN nx /\ Path(G, -e) = Reverse(G[e])
  BY NetFacts
<1>4. a[n] \in RayWall(a[n], j) /\ RayWall(a[n], j) = {a[n], Ray(a[n], j)[2]}
  BY DEF RayWall, Ray
<1>5. a[n] \notin InteriorPoints(G[e]) /\ \A m \in DOMAIN a : a[m] = a[n] => m = n
  BY DEF Net, Meeting
<1>6. \/ a[n] = G[e][1] /\ StepAt(G[e], i) = {G[e][1], G[e][2]}
      \/ a[n] = Last(G[e]) /\ StepAt(G[e], i) = {G[e][Len(G[e])], G[e][Len(G[e]) - 1]}
  BY <1>2, <1>3, <1>4, <1>5, EndStep
<1>7. /\ G[e][1] \in Vertices /\ G[e][2] \in Vertices /\ Adjacent(G[e][1], G[e][2])
      /\ Last(G[e]) \in Vertices /\ G[e][Len(G[e]) - 1] \in Vertices
      /\ Adjacent(Last(G[e]), G[e][Len(G[e]) - 1]) /\ Last(G[e]) = G[e][Len(G[e])]
  BY <1>3, LineFacts
<1>8. CASE a[n] = G[e][1] /\ StepAt(G[e], i) = {G[e][1], G[e][2]}
  <2>1. Ray(a[n], j)[2] = G[e][2]
    <3>1. G[e][1] # G[e][2]  BY <1>7, AdjacentPoints
    <3>2. QED  BY <1>2, <1>4, <1>8, <3>1
  <2>2. j = Leaving(G[e])
    <3>1. \A m \in Ways : G[e][2] = Ray(G[e][1], m)[2] => m = azimuth_pt_pt(G[e][1], G[e][2])
      BY <1>7, StepRay
    <3>2. QED  BY <1>8, <2>1, <3>1 DEF Leaving
  <2>3. Turning(G, DOMAIN nx)[e] = Leaving(G[e])  BY <1>3 DEF Turning
  <2>4. o[e] = n  BY <1>3, <1>5, <1>8
  <2>5. QED  BY <1>3, <2>2, <2>3, <2>4
<1>9. CASE a[n] = Last(G[e]) /\ StepAt(G[e], i) = {G[e][Len(G[e])], G[e][Len(G[e]) - 1]}
  <2>1. Ray(a[n], j)[2] = G[e][Len(G[e]) - 1]
    <3>1. Last(G[e]) # G[e][Len(G[e]) - 1]  BY <1>7, AdjacentPoints
    <3>2. QED  BY <1>2, <1>4, <1>7, <1>9, <3>1
  <2>2. j = Arriving(G[e])
    <3>1. \A m \in Ways : G[e][Len(G[e]) - 1] = Ray(Last(G[e]), m)[2]
                            => m = azimuth_pt_pt(Last(G[e]), G[e][Len(G[e]) - 1])
      BY <1>7, StepRay
    <3>2. QED  BY <1>9, <2>1, <3>1 DEF Arriving
  <2>3. Leaving(Reverse(G[e])) = Arriving(G[e])  BY <1>3, LineEnds
  <2>4. Turning(G, DOMAIN nx)[-e] = Arriving(G[e])  BY <1>3, <2>3 DEF Turning
  <2>5. o[-e] = n  BY <1>3, <1>5, <1>9
  <2>6. QED  BY <1>3, <2>2, <2>4, <2>5
<1>10. QED  BY <1>6, <1>8, <1>9

\* A wall at an inner vertex of a line belongs to the line.
LEMMA InnerWalls ==
  ASSUME NEW a, NEW G, NEW o, NEW nx, Net(a, G, o, nx), NEW e \in DOMAIN G,
         NEW i \in 2 .. Len(G[e]) - 1, NEW w \in WallsOf(G), G[e][i] \in w
  PROVE  w = StepAt(G[e], i - 1) \/ w = StepAt(G[e], i)
<1>1. PICK f \in DOMAIN G : \E m \in Places(G[f]) : w = StepAt(G[f], m)
  BY WallIs
<1>2. PICK m \in Places(G[f]) : w = StepAt(G[f], m)
  BY <1>1
<1>3. /\ \A u \in DOMAIN G : /\ IsLine(G[u]) /\ u \in DOMAIN nx /\ -u \in DOMAIN nx
                             /\ a[o[u]] = G[u][1] /\ a[o[-u]] = Last(G[u])
                             /\ o[u] \in DOMAIN a /\ o[-u] \in DOMAIN a
  BY NetFacts
<1>4. G[e][i] \in InteriorPoints(G[e])  BY InteriorIs
<1>5. /\ \A n \in DOMAIN a : a[n] # G[e][i]
      /\ f # e => G[e][i] \notin InteriorPoints(G[f])
      /\ Plain(G[e])
  BY <1>4 DEF Net, Meeting
<1>6. G[e][i] # G[f][1] /\ G[e][i] # Last(G[f])
  BY <1>3, <1>5
<1>7. G[e][i] \in InteriorPoints(G[f])
  BY <1>2, <1>3, <1>6, EndStep
<1>8. f = e  BY <1>5, <1>7
<1>9. Len(G[e]) \in Nat /\ Len(G[e]) > 1  BY <1>3, LineFacts
<1>10. m \in 1 .. Len(G[e]) - 1 /\ w = {G[e][m], G[e][m + 1]}  BY <1>2, <1>8 DEF Places, StepAt
<1>11. m \in 1 .. Len(G[e]) /\ m + 1 \in 1 .. Len(G[e])  BY <1>9, <1>10
<1>12. i = m \/ i = m + 1  BY <1>5, <1>10, <1>11 DEF Plain
<1>13. m = i \/ m = i - 1  BY <1>9, <1>10, <1>12
<1>14. QED  BY <1>2, <1>8, <1>13

\* The cell on the left of where dart d starts.
LeftOf(G, d) == LeftCell(<<Path(G, d)[1], Path(G, d)[2]>>)

\* The same for the path of a dart.
LEMMA InnerPath ==
  ASSUME NEW a, NEW G, NEW o, NEW nx, Net(a, G, o, nx), NEW d \in DOMAIN nx, NEW p, p = Path(G, d),
         NEW i \in 2 .. Len(p) - 1, NEW w \in WallsOf(G), p[i] \in w
  PROVE  w = {p[i], p[i - 1]} \/ w = {p[i], p[i + 1]}
<1>1. EdgeOf(d) \in DOMAIN G /\ p \in {G[EdgeOf(d)], Reverse(G[EdgeOf(d)])}
  BY NetFacts
<1>2. PICK g : g = G[EdgeOf(d)]  OBVIOUS
<1>3. IsLine(g)  BY <1>1, <1>2, NetFacts
<1>4. Len(g) \in Nat /\ Len(g) > 1  BY <1>3, LineFacts
<1>5. CASE p = g
  <2>1. w = StepAt(g, i - 1) \/ w = StepAt(g, i)  BY <1>1, <1>2, <1>5, InnerWalls
  <2>2. i - 1 + 1 = i  BY <1>4, <1>5
  <2>3. StepAt(g, i - 1) = {p[i - 1], p[i]} /\ StepAt(g, i) = {p[i], p[i + 1]}
    BY <1>5, <2>2 DEF StepAt
  <2>4. {p[i - 1], p[i]} = {p[i], p[i - 1]}  OBVIOUS
  <2>5. QED  BY <2>1, <2>3, <2>4
<1>6. CASE p = Reverse(g)
  <2>1. Len(p) = Len(g) /\ \A j \in 1 .. Len(g) : p[j] = g[Len(g) - j + 1]
    BY <1>3, <1>6, ReverseLine
  <2>2. PICK c : c = Len(g) - i + 1  OBVIOUS
  <2>3. i \in 2 .. Len(g) - 1  BY <2>1
  <2>4. c \in 2 .. Len(g) - 1  BY <1>4, <2>2, <2>3
  <2>5. i \in 1 .. Len(g) /\ i - 1 \in 1 .. Len(g) /\ i + 1 \in 1 .. Len(g)
        /\ Len(g) - (i - 1) + 1 = c + 1 /\ Len(g) - (i + 1) + 1 = c - 1 /\ c - 1 + 1 = c
    BY <1>4, <2>2, <2>3
  <2>6. p[i] = g[c] /\ p[i - 1] = g[c + 1] /\ p[i + 1] = g[c - 1]
    BY <2>1, <2>2, <2>5
  <2>7. w = StepAt(g, c - 1) \/ w = StepAt(g, c)
    BY <1>1, <1>2, <2>4, <2>6, InnerWalls
  <2>8. StepAt(g, c - 1) = {p[i + 1], p[i]} /\ StepAt(g, c) = {p[i], p[i - 1]}
    BY <2>5, <2>6 DEF StepAt
  <2>9. {p[i + 1], p[i]} = {p[i], p[i + 1]}  OBVIOUS
  <2>10. QED  BY <2>7, <2>8, <2>9
<1>7. QED  BY <1>1, <1>2, <1>5, <1>6

\* What is on the left of a line changes nowhere along it.
LEMMA SideInner ==
  ASSUME NEW a, NEW G, NEW o, NEW nx, Net(a, G, o, nx), NEW d \in DOMAIN nx, NEW p, p = Path(G, d),
         NEW k, Smooth(WallsOf(G), k), NEW i \in 2 .. Len(p) - 1
  PROVE  k[LeftCell(<<p[i - 1], p[i]>>)] = k[LeftCell(<<p[i], p[i + 1]>>)]
<1>1. IsLine(p)  BY NetFacts
<1>2. /\ Len(p) \in Nat /\ Len(p) > 1 /\ \A j \in 1 .. Len(p) : p[j] \in Vertices
      /\ \A j \in 1 .. Len(p) - 1 : Adjacent(p[j], p[j + 1])
  BY <1>1, LineFacts DEF IsLine
<1>3. i - 1 \in 1 .. Len(p) - 1 /\ i \in 1 .. Len(p) - 1 /\ i - 1 + 1 = i
      /\ i - 1 \in 1 .. Len(p) /\ i \in 1 .. Len(p) /\ i + 1 \in 1 .. Len(p)
  BY <1>2
<1>4. PICK u \in Vertices, v \in Vertices, w \in Vertices : u = p[i - 1] /\ v = p[i] /\ w = p[i + 1]
  BY <1>2, <1>3
<1>5. Adjacent(u, v) /\ Adjacent(v, w)
  BY <1>2, <1>3, <1>4
<1>6. Adjacent(v, u)  BY <1>5, AdjacentSymmetric
<1> DEFINE x == azimuth_pt_pt(v, u)
           y == azimuth_pt_pt(v, w)
<1>7. ASSUME NEW j \in Ways, RayWall(v, j) \in WallsOf(G)  PROVE Clockwise(x, y) <= Clockwise(x, j)
  <2>1. x \in Ways /\ y \in Ways /\ \A m \in Ways : /\ u = Ray(v, m)[2] => m = x
                                                    /\ w = Ray(v, m)[2] => m = y
    BY <1>5, <1>6, StepRay
  <2>2. RayWall(v, j) = {v, Ray(v, j)[2]}  BY DEF RayWall, Ray
  <2>3. RayWall(v, j) = {v, u} \/ RayWall(v, j) = {v, w}
    BY <1>4, <1>7, <2>2, InnerPath
  <2>4. v # u /\ v # w  BY <1>5, <1>6, AdjacentPoints
  <2>5. Ray(v, j)[2] = u \/ Ray(v, j)[2] = w  BY <2>2, <2>3, <2>4
  <2>6. j = x \/ j = y  BY <2>1, <2>5
  <2> HIDE DEF x, y
  <2>7. QED  BY <2>1, <2>6 DEF Ways, Clockwise
<1>8. k[LeftCell(<<u, v>>)] = k[LeftCell(<<v, w>>)]
  BY <1>5, <1>6, <1>7, Bend
<1>9. QED  BY <1>4, <1>8

\* The left of a dart has one colour all along it.
LEMMA SameSide ==
  ASSUME NEW a, NEW G, NEW o, NEW nx, Net(a, G, o, nx), NEW d \in DOMAIN nx,
         NEW k, Smooth(WallsOf(G), k), NEW i \in 1 .. Len(Path(G, d)) - 1
  PROVE  k[LeftCell(<<Path(G, d)[i], Path(G, d)[i + 1]>>)] = k[LeftOf(G, d)]
<1> DEFINE p == Path(G, d)
           P == {m \in Nat : m \in 0 .. Len(p) - 2
                             => k[LeftCell(<<p[m + 1], p[m + 2]>>)] = k[LeftOf(G, d)]}
<1>1. Len(p) \in Nat /\ Len(p) > 1  BY NetFacts, LineFacts
<1>2. 0 \in P
  <2>1. 0 + 1 = 1 /\ 0 + 2 = 2  OBVIOUS
  <2>2. QED  BY <2>1 DEF LeftOf
<1>3. ASSUME NEW m \in 0 .. Len(p) - 2, m > 0, m - 1 \in P  PROVE m \in P
  <2>1. m + 1 \in 2 .. Len(p) - 1 /\ m - 1 \in 0 .. Len(p) - 2 /\ m - 1 \in Nat /\ m \in Nat
        /\ m - 1 + 1 = m /\ m - 1 + 2 = m + 1 /\ m + 1 - 1 = m /\ m + 1 + 1 = m + 2
    BY <1>1, <1>3
  <2>2. k[LeftCell(<<p[m], p[m + 1]>>)] = k[LeftOf(G, d)]
    BY <1>3, <2>1
  <2>3. PICK c \in 2 .. Len(p) - 1 : c = m + 1  BY <2>1
  <2>4. k[LeftCell(<<p[c - 1], p[c]>>)] = k[LeftCell(<<p[c], p[c + 1]>>)]
    BY SideInner
  <2>5. c - 1 = m /\ c + 1 = m + 2  BY <2>1, <2>3
  <2>6. k[LeftCell(<<p[m], p[m + 1]>>)] = k[LeftCell(<<p[m + 1], p[m + 2]>>)]
    BY <2>3, <2>4, <2>5
  <2>7. QED  BY <2>1, <2>2, <2>6
<1>4. Len(p) - 2 \in Nat  BY <1>1
<1> HIDE DEF P
<1>5. 0 .. Len(p) - 2 \subseteq P  BY <1>2, <1>3, <1>4, Downward
<1>6. i - 1 \in 0 .. Len(p) - 2 /\ i - 1 + 1 = i /\ i - 1 + 2 = i + 1  BY <1>1
<1>7. i - 1 \in P  BY <1>5, <1>6
<1>8. QED  BY <1>6, <1>7 DEF P

\* The steps of a path, by their places.
LEMMA PathSteps ==
  ASSUME NEW p, NEW s
  PROVE  s \in Steps(p) <=> \E i \in 1 .. Len(p) - 1 : s = <<p[i], p[i + 1]>>
BY DEF Steps

\* The steps of a line turned around are its steps back.
LEMMA StepsBack ==
  ASSUME NEW p, IsLine(p), NEW s \in Steps(p)
  PROVE  Back(s) \in Steps(Reverse(p)) /\ s \in UnitSteps
         /\ s[1] \in Vertices /\ s[2] \in Vertices /\ s = <<s[1], s[2]>> /\ Adjacent(s[1], s[2])
<1>1. PICK i \in 1 .. Len(p) - 1 : s = <<p[i], p[i + 1]>>  BY PathSteps
<1>2. /\ Len(p) \in Nat /\ Len(p) > 1 /\ \A j \in 1 .. Len(p) : p[j] \in Vertices
      /\ \A j \in 1 .. Len(p) - 1 : Adjacent(p[j], p[j + 1])
  BY LineFacts DEF IsLine
<1>3. i \in 1 .. Len(p) /\ i + 1 \in 1 .. Len(p)  BY <1>2
<1>4. s \in UnitSteps  BY <1>1, <1>2, <1>3, StepRay
<1>5. Back(s) \in Steps(Reverse(p))
  <2>1. Len(Reverse(p)) = Len(p) /\ \A j \in 1 .. Len(p) : Reverse(p)[j] = p[Len(p) - j + 1]
    BY ReverseLine
  <2>2. PICK c : c = Len(p) - i  OBVIOUS
  <2>3. c \in 1 .. Len(p) - 1 /\ c \in 1 .. Len(p) /\ c + 1 \in 1 .. Len(p)
        /\ Len(p) - c + 1 = i + 1 /\ Len(p) - (c + 1) + 1 = i
    BY <1>2, <2>2
  <2>4. Reverse(p)[c] = p[i + 1] /\ Reverse(p)[c + 1] = p[i]  BY <2>1, <2>3
  <2>5. Back(s) = <<p[i + 1], p[i]>>  BY <1>1 DEF Back
  <2>6. QED  BY <2>1, <2>3, <2>4, <2>5, PathSteps
<1>6. QED  BY <1>1, <1>2, <1>3, <1>4, <1>5

\* So has its right, which is the left of the dart back.
LEMMA Sides ==
  ASSUME NEW a, NEW G, NEW o, NEW nx, Net(a, G, o, nx), NEW d \in DOMAIN nx,
         NEW k, Smooth(WallsOf(G), k), NEW s \in Steps(Path(G, d))
  PROVE  k[LeftCell(s)] = k[LeftOf(G, d)] /\ k[RightCell(s)] = k[LeftOf(G, -d)]
<1>1. \A c \in DOMAIN nx : \A t \in Steps(Path(G, c)) : k[LeftCell(t)] = k[LeftOf(G, c)]
  <2> SUFFICES ASSUME NEW c \in DOMAIN nx, NEW t \in Steps(Path(G, c))
               PROVE  k[LeftCell(t)] = k[LeftOf(G, c)]
    OBVIOUS
  <2>1. PICK i \in 1 .. Len(Path(G, c)) - 1 : t = <<Path(G, c)[i], Path(G, c)[i + 1]>>  BY PathSteps
  <2>2. QED  BY <2>1, SameSide
<1>2. /\ IsLine(Path(G, d)) /\ -d \in DOMAIN nx /\ Path(G, -d) = Reverse(Path(G, d))
  BY NetFacts
<1>3. Back(s) \in Steps(Path(G, -d)) /\ s \in UnitSteps  BY <1>2, StepsBack
<1>4. LeftCell(Back(s)) = RightCell(s)  BY <1>3, StepCells
<1>5. QED  BY <1>1, <1>2, <1>3, <1>4

\* What is on the left of a dart is on the left of the next one.
LEMMA NextSide ==
  ASSUME NEW a, NEW G, NEW o, NEW nx, Net(a, G, o, nx), NEW d \in DOMAIN nx,
         NEW k, Smooth(WallsOf(G), k)
  PROVE  k[LeftOf(G, nx[d])] = k[LeftOf(G, d)]
<1> DEFINE z == Turning(G, DOMAIN nx)
           t == nx[d]
           p == Path(G, -d)
           q == Path(G, t)
<1>1. /\ -d \in DOMAIN nx /\ t \in DOMAIN nx /\ o[t] = o[-d] /\ o[-d] \in DOMAIN a
      /\ IsLine(p) /\ IsLine(q) /\ p[1] = a[o[-d]] /\ q[1] = a[o[t]] /\ -(-d) = d
      /\ IsLine(Path(G, d)) /\ p = Reverse(Path(G, d)) /\ DOMAIN o = DOMAIN nx
  BY NetFacts
<1>2. LP!Follows(o, z, d, t)
  BY Linking, LP!GoodFacts DEF Net
<1>3. /\ p[1] \in Vertices /\ p[2] \in Vertices /\ q[2] \in Vertices
      /\ Adjacent(p[1], p[2]) /\ Adjacent(p[1], q[2])
  BY <1>1, LineFacts
<1>4. z[-d] = azimuth_pt_pt(p[1], p[2]) /\ z[t] = azimuth_pt_pt(p[1], q[2])
  BY <1>1 DEF Turning, Leaving
<1>5. \A x \in DOMAIN nx : o[x] = o[-d] /\ x # t => LP!turn(z[-d], z[t]) < LP!turn(z[-d], z[x])
  BY <1>1, <1>2 DEF LP!Follows
<1> HIDE DEF z, t, p, q
<1>6. z[-d] \in Ways /\ z[t] \in Ways
  <2>1. azimuth_pt_pt(p[1], p[2]) \in Ways /\ azimuth_pt_pt(p[1], q[2]) \in Ways
    BY <1>3, StepRay
  <2>2. QED  BY <1>4, <2>1
<1>7. ASSUME NEW j \in Ways, RayWall(p[1], j) \in WallsOf(G)
      PROVE  Clockwise(z[-d], z[t]) <= Clockwise(z[-d], j)
  <2>1. PICK x \in DOMAIN nx : o[x] = o[-d] /\ z[x] = j
    BY <1>1, <1>7, NodeWalls DEF z
  <2>2. CASE x = t  BY <1>6, <2>1, <2>2 DEF Ways, Clockwise
  <2>3. CASE x # t
    <3>1. LP!turn(z[-d], z[t]) < LP!turn(z[-d], j)  BY <1>5, <2>1, <2>3
    <3>2. QED  BY <3>1, <1>6 DEF LP!turn, Ways, Clockwise
  <2>4. QED  BY <2>2, <2>3
<1>8. k[LeftCell(<<p[2], p[1]>>)] = k[LeftCell(<<p[1], q[2]>>)]
  <2>1. PICK u \in Vertices, v \in Vertices, w \in Vertices : u = p[2] /\ v = p[1] /\ w = q[2]
    BY <1>3
  <2>2. \A j \in Ways : RayWall(v, j) \in WallsOf(G) =>
           Clockwise(azimuth_pt_pt(v, u), azimuth_pt_pt(v, w)) <= Clockwise(azimuth_pt_pt(v, u), j)
    BY <1>4, <1>7, <2>1
  <2>3. Adjacent(v, u) /\ Adjacent(v, w)  BY <1>3, <2>1
  <2>4. k[LeftCell(<<u, v>>)] = k[LeftCell(<<v, w>>)]
    BY <2>2, <2>3, Bend
  <2>5. QED  BY <2>1, <2>4
<1>9. <<p[2], p[1]>> \in Steps(Path(G, d))
  <2>1. <<p[1], p[2]>> \in Steps(p)
    <3>1. Len(p) \in Nat /\ Len(p) > 1  BY <1>1, LineFacts
    <3>2. 1 \in 1 .. Len(p) - 1 /\ 1 + 1 = 2  BY <3>1
    <3>3. QED  BY <3>2, PathSteps
  <2>2. Back(<<p[1], p[2]>>) = <<p[2], p[1]>>  BY DEF Back
  <2>3. Reverse(p) = Path(G, d)  BY <1>1, ReverseLine
  <2>4. QED  BY <1>1, <2>1, <2>2, <2>3, StepsBack
<1>10. k[LeftCell(<<p[2], p[1]>>)] = k[LeftOf(G, d)]  BY <1>9, Sides
<1>11. LeftOf(G, t) = LeftCell(<<p[1], q[2]>>)  BY <1>1 DEF LeftOf, q
<1>12. QED  BY <1>8, <1>10, <1>11 DEF t

\* The cell on the left is a cell.
LEMMA LeftIsCell ==
  ASSUME NEW a, NEW G, NEW o, NEW nx, Net(a, G, o, nx), NEW d \in DOMAIN nx
  PROVE  /\ LeftOf(G, d) \in Cells /\ <<Path(G, d)[1], Path(G, d)[2]>> \in Steps(Path(G, d))
         /\ \A s \in Steps(Path(G, d)) : s \in UnitSteps /\ LeftCell(s) \in Cells /\ RightCell(s) \in Cells
<1>1. IsLine(Path(G, d))  BY NetFacts
<1>2. \A s \in Steps(Path(G, d)) : s \in UnitSteps /\ LeftCell(s) \in Cells /\ RightCell(s) \in Cells
  BY <1>1, StepsBack, StepCells
<1>3. <<Path(G, d)[1], Path(G, d)[2]>> \in Steps(Path(G, d))
  <2>1. Len(Path(G, d)) \in Nat /\ Len(Path(G, d)) > 1  BY <1>1, LineFacts
  <2>2. 1 \in 1 .. Len(Path(G, d)) - 1 /\ 1 + 1 = 2  BY <2>1
  <2>3. QED  BY <2>2, PathSteps
<1>4. QED  BY <1>2, <1>3 DEF LeftOf

-----------------------------------------------------------------------------
(* Rings of darts. *)

\* No two darts are followed by the same one.
LEMMA OneBefore ==
  ASSUME NEW a, NEW G, NEW o, NEW nx, Net(a, G, o, nx), NEW x \in DOMAIN nx, NEW y \in DOMAIN nx,
         nx[x] = nx[y]
  PROVE  x = y
<1> DEFINE z == Turning(G, DOMAIN nx)
           t == nx[x]
<1>1. SUFFICES ASSUME x # y PROVE FALSE  OBVIOUS
<1>2. /\ -x \in DOMAIN nx /\ -y \in DOMAIN nx /\ -x # -y /\ t \in DOMAIN nx
      /\ o[t] = o[-x] /\ o[t] = o[-y] /\ DOMAIN o = DOMAIN nx
  <2>1. x \in Int /\ y \in Int  BY NetFacts
  <2>2. -x # -y  BY <1>1, <2>1
  <2>3. QED  BY <2>2, NetFacts
<1>3. LP!Follows(o, z, x, t) /\ LP!Follows(o, z, y, t) /\ LP!Distinct(o, z)
      /\ \A d \in DOMAIN nx : z[d] \in LP!Azimuths
  BY Linking, LP!GoodFacts DEF Net
<1>4. \A d \in DOMAIN nx : z[d] \in 0 .. 7
  BY <1>3 DEF LP!Azimuths
<1> HIDE DEF z, t
<1>5. -y # t => LP!turn(z[-x], z[t]) < LP!turn(z[-x], z[-y])
  BY <1>2, <1>3 DEF LP!Follows
<1>6. -x # t => LP!turn(z[-y], z[t]) < LP!turn(z[-y], z[-x])
  BY <1>2, <1>3 DEF LP!Follows
<1>7. z[-x] # z[-y] /\ (-x # t => z[-x] # z[t]) /\ (-y # t => z[-y] # z[t])
  BY <1>2, <1>3 DEF LP!Distinct
<1>8. z[-x] \in 0 .. 7 /\ z[-y] \in 0 .. 7 /\ z[t] \in 0 .. 7
  BY <1>2, <1>4
<1>9. CASE -x = t
  <2>1. LP!turn(z[-x], z[-x]) < LP!turn(z[-x], z[-y])  BY <1>2, <1>5, <1>9
  <2>2. QED  BY <2>1, <1>8 DEF LP!turn
<1>10. CASE -y = t
  <2>1. LP!turn(z[-y], z[-y]) < LP!turn(z[-y], z[-x])  BY <1>2, <1>6, <1>10
  <2>2. QED  BY <2>1, <1>8 DEF LP!turn
<1>11. CASE -x # t /\ -y # t
  BY <1>5, <1>6, <1>7, <1>8, <1>11 DEF LP!turn
<1>12. QED  BY <1>9, <1>10, <1>11

\* There are finitely many darts.
LEMMA DartsFinite ==
  ASSUME NEW a, NEW G, NEW o, NEW nx, Net(a, G, o, nx)
  PROVE  IsFiniteSet(DOMAIN nx) /\ nx \in [DOMAIN nx -> DOMAIN nx]
<1>1. LP!Paired(DOMAIN nx) /\ nx \in [DOMAIN nx -> DOMAIN nx]
  BY DEF Net, LP!Good, LP!Typed
<1>2. MaxEdge \in Nat  BY TopologyAssumption
<1>3. DOMAIN nx \subseteq -MaxEdge .. MaxEdge
  <2> SUFFICES ASSUME NEW d \in DOMAIN nx PROVE d \in -MaxEdge .. MaxEdge  OBVIOUS
  <2>1. d \in Int /\ (d \in LP!EdgeIds \/ -d \in LP!EdgeIds)  BY <1>1 DEF LP!Paired
  <2>2. d \in 1 .. MaxEdge \/ -d \in 1 .. MaxEdge  BY <2>1 DEF LP!EdgeIds
  <2>3. QED  BY <1>2, <2>1, <2>2
<1>4. -MaxEdge \in Int /\ MaxEdge \in Int  BY <1>2
<1>5. QED  BY <1>1, <1>3, <1>4, FS_Interval, FS_Subset

\* w walks along the links from d.
Walks(nx, d, m, w) == w = [i \in 0 .. m |-> IF i = 0 THEN d ELSE nx[w[i - 1]]]

\* There is such a walk of any length.
LEMMA WalkExists ==
  ASSUME NEW nx, NEW d, NEW m \in Nat
  PROVE  \E w : Walks(nx, d, m, w)
<1> DEFINE P == {i \in Nat : \E w : Walks(nx, d, i, w)}
<1>1. 0 \in P
  <2> DEFINE w == [i \in 0 .. 0 |-> d]
  <2>1. w = [i \in 0 .. 0 |-> IF i = 0 THEN d ELSE nx[w[i - 1]]]  OBVIOUS
  <2> HIDE DEF w
  <2>2. Walks(nx, d, 0, w)  BY <2>1 DEF Walks
  <2>3. QED  BY <2>2
<1>2. ASSUME NEW i \in 0 .. m, i > 0, i - 1 \in P  PROVE i \in P
  <2>1. PICK w : Walks(nx, d, i - 1, w)  BY <1>2
  <2> DEFINE v == [j \in 0 .. i |-> IF j = i THEN nx[w[i - 1]] ELSE w[j]]
  <2>2. \A j \in 0 .. i - 1 : w[j] = IF j = 0 THEN d ELSE nx[w[j - 1]]
    BY <2>1 DEF Walks
  <2>3. \A j \in 0 .. i : v[j] = IF j = i THEN nx[w[i - 1]] ELSE w[j]
    OBVIOUS
  <2>4. v = [j \in 0 .. i |-> v[j]]  OBVIOUS
  <2> HIDE DEF v
  <2>5. ASSUME NEW j \in 0 .. i  PROVE v[j] = IF j = 0 THEN d ELSE nx[v[j - 1]]
    <3>1. CASE j = i
      <4>1. j # 0 /\ j - 1 \in 0 .. i /\ j - 1 # i  BY <1>2, <3>1
      <4>2. v[j - 1] = w[j - 1] /\ v[j] = nx[w[i - 1]]  BY <2>3, <3>1, <4>1
      <4>3. QED  BY <3>1, <4>1, <4>2
    <3>2. CASE j = 0
      <4>1. j # i /\ j \in 0 .. i - 1  BY <1>2, <3>2
      <4>2. QED  BY <2>2, <2>3, <3>2, <4>1
    <3>3. CASE j # i /\ j # 0
      <4>1. j \in 0 .. i - 1 /\ j - 1 \in 0 .. i /\ j - 1 # i  BY <1>2, <3>3
      <4>2. v[j] = w[j] /\ v[j - 1] = w[j - 1]  BY <2>3, <3>3, <4>1
      <4>3. QED  BY <2>2, <3>3, <4>1, <4>2
    <3>4. QED  BY <3>1, <3>2, <3>3
  <2>6. Walks(nx, d, i, v)  BY <2>4, <2>5 DEF Walks
  <2>7. QED  BY <1>2, <2>6
<1> HIDE DEF P
<1>3. 0 .. m \subseteq P  BY <1>1, <1>2, Downward
<1>4. m \in P  BY <1>3
<1>5. QED  BY <1>4 DEF P

\* What getRingEdges returns: the least set with d in it that links do not leave.
LEMMA RingIs ==
  ASSUME NEW nx, IsFiniteSet(DOMAIN nx), nx \in [DOMAIN nx -> DOMAIN nx], NEW d \in DOMAIN nx,
         NEW R, R = getRingEdges(nx, d)
  PROVE  /\ d \in R /\ R \subseteq DOMAIN nx /\ \A x \in R : nx[x] \in R
         /\ \A X : d \in X /\ (\A x \in X \cap DOMAIN nx : nx[x] \in X) => R \subseteq X
<1> DEFINE D == DOMAIN nx
           N == Cardinality(D)
           Sol(g) == g = [i \in 0 .. N - 1 |-> IF i = 0 THEN d ELSE nx[g[i - 1]]]
           w == CHOOSE g : Sol(g)
<1>1. R = {w[i] : i \in DOMAIN w}  BY DEF getRingEdges
<1>2. N \in Nat /\ N > 0 /\ N - 1 \in Nat
  <2>1. N \in Nat  BY FS_CardinalityType
  <2>2. N # 0  BY FS_EmptySet
  <2>3. QED  BY <2>1, <2>2
<1>3. Sol(w)
  <2> HIDE DEF N
  <2>1. \E g : Walks(nx, d, N - 1, g)  BY <1>2, WalkExists
  <2>2. \E g : Sol(g)  BY <2>1 DEF Walks
  <2> HIDE DEF Sol
  <2>3. QED  BY <2>2
<1> HIDE DEF w
<1>4. DOMAIN w = 0 .. N - 1 /\ \A i \in 0 .. N - 1 : w[i] = IF i = 0 THEN d ELSE nx[w[i - 1]]
  <2> HIDE DEF N
  <2> QED  BY <1>3
<1> HIDE DEF N, Sol
<1>41. w[0] = d /\ 0 \in 0 .. N - 1 /\ \A i \in 0 .. N - 1 : i # N - 1 => i + 1 \in 0 .. N - 1 /\ w[i + 1] = nx[w[i]]
  <2>1. 0 \in 0 .. N - 1  BY <1>2
  <2>2. w[0] = d  BY <1>4, <2>1
  <2>3. ASSUME NEW i \in 0 .. N - 1, i # N - 1  PROVE i + 1 \in 0 .. N - 1 /\ w[i + 1] = nx[w[i]]
    <3>1. PICK c \in 0 .. N - 1 : c = i + 1  BY <1>2, <2>3
    <3>2. c # 0 /\ c - 1 = i  BY <3>1
    <3>3. w[c] = nx[w[c - 1]]  BY <1>4, <3>2
    <3>4. QED  BY <3>1, <3>2, <3>3
  <2>4. QED  BY <2>1, <2>2, <2>3

\* Any set that links do not leave has the walk in it.
<1>5. ASSUME NEW X, d \in X, \A x \in X \cap D : nx[x] \in X
      PROVE  R \subseteq X
  <2> DEFINE P == {i \in Nat : w[i] \in X \cap D}
  <2>1. 0 \in P  BY <1>41, <1>5
  <2>2. ASSUME NEW i \in 0 .. N - 1, i > 0, i - 1 \in P  PROVE i \in P
    <3>1. w[i] = nx[w[i - 1]] /\ i \in Nat  BY <1>4, <2>2
    <3>2. QED  BY <1>5, <2>2, <3>1
  <2> HIDE DEF P
  <2>3. 0 .. N - 1 \subseteq P  BY <1>2, <2>1, <2>2, Downward
  <2>4. QED  BY <1>1, <1>4, <2>3 DEF P
<1>6. d \in R
  <2>1. 0 \in 0 .. N - 1 /\ w[0] = d  BY <1>2, <1>4
  <2>2. QED  BY <1>1, <1>4, <2>1
<1>7. R \subseteq D  BY <1>5
<1>8. \A i \in 0 .. N - 1 : w[i] \in D  BY <1>1, <1>4, <1>7
<1>9. nx[w[N - 1]] \in R
  <2>1. CASE \A i, j \in 0 .. N - 1 : w[i] = w[j] => i = j
    <3>1. w \in Injection(0 .. N - 1, D)
      <4>1. w \in [0 .. N - 1 -> D]  BY <1>3, <1>4, <1>8 DEF Sol
      <4>2. QED  BY <2>1, <4>1 DEF Injection, IsInjective
    <3>2. Cardinality(0 .. N - 1) = N /\ IsFiniteSet(0 .. N - 1)
      <4>1. 0 \in Int /\ N - 1 \in Int /\ ~(0 > N - 1) /\ N - 1 - 0 + 1 = N  BY <1>2
      <4>2. QED  BY <4>1, FS_Interval
    <3>3. w \in Surjection(0 .. N - 1, D)
      BY <3>1, <3>2, FS_Injection DEF N
    <3>4. \A x \in D : \E i \in 0 .. N - 1 : w[i] = x  BY <3>3 DEF Surjection
    <3>5. D \subseteq R  BY <1>1, <1>4, <3>4
    <3>6. QED  BY <1>2, <1>8, <3>5
  <2>2. CASE ~\A i, j \in 0 .. N - 1 : w[i] = w[j] => i = j
    <3>1. PICK i \in 0 .. N - 1, j \in 0 .. N - 1 : w[i] = w[j] /\ i < j
      <4>1. PICK i \in 0 .. N - 1, j \in 0 .. N - 1 : w[i] = w[j] /\ i # j  BY <2>2
      <4>2. i < j \/ j < i  BY <4>1
      <4>3. QED  BY <4>1, <4>2
    <3> DEFINE X == {w[l] : l \in 0 .. j - 1}
    <3>2. d \in X
      <4>1. 0 \in 0 .. j - 1 /\ w[0] = d  BY <1>2, <1>4, <3>1
      <4>2. QED  BY <4>1
    <3>3. ASSUME NEW x \in X \cap D  PROVE nx[x] \in X
      <4>1. PICK l \in 0 .. j - 1 : x = w[l]  OBVIOUS
      <4>2. l \in 0 .. N - 1 /\ l # N - 1  BY <1>2, <3>1, <4>1
      <4>3. w[l + 1] = nx[x]  BY <1>41, <4>1, <4>2
      <4>4. CASE l + 1 \in 0 .. j - 1  BY <4>3, <4>4
      <4>5. CASE l + 1 = j
        <5>1. i \in 0 .. j - 1  BY <3>1
        <5>2. QED  BY <3>1, <4>3, <4>5, <5>1
      <4>6. QED  BY <4>1, <4>4, <4>5
    <3>4. R \subseteq X
      <4> HIDE DEF X
      <4> QED  BY <1>5, <3>2, <3>3
    <3>5. w[N - 1] \in R /\ w[N - 1] \in D  BY <1>1, <1>2, <1>4, <1>8
    <3>6. X \subseteq R
      <4>1. j \in 0 .. N - 1 /\ N \in Nat  BY <1>2
      <4>2. \A l \in 0 .. j - 1 : l \in 0 .. N - 1  BY <4>1
      <4>3. QED  BY <1>1, <1>4, <4>2
    <3>7. QED  BY <3>3, <3>4, <3>5, <3>6
  <2>3. QED  BY <2>1, <2>2
<1>10. ASSUME NEW x \in R  PROVE nx[x] \in R
  <2>1. PICK i \in 0 .. N - 1 : x = w[i]  BY <1>1, <1>4
  <2>2. CASE i = N - 1  BY <1>9, <2>1, <2>2
  <2>3. CASE i # N - 1
    <3>1. i + 1 \in 0 .. N - 1  BY <1>41, <2>3
    <3>2. w[i + 1] = nx[x]  BY <1>41, <2>1, <2>3
    <3>3. QED  BY <1>1, <1>4, <3>1, <3>2
  <2>4. QED  BY <2>2, <2>3
<1>11. QED  BY <1>5, <1>6, <1>7, <1>10

\* Every dart of a set closed under links is the next of one in it.
LEMMA RingOnto ==
  ASSUME NEW a, NEW G, NEW o, NEW nx, Net(a, G, o, nx),
         NEW R \in SUBSET DOMAIN nx, \A x \in R : nx[x] \in R, NEW y \in R
  PROVE  \E x \in R : nx[x] = y
<1> DEFINE f == [x \in R |-> nx[x]]
<1>1. IsFiniteSet(R)  BY DartsFinite, FS_Subset
<1>2. f \in [R -> R]  OBVIOUS
<1>3. \A x, u \in R : f[x] = f[u] => x = u  BY OneBefore
<1>4. f \in Injection(R, R)  BY <1>2, <1>3 DEF Injection, IsInjective
<1> HIDE DEF f
<1>5. f \in Surjection(R, R)  BY <1>1, <1>4, FS_Injection
<1>6. \E x \in R : f[x] = y  BY <1>5 DEF Surjection
<1>7. QED  BY <1>6 DEF f

\* The ring of dart d.
RingOf(nx, d) == getRingEdges(nx, d)

\* A ring is the least set of darts closed under links that has its dart.
LEMMA RingFacts ==
  ASSUME NEW a, NEW G, NEW o, NEW nx, Net(a, G, o, nx), NEW d \in DOMAIN nx
  PROVE  /\ d \in RingOf(nx, d) /\ RingOf(nx, d) \subseteq DOMAIN nx
         /\ \A x \in RingOf(nx, d) : nx[x] \in RingOf(nx, d)
         /\ \A X : d \in X /\ (\A x \in X \cap DOMAIN nx : nx[x] \in X) => RingOf(nx, d) \subseteq X
BY DartsFinite, RingIs DEF RingOf

\* Who is in the ring of another has it in its own.
LEMMA RingBack ==
  ASSUME NEW a, NEW G, NEW o, NEW nx, Net(a, G, o, nx), NEW d \in DOMAIN nx,
         NEW y \in RingOf(nx, d)
  PROVE  y \in DOMAIN nx /\ d \in RingOf(nx, y)
<1> DEFINE R == RingOf(nx, d)
           T == RingOf(nx, y)
<1>1. d \in R /\ R \subseteq DOMAIN nx /\ \A x \in R : nx[x] \in R
  BY RingFacts
<1>2. y \in DOMAIN nx  BY <1>1
<1>3. y \in T /\ T \subseteq DOMAIN nx /\ \A x \in T : nx[x] \in T
  BY <1>2, RingFacts
<1>4. \A X : d \in X /\ (\A x \in X \cap DOMAIN nx : nx[x] \in X) => R \subseteq X
  BY RingFacts
<1>5. SUFFICES ASSUME d \notin T PROVE FALSE  BY <1>2
<1> HIDE DEF R, T
<1>6. ASSUME NEW x \in (R \ T) \cap DOMAIN nx  PROVE nx[x] \in R \ T
  <2>1. nx[x] \in R  BY <1>1
  <2>2. ASSUME nx[x] \in T PROVE FALSE
    <3>1. PICK v \in T : nx[v] = nx[x]  BY <1>3, <2>2, RingOnto
    <3>2. v = x  BY <1>3, <3>1, OneBefore
    <3>3. QED  BY <3>1, <3>2
  <2>3. QED  BY <2>1, <2>2
<1>7. R \subseteq R \ T  BY <1>1, <1>4, <1>5, <1>6
<1>8. y \in R  BY DEF R
<1>9. QED  BY <1>3, <1>7, <1>8

\* What is on the left of one dart of a ring is on the left of all.
LEMMA RingSide ==
  ASSUME NEW a, NEW G, NEW o, NEW nx, Net(a, G, o, nx), NEW d \in DOMAIN nx,
         NEW k, Smooth(WallsOf(G), k), NEW x \in RingOf(nx, d)
  PROVE  x \in DOMAIN nx /\ k[LeftOf(G, x)] = k[LeftOf(G, d)]
<1> DEFINE X == {y \in DOMAIN nx : k[LeftOf(G, y)] = k[LeftOf(G, d)]}
<1>1. \A y \in X \cap DOMAIN nx : nx[y] \in X
  <2> SUFFICES ASSUME NEW y \in DOMAIN nx, k[LeftOf(G, y)] = k[LeftOf(G, d)]
               PROVE  nx[y] \in DOMAIN nx /\ k[LeftOf(G, nx[y])] = k[LeftOf(G, d)]
    OBVIOUS
  <2>1. k[LeftOf(G, nx[y])] = k[LeftOf(G, y)]  BY NextSide
  <2>2. nx[y] \in DOMAIN nx  BY NetFacts
  <2>3. QED  BY <2>1, <2>2
<1>2. d \in X  OBVIOUS
<1> HIDE DEF X
<1>3. RingOf(nx, d) \subseteq X  BY <1>1, <1>2, RingFacts
<1>4. QED  BY <1>3 DEF X

-----------------------------------------------------------------------------
(* The steps of a ring.                                                     *)

\* The i-th step of dart d.
StepOf(G, d, i) == <<Path(G, d)[i], Path(G, d)[i + 1]>>

\* Where the i-th step of a dart is on the line of its edge.
LEMMA PathPlace ==
  ASSUME NEW a, NEW G, NEW o, NEW nx, Net(a, G, o, nx), NEW d \in DOMAIN nx,
         NEW p, p = Path(G, d), NEW g, g = G[EdgeOf(d)], NEW i \in 1 .. Len(p) - 1
  PROVE  /\ Len(p) = Len(g) /\ EdgeOf(d) \in DOMAIN G
         /\ d > 0 => i \in Places(g) /\ p[i] = g[i] /\ p[i + 1] = g[i + 1] /\ EdgeOf(d) = d
         /\ d < 0 => /\ Len(g) - i \in Places(g) /\ p[i] = g[Len(g) - i + 1] /\ p[i + 1] = g[Len(g) - i]
                     /\ EdgeOf(d) = -d
<1>1. EdgeOf(d) \in DOMAIN G /\ d \in Int /\ d # 0  BY NetFacts
<1>2. IsLine(g)  BY <1>1, NetFacts
<1>3. Len(g) \in Nat /\ Len(g) > 1  BY <1>2, LineFacts
<1>4. CASE d > 0
  <2>1. p = g /\ EdgeOf(d) = d  BY <1>4 DEF Path, EdgeOf
  <2>2. ~(d < 0)  BY <1>1, <1>4
  <2>3. QED  BY <1>1, <2>1, <2>2 DEF Places
<1>5. CASE ~(d > 0)
  <2>1. p = Reverse(g) /\ EdgeOf(d) = -d  BY <1>5 DEF Path, EdgeOf
  <2>2. Len(p) = Len(g) /\ \A j \in 1 .. Len(g) : p[j] = g[Len(g) - j + 1]
    BY <1>2, <2>1, ReverseLine
  <2>3. i \in 1 .. Len(g) /\ i + 1 \in 1 .. Len(g) /\ Len(g) - (i + 1) + 1 = Len(g) - i
        /\ Len(g) - i \in 1 .. Len(g) - 1
    BY <1>3, <2>2
  <2>4. QED  BY <1>1, <1>5, <2>1, <2>2, <2>3 DEF Places
<1>6. QED  BY <1>4, <1>5

\* The i-th step of a dart is a step of the line of its edge, forth or back.
Placed(G, d, i) ==
  LET p == Path(G, d)
      g == G[EdgeOf(d)]
  IN  /\ Len(p) = Len(g) /\ EdgeOf(d) \in DOMAIN G
      /\ d > 0 => i \in Places(g) /\ p[i] = g[i] /\ p[i + 1] = g[i + 1] /\ EdgeOf(d) = d
      /\ d < 0 => /\ Len(g) - i \in Places(g) /\ p[i] = g[Len(g) - i + 1] /\ p[i + 1] = g[Len(g) - i]
                  /\ EdgeOf(d) = -d

\* Steps of darts are steps of lines.
LEMMA PathPlaced ==
  ASSUME NEW a, NEW G, NEW o, NEW nx, Net(a, G, o, nx), NEW d \in DOMAIN nx,
         NEW i \in 1 .. Len(Path(G, d)) - 1
  PROVE  Placed(G, d, i)
<1>1. PICK p, g : p = Path(G, d) /\ g = G[EdgeOf(d)]  OBVIOUS
<1>2. i \in 1 .. Len(p) - 1  BY <1>1
<1>3. /\ Len(p) = Len(g) /\ EdgeOf(d) \in DOMAIN G
      /\ d > 0 => i \in Places(g) /\ p[i] = g[i] /\ p[i + 1] = g[i + 1] /\ EdgeOf(d) = d
      /\ d < 0 => /\ Len(g) - i \in Places(g) /\ p[i] = g[Len(g) - i + 1] /\ p[i + 1] = g[Len(g) - i]
                  /\ EdgeOf(d) = -d
  BY <1>1, <1>2, PathPlace
<1>4. QED  BY <1>1, <1>3 DEF Placed

\* No step is taken by two darts, or twice by one.
LEMMA StepOnce ==
  ASSUME NEW a, NEW G, NEW o, NEW nx, Net(a, G, o, nx), NEW c \in DOMAIN nx, NEW d \in DOMAIN nx,
         NEW i \in 1 .. Len(Path(G, c)) - 1, NEW j \in 1 .. Len(Path(G, d)) - 1,
         StepOf(G, c, i) = StepOf(G, d, j)
  PROVE  c = d /\ i = j
<1> DEFINE p == Path(G, c)
           q == Path(G, d)
           g == G[EdgeOf(c)]
           h == G[EdgeOf(d)]
           m == IF c > 0 THEN i ELSE Len(g) - i
           n == IF d > 0 THEN j ELSE Len(h) - j
<1>0. Placed(G, c, i) /\ Placed(G, d, j)
  <2> HIDE DEF p, q, g, h, m, n
  <2>1. QED  BY PathPlaced
<1>1. p[i] = q[j] /\ p[i + 1] = q[j + 1]  BY DEF StepOf
<1>2. c \in Int /\ c # 0 /\ d \in Int /\ d # 0  BY NetFacts
<1>3. /\ Len(p) = Len(g) /\ EdgeOf(c) \in DOMAIN G
      /\ c > 0 => i \in Places(g) /\ p[i] = g[i] /\ p[i + 1] = g[i + 1] /\ EdgeOf(c) = c
      /\ c < 0 => /\ Len(g) - i \in Places(g) /\ p[i] = g[Len(g) - i + 1] /\ p[i + 1] = g[Len(g) - i]
                  /\ EdgeOf(c) = -c
  BY <1>0 DEF Placed
<1>4. /\ Len(q) = Len(h) /\ EdgeOf(d) \in DOMAIN G
      /\ d > 0 => j \in Places(h) /\ q[j] = h[j] /\ q[j + 1] = h[j + 1] /\ EdgeOf(d) = d
      /\ d < 0 => /\ Len(h) - j \in Places(h) /\ q[j] = h[Len(h) - j + 1] /\ q[j + 1] = h[Len(h) - j]
                  /\ EdgeOf(d) = -d
  BY <1>0 DEF Placed
<1>5. IsLine(g) /\ IsLine(h)  BY <1>3, <1>4, NetFacts
<1>6. Len(g) \in Nat /\ Len(h) \in Nat  BY <1>5, LineFacts
<1>7. i \in Int /\ j \in Int  OBVIOUS
<1> HIDE DEF p, q, g, h
<1>8. c > 0 \/ c < 0  BY <1>2
<1>9. d > 0 \/ d < 0  BY <1>2
<1>10. m \in Places(g) /\ StepAt(g, m) = {p[i], p[i + 1]}
  BY <1>2, <1>3, <1>8 DEF StepAt
<1>11. n \in Places(h) /\ StepAt(h, n) = {q[j], q[j + 1]}
  BY <1>2, <1>4, <1>9 DEF StepAt
<1>12. EdgeOf(c) = EdgeOf(d) /\ m = n
  <2>1. StepAt(g, m) = StepAt(h, n)  BY <1>1, <1>10, <1>11
  <2>2. \A e, f \in DOMAIN G : \A u \in Places(G[e]), v \in Places(G[f]) :
          StepAt(G[e], u) = StepAt(G[f], v) => e = f /\ u = v
    BY DEF Net, TakenOnce, OnceIn
  <2>3. EdgeOf(c) \in DOMAIN G /\ EdgeOf(d) \in DOMAIN G  BY <1>3, <1>4
  <2> HIDE DEF m, n
  <2>4. m \in Places(G[EdgeOf(c)]) /\ n \in Places(G[EdgeOf(d)])
        /\ StepAt(G[EdgeOf(c)], m) = StepAt(G[EdgeOf(d)], n)
    BY <1>10, <1>11, <2>1 DEF g, h
  <2>5. QED  BY <2>2, <2>3, <2>4
<1>13. g = h  BY <1>12 DEF g, h
<1>14. CASE c > 0 /\ d > 0  BY <1>3, <1>4, <1>12, <1>14
<1>15. CASE c < 0 /\ d < 0
  <2>1. c = d  BY <1>2, <1>3, <1>4, <1>12, <1>15
  <2>2. Len(g) - i = Len(g) - j  BY <1>2, <1>12, <1>13, <1>15
  <2>3. QED  BY <1>6, <1>7, <2>1, <2>2
<1>16. \A u \in Places(g) : g[u] # g[u + 1]
  <2>1. \A u \in Places(g) : Adjacent(g[u], g[u + 1]) /\ g[u] \in Vertices /\ g[u + 1] \in Vertices
    <3>1. /\ \A u \in 1 .. Len(g) : g[u] \in Vertices
          /\ \A u \in 1 .. Len(g) - 1 : Adjacent(g[u], g[u + 1])
      BY <1>5, LineFacts DEF IsLine
    <3>2. \A u \in 1 .. Len(g) - 1 : u \in 1 .. Len(g) /\ u + 1 \in 1 .. Len(g)  BY <1>6
    <3>3. QED  BY <3>1, <3>2 DEF Places
  <2>2. QED  BY <2>1, AdjacentPoints
<1>17. CASE c > 0 /\ d < 0
  <2>1. ~(d > 0)  BY <1>2, <1>17
  <2>2. m = i /\ n = Len(g) - j  BY <1>13, <1>17, <2>1
  <2>3. p[i] = g[m] /\ q[j] = g[m + 1]
    BY <1>3, <1>4, <1>12, <1>13, <1>17, <2>2
  <2>4. QED  BY <1>1, <1>10, <1>16, <2>3
<1>18. CASE c < 0 /\ d > 0
  <2>1. ~(c > 0)  BY <1>2, <1>18
  <2>2. n = j /\ m = Len(g) - i  BY <1>18, <2>1
  <2>3. q[j] = g[m] /\ p[i] = g[m + 1]
    BY <1>3, <1>4, <1>12, <1>13, <1>18, <2>2
  <2>4. QED  BY <1>1, <1>10, <1>16, <2>3
<1>19. QED  BY <1>8, <1>9, <1>14, <1>15, <1>17, <1>18

\* Unit steps can be counted.
LEMMA UnitFinite ==
  ASSUME NEW S \in SUBSET UnitSteps
  PROVE  IsFiniteSet(S)
<1>1. Vertices \in SUBSET Vertices  OBVIOUS
<1>2. IsFiniteSet(Vertices \X Vertices)  BY <1>1, UnderFinite, FS_Product
<1>3. UnitSteps \subseteq Vertices \X Vertices
  <2> SUFFICES ASSUME NEW s \in UnitSteps PROVE s \in Vertices \X Vertices  OBVIOUS
  <2>1. PICK x, y \in Int :
           \/ s = East(x, y) /\ x \in 0 .. Width - 1 /\ y \in 0 .. Height
           \/ s = West(x, y) /\ x \in 0 .. Width - 1 /\ y \in 0 .. Height
           \/ s = North(x, y) /\ x \in 0 .. Width /\ y \in 0 .. Height - 1
           \/ s = South(x, y) /\ x \in 0 .. Width /\ y \in 0 .. Height - 1
    BY UnitCases
  <2>2. /\ x \in 0 .. Width - 1 => x \in 0 .. Width /\ x + 1 \in 0 .. Width
        /\ y \in 0 .. Height - 1 => y \in 0 .. Height /\ y + 1 \in 0 .. Height
    BY GridSize
  <2>3. QED  BY <2>1, <2>2 DEF East, West, North, South, Vertices
<1>4. QED  BY <1>2, <1>3, FS_Subset

\* Steps that can be paired so that each leads to just one, and just one to each.
Chained(S, Q) ==
  /\ \A q \in Q : q[1] \in S /\ q[2] \in S /\ q[2][1] = q[1][2]
  /\ \A s \in S : (\E q \in Q : q[1] = s) /\ \E q \in Q : q[2] = s
  /\ \A q, r \in Q : (q[1] = r[1] => q[2] = r[2]) /\ (q[2] = r[2] => q[1] = r[1])

\* Where every step is followed by one of its own, steps are balanced.
LEMMA ChainedBalanced ==
  ASSUME NEW S \in SUBSET UnitSteps, NEW Q, Chained(S, Q)
  PROVE  Balanced(S)
<1>1. IsFiniteSet(S)  BY UnitFinite
<1>2. ASSUME NEW v  PROVE Cardinality(From(S, v)) = Cardinality(Into(S, v))
  <2> DEFINE Of(s) == CHOOSE q \in Q : q[1] = s
             f == [s \in Into(S, v) |-> Of(s)[2]]
  <2>1. \A s \in S : Of(s) \in Q /\ Of(s)[1] = s  BY DEF Chained
  <2> HIDE DEF Of
  <2>2. \A s \in Into(S, v) : s \in S /\ s[2] = v /\ f[s] \in From(S, v) /\ f[s] = Of(s)[2]
    <3> SUFFICES ASSUME NEW s \in Into(S, v)
                 PROVE  s \in S /\ s[2] = v /\ f[s] \in From(S, v) /\ f[s] = Of(s)[2]
      OBVIOUS
    <3>1. s \in S /\ s[2] = v  BY DEF Into
    <3>2. f[s] = Of(s)[2]  OBVIOUS
    <3>3. Of(s)[2] \in S /\ Of(s)[2][1] = s[2]  BY <2>1, <3>1 DEF Chained
    <3>4. QED  BY <3>1, <3>2, <3>3 DEF From
  <2>3. f \in [Into(S, v) -> From(S, v)]
    <3>1. f = [s \in Into(S, v) |-> f[s]]  OBVIOUS
    <3> HIDE DEF f
    <3>2. QED  BY <2>2, <3>1
  <2> HIDE DEF f
  <2>4. \A s, t \in Into(S, v) : f[s] = f[t] => s = t
    <3> SUFFICES ASSUME NEW s \in Into(S, v), NEW t \in Into(S, v), f[s] = f[t] PROVE s = t  OBVIOUS
    <3>1. Of(s)[2] = Of(t)[2] /\ s \in S /\ t \in S  BY <2>2
    <3>2. Of(s) \in Q /\ Of(t) \in Q /\ Of(s)[1] = s /\ Of(t)[1] = t  BY <2>1, <3>1
    <3>3. QED  BY <3>1, <3>2 DEF Chained
  <2>5. \A t \in From(S, v) : \E s \in Into(S, v) : f[s] = t
    <3> SUFFICES ASSUME NEW t \in From(S, v) PROVE \E s \in Into(S, v) : f[s] = t  OBVIOUS
    <3>1. t \in S /\ t[1] = v  BY DEF From
    <3>2. PICK q \in Q : q[2] = t  BY <3>1 DEF Chained
    <3>3. q[1] \in S /\ q[1][2] = v  BY <3>1, <3>2 DEF Chained
    <3>4. q[1] \in Into(S, v)  BY <3>3 DEF Into
    <3>5. Of(q[1]) \in Q /\ Of(q[1])[1] = q[1]  BY <2>1, <3>3
    <3>6. Of(q[1])[2] = t  BY <3>2, <3>5 DEF Chained
    <3>7. f[q[1]] = t  BY <2>2, <3>4, <3>6
    <3>8. QED  BY <3>4, <3>7
  <2>6. f \in Bijection(Into(S, v), From(S, v))
    BY <2>3, <2>4, <2>5 DEF Bijection, Injection, Surjection, IsInjective
  <2>7. ExistsBijection(Into(S, v), From(S, v))  BY <2>6 DEF ExistsBijection
  <2>8. Into(S, v) \in SUBSET S  BY DEF Into
  <2>9. IsFiniteSet(Into(S, v))  BY <1>1, <2>8, FS_Subset
  <2>10. QED  BY <2>7, <2>9, FS_Bijection
<1>3. QED  BY <1>1, <1>2 DEF Balanced

\* The steps of a ring are along walls.
LEMMA RingStepsAre ==
  ASSUME NEW a, NEW G, NEW o, NEW nx, Net(a, G, o, nx), NEW R \in SUBSET DOMAIN nx
  PROVE  /\ \A s : s \in RingSteps(G, R)
                     <=> \E d \in R : \E i \in 1 .. Len(Path(G, d)) - 1 : s = StepOf(G, d, i)
         /\ RingSteps(G, R) \in SUBSET UnitSteps
         /\ \A s \in RingSteps(G, R) : {s[1], s[2]} \in WallsOf(G)
<1>1. \A s : s \in RingSteps(G, R) <=> \E d \in R : s \in Steps(Path(G, d))
  BY DEF RingSteps
<1>2. \A s : s \in RingSteps(G, R)
                     <=> \E d \in R : \E i \in 1 .. Len(Path(G, d)) - 1 : s = StepOf(G, d, i)
  BY <1>1, PathSteps DEF StepOf
<1>3. \A d \in R : \A s \in Steps(Path(G, d)) : s \in UnitSteps  BY LeftIsCell
<1>4. ASSUME NEW d \in R, NEW s \in Steps(Path(G, d))  PROVE {s[1], s[2]} \in WallsOf(G)
  <2>1. d \in DOMAIN nx  OBVIOUS
  <2>2. PICK i \in 1 .. Len(Path(G, d)) - 1 : s = StepOf(G, d, i)  BY PathSteps DEF StepOf
  <2>3. PICK p, g : p = Path(G, d) /\ g = G[EdgeOf(d)]  OBVIOUS
  <2>4. /\ Len(p) = Len(g) /\ EdgeOf(d) \in DOMAIN G
        /\ d > 0 => i \in Places(g) /\ p[i] = g[i] /\ p[i + 1] = g[i + 1]
        /\ d < 0 => Len(g) - i \in Places(g) /\ p[i] = g[Len(g) - i + 1] /\ p[i + 1] = g[Len(g) - i]
    BY <2>1, <2>2, <2>3, PathPlaced DEF Placed
  <2>5. d > 0 \/ d < 0
    <3>1. d \in Int /\ d # 0  BY <2>1, NetFacts
    <3>2. QED  BY <3>1
  <2>6. s[1] = p[i] /\ s[2] = p[i + 1]  BY <2>2, <2>3 DEF StepOf
  <2>7. \E m \in Places(g) : {s[1], s[2]} = StepAt(g, m)
    <3>1. CASE d > 0  BY <2>4, <2>6, <3>1 DEF StepAt
    <3>2. CASE d < 0
      <4>1. StepAt(g, Len(g) - i) = {s[2], s[1]}  BY <2>4, <2>6, <3>2 DEF StepAt
      <4>2. QED  BY <2>4, <3>2, <4>1
    <3>3. QED  BY <2>5, <3>1, <3>2
  <2>8. QED  BY <2>3, <2>4, <2>7, WallIs
<1>5. QED  BY <1>1, <1>2, <1>3, <1>4

\* The step that follows the i-th one of dart d on the walk.
Following(G, nx, d, i) ==
  IF i < Len(Path(G, d)) - 1 THEN StepOf(G, d, i + 1) ELSE StepOf(G, nx[d], 1)

\* It is the j-th step of dart c.
ComesAt(G, nx, d, i, c, j) ==
  /\ Following(G, nx, d, i) = StepOf(G, c, j)
  /\ j \in 1 .. Len(Path(G, c)) - 1
  /\ \/ c = d /\ j = i + 1
     \/ c = nx[d] /\ j = 1 /\ i = Len(Path(G, d)) - 1

\* A path has a step.
LEMMA PathLength ==
  ASSUME NEW a, NEW G, NEW o, NEW nx, Net(a, G, o, nx), NEW d \in DOMAIN nx
  PROVE  Len(Path(G, d)) \in Nat /\ Len(Path(G, d)) > 1
<1>1. IsLine(Path(G, d))  BY NetFacts
<1>2. QED  BY <1>1, LineFacts

\* The step that follows starts where the one before it ends.
LEMMA FollowingIs ==
  ASSUME NEW a, NEW G, NEW o, NEW nx, Net(a, G, o, nx), NEW d \in DOMAIN nx,
         NEW i \in 1 .. Len(Path(G, d)) - 1
  PROVE  /\ \E c \in {d, nx[d]}, j \in Nat : ComesAt(G, nx, d, i, c, j)
         /\ Following(G, nx, d, i)[1] = StepOf(G, d, i)[2]
<1>1. nx[d] \in DOMAIN nx /\ o[nx[d]] = o[-d]  BY NetFacts
<1>2. PICK m \in Nat : m = Len(Path(G, d)) /\ m > 1  BY PathLength
<1>3. PICK n \in Nat : n = Len(Path(G, nx[d])) /\ n > 1  BY <1>1, PathLength
<1>4. CASE i < m - 1
  <2>1. PICK j \in Nat : j = i + 1  BY <1>2
  <2>2. j \in 1 .. m - 1  BY <1>2, <1>4, <2>1
  <2>3. Following(G, nx, d, i) = StepOf(G, d, j)  BY <1>2, <1>4, <2>1 DEF Following
  <2>4. ComesAt(G, nx, d, i, d, j)  BY <1>2, <2>1, <2>2, <2>3 DEF ComesAt
  <2>5. StepOf(G, d, j)[1] = Path(G, d)[j] /\ StepOf(G, d, i)[2] = Path(G, d)[i + 1]
    BY DEF StepOf
  <2>6. QED  BY <2>1, <2>3, <2>4, <2>5
<1>5. CASE ~(i < m - 1)
  <2>1. i = m - 1 /\ i + 1 = m  BY <1>2, <1>5
  <2>2. Following(G, nx, d, i) = StepOf(G, nx[d], 1)  BY <1>2, <1>5 DEF Following
  <2>3. 1 \in 1 .. n - 1  BY <1>3
  <2>4. ComesAt(G, nx, d, i, nx[d], 1)  BY <1>2, <1>3, <2>1, <2>2, <2>3 DEF ComesAt
  <2>5. StepOf(G, nx[d], 1)[1] = Path(G, nx[d])[1] /\ StepOf(G, d, i)[2] = Path(G, d)[i + 1]
    BY DEF StepOf
  <2>6. Path(G, nx[d])[1] = a[o[-d]] /\ Last(Path(G, d)) = a[o[-d]] /\ IsLine(Path(G, d))
    BY <1>1, NetFacts
  <2>7. Last(Path(G, d)) = Path(G, d)[m]  BY <1>2, <2>6, LineFacts
  <2>8. QED  BY <2>1, <2>2, <2>4, <2>5, <2>6, <2>7
<1>6. QED  BY <1>4, <1>5

\* No step follows two.
LEMMA FollowingOnce ==
  ASSUME NEW a, NEW G, NEW o, NEW nx, Net(a, G, o, nx), NEW c \in DOMAIN nx, NEW d \in DOMAIN nx,
         NEW i \in 1 .. Len(Path(G, c)) - 1, NEW j \in 1 .. Len(Path(G, d)) - 1,
         Following(G, nx, c, i) = Following(G, nx, d, j)
  PROVE  c = d /\ i = j
<1>1. nx[c] \in DOMAIN nx /\ nx[d] \in DOMAIN nx  BY NetFacts
<1>2. PICK c1 \in {c, nx[c]}, i1 \in Nat : ComesAt(G, nx, c, i, c1, i1)  BY FollowingIs
<1>3. PICK d1 \in {d, nx[d]}, j1 \in Nat : ComesAt(G, nx, d, j, d1, j1)  BY FollowingIs
<1>4. c1 \in DOMAIN nx /\ d1 \in DOMAIN nx  BY <1>1
<1>5. /\ i1 \in 1 .. Len(Path(G, c1)) - 1 /\ j1 \in 1 .. Len(Path(G, d1)) - 1
      /\ StepOf(G, c1, i1) = StepOf(G, d1, j1)
  BY <1>2, <1>3 DEF ComesAt
<1>6. c1 = d1 /\ i1 = j1  BY <1>4, <1>5, StepOnce
<1>7. \/ c1 = c /\ i1 = i + 1
      \/ c1 = nx[c] /\ i1 = 1 /\ i = Len(Path(G, c)) - 1
  BY <1>2 DEF ComesAt
<1>8. \/ d1 = d /\ j1 = j + 1
      \/ d1 = nx[d] /\ j1 = 1 /\ j = Len(Path(G, d)) - 1
  BY <1>3 DEF ComesAt
<1>9. i \in Int /\ j \in Int /\ i >= 1 /\ j >= 1  OBVIOUS
<1>10. CASE c1 = c /\ i1 = i + 1
  <2>1. d1 = d /\ j1 = j + 1  BY <1>6, <1>8, <1>9, <1>10
  <2>2. c = d  BY <1>6, <1>10, <2>1
  <2>3. i + 1 = j + 1  BY <1>6, <1>10, <2>1
  <2>4. QED  BY <1>9, <2>2, <2>3
<1>11. CASE c1 = nx[c] /\ i1 = 1 /\ i = Len(Path(G, c)) - 1
  <2>1. d1 = nx[d] /\ j = Len(Path(G, d)) - 1  BY <1>6, <1>8, <1>9, <1>11
  <2>2. c = d  BY <1>6, <1>11, <2>1, OneBefore
  <2>3. QED  BY <1>11, <2>1, <2>2
<1>12. QED  BY <1>7, <1>10, <1>11

\* The steps of a ring are balanced.
LEMMA RingBalanced ==
  ASSUME NEW a, NEW G, NEW o, NEW nx, Net(a, G, o, nx),
         NEW R \in SUBSET DOMAIN nx, \A x \in R : nx[x] \in R
  PROVE  Balanced(RingSteps(G, R))
<1> DEFINE S == RingSteps(G, R)
           Pair(d, i) == <<StepOf(G, d, i), Following(G, nx, d, i)>>
           Q == {q \in S \X S : \E d \in R : \E i \in 1 .. Len(Path(G, d)) - 1 : q = Pair(d, i)}
<1>1. /\ \A s : s \in S <=> \E d \in R : \E i \in 1 .. Len(Path(G, d)) - 1 : s = StepOf(G, d, i)
      /\ S \in SUBSET UnitSteps
  BY RingStepsAre
<1> HIDE DEF S
<1>2. ASSUME NEW d \in R, NEW i \in 1 .. Len(Path(G, d)) - 1
      PROVE  StepOf(G, d, i) \in S /\ Following(G, nx, d, i) \in S
  <2>1. PICK c \in {d, nx[d]}, j \in Nat : ComesAt(G, nx, d, i, c, j)  BY FollowingIs
  <2>2. c \in R  OBVIOUS
  <2>3. j \in 1 .. Len(Path(G, c)) - 1 /\ Following(G, nx, d, i) = StepOf(G, c, j)
    BY <2>1 DEF ComesAt
  <2>4. QED  BY <1>1, <2>2, <2>3
<1>3. ASSUME NEW d \in R, NEW i \in 1 .. Len(Path(G, d)) - 1
      PROVE  Pair(d, i) \in Q
  <2>1. Pair(d, i) \in S \X S  BY <1>2
  <2>2. QED  BY <2>1
<1>4. \A q \in Q : \E d \in R : \E i \in 1 .. Len(Path(G, d)) - 1 : q = Pair(d, i)
  OBVIOUS
<1>5. \A d, i : Pair(d, i)[1] = StepOf(G, d, i) /\ Pair(d, i)[2] = Following(G, nx, d, i)
  OBVIOUS
<1> HIDE DEF Q, Pair
<1>6. ASSUME NEW q \in Q  PROVE q[1] \in S /\ q[2] \in S /\ q[2][1] = q[1][2]
  <2>1. PICK d \in R : \E i \in 1 .. Len(Path(G, d)) - 1 : q = Pair(d, i)  BY <1>4
  <2>2. PICK i \in 1 .. Len(Path(G, d)) - 1 : q = Pair(d, i)  BY <2>1
  <2>3. Following(G, nx, d, i)[1] = StepOf(G, d, i)[2]  BY FollowingIs
  <2>4. QED  BY <1>2, <1>5, <2>2, <2>3
<1>7. ASSUME NEW s \in S  PROVE \E q \in Q : q[1] = s
  <2>1. PICK d \in R : \E i \in 1 .. Len(Path(G, d)) - 1 : s = StepOf(G, d, i)  BY <1>1
  <2>2. PICK i \in 1 .. Len(Path(G, d)) - 1 : s = StepOf(G, d, i)  BY <2>1
  <2>3. QED  BY <1>3, <1>5, <2>2
<1>8. ASSUME NEW s \in S  PROVE \E q \in Q : q[2] = s
  <2>1. PICK d \in R : \E i \in 1 .. Len(Path(G, d)) - 1 : s = StepOf(G, d, i)  BY <1>1
  <2>2. PICK j \in 1 .. Len(Path(G, d)) - 1 : s = StepOf(G, d, j)  BY <2>1
  <2>3. PICK m \in Nat : m = Len(Path(G, d)) /\ m > 1  BY PathLength
  <2>4. CASE j > 1
    <3>1. PICK i \in Nat : i = j - 1  BY <2>4
    <3>2. i \in 1 .. m - 1 /\ i < m - 1 /\ i + 1 = j  BY <2>3, <2>4, <3>1
    <3>3. Following(G, nx, d, i) = s  BY <2>2, <2>3, <3>2 DEF Following
    <3>4. QED  BY <1>3, <1>5, <2>3, <3>2, <3>3
  <2>5. CASE ~(j > 1)
    <3>1. j = 1  BY <2>5
    <3>2. PICK x \in R : nx[x] = d  BY RingOnto
    <3>3. PICK n \in Nat : n = Len(Path(G, x)) /\ n > 1  BY PathLength
    <3>4. PICK i \in Nat : i = n - 1  BY <3>3
    <3>5. i \in 1 .. n - 1 /\ ~(i < n - 1)  BY <3>3, <3>4
    <3>6. Following(G, nx, x, i) = s  BY <2>2, <3>1, <3>2, <3>3, <3>5 DEF Following
    <3>7. QED  BY <1>3, <1>5, <3>3, <3>5, <3>6
  <2>6. QED  BY <2>4, <2>5
<1>9. ASSUME NEW q \in Q, NEW r \in Q
      PROVE  (q[1] = r[1] => q[2] = r[2]) /\ (q[2] = r[2] => q[1] = r[1])
  <2>1. PICK c \in R : \E i \in 1 .. Len(Path(G, c)) - 1 : q = Pair(c, i)  BY <1>4
  <2>2. PICK i \in 1 .. Len(Path(G, c)) - 1 : q = Pair(c, i)  BY <2>1
  <2>3. PICK d \in R : \E j \in 1 .. Len(Path(G, d)) - 1 : r = Pair(d, j)  BY <1>4
  <2>4. PICK j \in 1 .. Len(Path(G, d)) - 1 : r = Pair(d, j)  BY <2>3
  <2>5. c \in DOMAIN nx /\ d \in DOMAIN nx  OBVIOUS
  <2>6. q[1] = r[1] => c = d /\ i = j  BY <1>5, <2>2, <2>4, <2>5, StepOnce
  <2>7. q[2] = r[2] => c = d /\ i = j  BY <1>5, <2>2, <2>4, <2>5, FollowingOnce
  <2>8. QED  BY <2>2, <2>4, <2>6, <2>7
<1>10. Chained(S, Q)  BY <1>6, <1>7, <1>8, <1>9 DEF Chained
<1>11. Balanced(S)  BY <1>1, <1>10, ChainedBalanced
<1>12. QED  BY <1>11 DEF S

-----------------------------------------------------------------------------
(* How a ring winds. *)

RingOfSteps(G, nx, d) == RingSteps(G, RingOf(nx, d))

\* Winding numbers of a ring as colours.
LEMMA RingWalls ==
  ASSUME NEW a, NEW G, NEW o, NEW nx, Net(a, G, o, nx), NEW d \in DOMAIN nx,
         NEW S, S = RingOfSteps(G, nx, d)
  PROVE  /\ Balanced(S) /\ S \in SUBSET UnitSteps /\ \A s \in S : {s[1], s[2]} \in WallsOf(G)
         /\ Smooth(WallsOf(G), WindingOf(S)) /\ WindingOf(S)[Outer] = 0
         /\ WindingOf(S) \in [Cells -> Int]
         /\ \A s : s \in S <=> \E x \in RingOf(nx, d) : \E i \in 1 .. Len(Path(G, x)) - 1 : s = StepOf(G, x, i)
         /\ \A x \in DOMAIN nx : WindingOf(S)[LeftOf(G, x)] = Winding(S, LeftOf(G, x))
<1>1. RingOf(nx, d) \in SUBSET DOMAIN nx /\ \A x \in RingOf(nx, d) : nx[x] \in RingOf(nx, d)
  BY RingFacts
<1>2. Balanced(S)  BY <1>1, RingBalanced DEF RingOfSteps
<1>3. /\ S \in SUBSET UnitSteps /\ \A s \in S : {s[1], s[2]} \in WallsOf(G)
      /\ \A s : s \in S <=> \E x \in RingOf(nx, d) : \E i \in 1 .. Len(Path(G, x)) - 1 : s = StepOf(G, x, i)
  BY <1>1, RingStepsAre DEF RingOfSteps
<1>4. PICK walls : walls = WallsOf(G)  OBVIOUS
<1>5. \A s \in S : {s[1], s[2]} \in walls  BY <1>3, <1>4
<1>6. Smooth(walls, WindingOf(S)) /\ WindingOf(S)[Outer] = 0 /\ WindingOf(S) \in [Cells -> Int]
  BY <1>2, <1>5, WindingSmooth
<1>7. \A x \in DOMAIN nx : LeftOf(G, x) \in Cells  BY LeftIsCell
<1>8. QED  BY <1>2, <1>3, <1>4, <1>6, <1>7 DEF WindingOf

\* A ring has one winding number on its left.
LEMMA RingRinged ==
  ASSUME NEW a, NEW G, NEW o, NEW nx, Net(a, G, o, nx), NEW d \in DOMAIN nx,
         NEW S, S = RingOfSteps(G, nx, d)
  PROVE  Ringed(S, Winding(S, LeftOf(G, d)))
<1>1. PICK k : k = WindingOf(S)  OBVIOUS
<1>2. /\ Balanced(S) /\ S \in SUBSET UnitSteps /\ Smooth(WallsOf(G), k)
      /\ \A s : s \in S <=> \E x \in RingOf(nx, d) : \E i \in 1 .. Len(Path(G, x)) - 1 : s = StepOf(G, x, i)
      /\ \A x \in DOMAIN nx : k[LeftOf(G, x)] = Winding(S, LeftOf(G, x))
  BY <1>1, RingWalls
<1>3. ASSUME NEW s \in S  PROVE Winding(S, LeftCell(s)) = Winding(S, LeftOf(G, d))
  <2>1. PICK x \in RingOf(nx, d) : \E i \in 1 .. Len(Path(G, x)) - 1 : s = StepOf(G, x, i)  BY <1>2
  <2>2. x \in DOMAIN nx /\ k[LeftOf(G, x)] = k[LeftOf(G, d)]  BY <1>2, RingSide
  <2>3. s \in Steps(Path(G, x))  BY <2>1, PathSteps DEF StepOf
  <2>4. k[LeftCell(s)] = k[LeftOf(G, x)]  BY <1>2, <2>2, <2>3, Sides
  <2>5. LeftCell(s) \in Cells  BY <2>2, <2>3, LeftIsCell
  <2>6. k[LeftCell(s)] = Winding(S, LeftCell(s))  BY <1>1, <2>5 DEF WindingOf
  <2>7. QED  BY <1>2, <2>2, <2>4, <2>6
<1>4. QED  BY <1>2, <1>3 DEF Ringed

\* A ring that a dart starts, but not the dart back.
FirstOf(G, d) == <<Path(G, d)[1], Path(G, d)[2]>>

\* The first step of a dart is in a ring just if the dart is.
LEMMA FirstApart ==
  ASSUME NEW a, NEW G, NEW o, NEW nx, Net(a, G, o, nx), NEW d \in DOMAIN nx,
         NEW S, S = RingOfSteps(G, nx, d), NEW x \in DOMAIN nx
  PROVE  /\ FirstOf(G, x) \in S <=> x \in RingOf(nx, d)
         /\ Back(FirstOf(G, x)) \in S <=> -x \in RingOf(nx, d)
         /\ FirstOf(G, x) \in UnitSteps
<1>1. RingOf(nx, d) \subseteq DOMAIN nx  BY RingFacts
<1>2. \A s : s \in S <=> \E y \in RingOf(nx, d) : \E i \in 1 .. Len(Path(G, y)) - 1 : s = StepOf(G, y, i)
  BY RingWalls
<1>3. ASSUME NEW y \in DOMAIN nx, NEW s \in Steps(Path(G, y))
      PROVE  s \in S <=> y \in RingOf(nx, d)
  <2>1. PICK i \in 1 .. Len(Path(G, y)) - 1 : s = StepOf(G, y, i)  BY PathSteps DEF StepOf
  <2>2. y \in RingOf(nx, d) => s \in S  BY <1>2, <2>1
  <2>3. ASSUME s \in S PROVE y \in RingOf(nx, d)
    <3>1. PICK z \in RingOf(nx, d) : \E j \in 1 .. Len(Path(G, z)) - 1 : s = StepOf(G, z, j)
      BY <1>2, <2>3
    <3>2. PICK j \in 1 .. Len(Path(G, z)) - 1 : s = StepOf(G, z, j)  BY <3>1
    <3>3. z \in DOMAIN nx  BY <1>1
    <3>4. StepOf(G, z, j) = StepOf(G, y, i)  BY <2>1, <3>2
    <3>5. z = y  BY <3>3, <3>4, StepOnce
    <3>6. QED  BY <3>5
  <2>4. QED  BY <2>2, <2>3
<1>4. FirstOf(G, x) \in Steps(Path(G, x))  BY LeftIsCell DEF FirstOf
<1>5. /\ IsLine(Path(G, x)) /\ -x \in DOMAIN nx /\ Path(G, -x) = Reverse(Path(G, x))
  BY NetFacts
<1>6. Back(FirstOf(G, x)) \in Steps(Path(G, -x)) /\ FirstOf(G, x) \in UnitSteps
  BY <1>4, <1>5, StepsBack
<1>7. QED  BY <1>3, <1>4, <1>5, <1>6

\* How the winding number of a ring changes across any dart.
LEMMA Windings ==
  ASSUME NEW a, NEW G, NEW o, NEW nx, Net(a, G, o, nx), NEW d \in DOMAIN nx,
         NEW S, S = RingOfSteps(G, nx, d), NEW x \in DOMAIN nx
  PROVE  /\ x \in RingOf(nx, d) => Winding(S, LeftOf(G, x)) = Winding(S, LeftOf(G, d))
         /\ x \notin RingOf(nx, d) /\ -x \notin RingOf(nx, d)
               => Winding(S, LeftOf(G, -x)) = Winding(S, LeftOf(G, x))
         /\ x \in RingOf(nx, d) /\ -x \notin RingOf(nx, d)
               => Winding(S, LeftOf(G, -x)) = Winding(S, LeftOf(G, d)) - 1
         /\ Winding(S, LeftOf(G, x)) \in Int
         /\ Winding(S, LeftOf(G, nx[x])) = Winding(S, LeftOf(G, x))
<1>1. PICK k : k = WindingOf(S)  OBVIOUS
<1>2. /\ Balanced(S) /\ S \in SUBSET UnitSteps /\ Smooth(WallsOf(G), k)
      /\ \A y \in DOMAIN nx : k[LeftOf(G, y)] = Winding(S, LeftOf(G, y))
      /\ k \in [Cells -> Int]
  BY <1>1, RingWalls
<1>3. -x \in DOMAIN nx /\ nx[x] \in DOMAIN nx  BY NetFacts
<1>4. PICK s : s = FirstOf(G, x)  OBVIOUS
<1>5. /\ s \in S <=> x \in RingOf(nx, d)
      /\ Back(s) \in S <=> -x \in RingOf(nx, d)
      /\ s \in UnitSteps
  BY <1>4, FirstApart
<1>6. s \in Steps(Path(G, x)) /\ LeftCell(s) = LeftOf(G, x)  BY <1>4, LeftIsCell DEF FirstOf, LeftOf
<1>7. k[RightCell(s)] = k[LeftOf(G, -x)]  BY <1>2, <1>6, Sides
<1>8. LeftCell(s) \in Cells /\ RightCell(s) \in Cells /\ LeftOf(G, x) \in Cells  BY <1>6, LeftIsCell
<1>9. Winding(S, RightCell(s)) = Winding(S, LeftOf(G, -x))
  BY <1>1, <1>2, <1>3, <1>7, <1>8 DEF WindingOf
<1>10. /\ Winding(S, LeftCell(s)) = Winding(S, RightCell(s)) + Has(S, s) - Has(S, Back(s))
       /\ Winding(S, LeftCell(s)) \in Int /\ Winding(S, RightCell(s)) \in Int
  BY <1>2, <1>5, WindingAcross
<1>11. x \in RingOf(nx, d) => Winding(S, LeftOf(G, x)) = Winding(S, LeftOf(G, d))
  <2>1. x \in RingOf(nx, d) => k[LeftOf(G, x)] = k[LeftOf(G, d)]  BY <1>2, RingSide
  <2>2. QED  BY <1>2, <2>1
<1>12. Winding(S, LeftOf(G, nx[x])) = Winding(S, LeftOf(G, x))
  <2>1. k[LeftOf(G, nx[x])] = k[LeftOf(G, x)]  BY <1>2, NextSide
  <2>2. QED  BY <1>2, <1>3, <2>1
<1>13. x \notin RingOf(nx, d) /\ -x \notin RingOf(nx, d)
               => Winding(S, LeftOf(G, -x)) = Winding(S, LeftOf(G, x))
  BY <1>5, <1>6, <1>9, <1>10 DEF Has
<1>14. x \in RingOf(nx, d) /\ -x \notin RingOf(nx, d)
               => Winding(S, LeftOf(G, -x)) = Winding(S, LeftOf(G, d)) - 1
  BY <1>5, <1>6, <1>9, <1>10, <1>11 DEF Has
<1>15. QED  BY <1>6, <1>10, <1>11, <1>12, <1>13, <1>14

\* A ring that turns back on itself nowhere along edge d encloses what is on its
\* left or what is not.
LEMMA RingEncloses ==
  ASSUME NEW a, NEW G, NEW o, NEW nx, Net(a, G, o, nx), NEW d \in DOMAIN nx, -d \notin RingOf(nx, d),
         NEW S, S = RingOfSteps(G, nx, d), NEW w, w = Winding(S, LeftOf(G, d))
  PROVE  /\ w \in {0, 1} /\ \A c \in Cells : Winding(S, c) \in {w, w - 1}
         /\ Winding(S, LeftOf(G, -d)) = w - 1
         /\ ptarray_isccw(S) <=> w = 1
         /\ Winding(S, Outer) = 0
<1>1. Ringed(S, w)  BY RingRinged
<1>2. d \in RingOf(nx, d)  BY RingFacts
<1>3. PICK s : s = FirstOf(G, d)  OBVIOUS
<1>4. s \in S /\ Back(s) \notin S  BY <1>2, <1>3, FirstApart
<1>5. w \in {0, 1} /\ \A c \in Cells : Winding(S, c) \in {w, w - 1}  BY <1>1, <1>4, RingWinds
<1>6. ptarray_isccw(S) <=> w = 1  BY <1>1, <1>4, RingTurns
<1>7. Winding(S, LeftOf(G, -d)) = w - 1  BY <1>2, Windings
<1>8. Winding(S, Outer) = 0
  <2>1. WindingOf(S)[Outer] = 0  BY RingWalls
  <2>2. Outer \in Cells  BY DEF Cells
  <2>3. QED  BY <2>1, <2>2 DEF WindingOf
<1>9. QED  BY <1>5, <1>6, <1>7, <1>8

-----------------------------------------------------------------------------
(* What is inside a ring. *)

\* Around a point that no wall meets there is one region.
LEMMA AroundFree ==
  ASSUME NEW walls, NEW k, Smooth(walls, k), NEW v \in Vertices, \A w \in walls : v \notin w
  PROVE  /\ \A i \in {1, 3, 5, 7} : k[Quad(v, i)] = k[CellAt(v[1], v[2])]
         /\ \A i \in Ways : /\ k[LeftCell(Ray(v, i))] = k[CellAt(v[1], v[2])]
                            /\ k[RightCell(Ray(v, i))] = k[CellAt(v[1], v[2])]
<1>1. PICK x \in Int, y \in Int : v = <<x, y>> /\ x = v[1] /\ y = v[2]
  <2>1. v[1] \in Int /\ v[2] \in Int /\ v = <<v[1], v[2]>>  BY VertexParts
  <2>2. QED  BY <2>1
<1>2. \A i : RayWall(v, i) \notin walls  BY DEF RayWall, Ray
<1>3. /\ k[Quad(v, 7)] = k[Quad(v, 1)] /\ k[Quad(v, 1)] = k[Quad(v, 3)]
      /\ k[Quad(v, 3)] = k[Quad(v, 5)]
  BY <1>1, <1>2, AcrossRay
<1>4. Quad(v, 1) = CellAt(v[1], v[2])
  <2>1. Quad(<<x, y>>, 1) = CellAt(x, y)  BY Quads
  <2>2. QED  BY <1>1, <2>1
<1>5. /\ LeftCell(Ray(v, 0)) = Quad(v, 7) /\ RightCell(Ray(v, 0)) = Quad(v, 1)
      /\ LeftCell(Ray(v, 2)) = Quad(v, 1) /\ RightCell(Ray(v, 2)) = Quad(v, 3)
      /\ LeftCell(Ray(v, 4)) = Quad(v, 3) /\ RightCell(Ray(v, 4)) = Quad(v, 5)
      /\ LeftCell(Ray(v, 6)) = Quad(v, 5) /\ RightCell(Ray(v, 6)) = Quad(v, 7)
  BY <1>1, RayCells
<1>6. QED  BY <1>3, <1>4, <1>5 DEF Ways

\* A step to or from the point has it on both sides.
LEMMA BesideFree ==
  ASSUME NEW walls, NEW k, Smooth(walls, k), NEW v \in Vertices, \A w \in walls : v \notin w,
         NEW u \in Vertices, Adjacent(v, u)
  PROVE  /\ k[LeftCell(<<u, v>>)] = k[CellAt(v[1], v[2])]
         /\ k[LeftCell(<<v, u>>)] = k[CellAt(v[1], v[2])]
<1>1. PICK i : i = azimuth_pt_pt(v, u)  OBVIOUS
<1>2. i \in Ways /\ <<v, u>> = Ray(v, i) /\ <<v, u>> \in UnitSteps  BY <1>1, StepRay
<1>3. k[LeftCell(<<v, u>>)] = k[CellAt(v[1], v[2])] /\ k[RightCell(<<v, u>>)] = k[CellAt(v[1], v[2])]
  BY <1>2, AroundFree
<1>4. RightCell(<<v, u>>) = LeftCell(<<u, v>>)  BY DEF RightCell
<1>5. QED  BY <1>3, <1>4

\* Points that the steps of a ring meet.
Meets(S, v) == \E s \in S : v \in {s[1], s[2]}

\* How a ring winds around a point that it does not meet.
LEMMA WindFree ==
  ASSUME NEW S, Balanced(S), NEW v \in Vertices, ~Meets(S, v)
  PROVE  /\ Winding(S, v) = Winding(S, CellAt(v[1], v[2]))
         /\ \A u \in Vertices : Adjacent(v, u) =>
              /\ Winding(S, LeftCell(<<u, v>>)) = Winding(S, v)
              /\ Winding(S, LeftCell(<<v, u>>)) = Winding(S, v)
         /\ ptarray_contains_point(S, v) <=> Winding(S, v) # 0
<1>1. v[1] \in Int /\ v[2] \in Int /\ v[1] >= -1 /\ v = <<v[1], v[2]>>
  <2>1. v[1] \in 0 .. Width /\ v[2] \in 0 .. Height /\ v = <<v[1], v[2]>>  BY VertexParts
  <2>2. QED  BY <2>1, GridSize
<1>2. Winding(S, CellAt(v[1], v[2])) = Wind(S, v[1], v[2])  BY <1>1, WindCell
<1>3. Winding(S, v) = Wind(S, v[1], v[2])  BY <1>1 DEF Wind
<1>4. PICK k : k = WindingOf(S)  OBVIOUS
<1>5. PICK walls : walls = Undirected(S)  OBVIOUS
<1>6. \A w \in walls : v \notin w  BY <1>5 DEF Undirected, Meets
<1>7. \A s \in S : {s[1], s[2]} \in walls  BY <1>5 DEF Undirected
<1>8. Smooth(walls, k)  BY <1>4, <1>7, WindingSmooth
<1>9. ASSUME NEW u \in Vertices, Adjacent(v, u)
      PROVE  /\ Winding(S, LeftCell(<<u, v>>)) = Winding(S, v)
             /\ Winding(S, LeftCell(<<v, u>>)) = Winding(S, v)
  <2>1. k[LeftCell(<<u, v>>)] = k[CellAt(v[1], v[2])] /\ k[LeftCell(<<v, u>>)] = k[CellAt(v[1], v[2])]
    BY <1>6, <1>8, <1>9, BesideFree
  <2>2. Adjacent(u, v)  BY <1>9, AdjacentSymmetric
  <2>3. <<u, v>> \in UnitSteps /\ <<v, u>> \in UnitSteps  BY <1>9, <2>2, StepRay
  <2>4. LeftCell(<<u, v>>) \in Cells /\ LeftCell(<<v, u>>) \in Cells  BY <2>3, StepCells
  <2>5. CellAt(v[1], v[2]) \in Cells  BY <1>1, CellFacts
  <2>6. QED  BY <1>2, <1>3, <1>4, <2>1, <2>4, <2>5 DEF WindingOf
<1>10. ptarray_contains_point(S, v) <=> Winding(S, v) # 0
  BY DEF ptarray_contains_point, Meets
<1>11. QED  BY <1>2, <1>3, <1>9, <1>10

\* A ring meets an inner vertex of a line only if the line is part of it, and a
\* node only if a dart leaves it.
LEMMA RingMeets ==
  ASSUME NEW a, NEW G, NEW o, NEW nx, Net(a, G, o, nx), NEW d \in DOMAIN nx,
         NEW S, S = RingOfSteps(G, nx, d), NEW v, Meets(S, v)
  PROVE  /\ \A e \in DOMAIN G : v \in InteriorPoints(G[e]) => e \in RingOf(nx, d) \/ -e \in RingOf(nx, d)
         /\ \A n \in DOMAIN a : a[n] = v => \E x \in DOMAIN nx : o[x] = n
<1>1. RingOf(nx, d) \subseteq DOMAIN nx  BY RingFacts
<1>2. \A s : s \in S <=> \E x \in RingOf(nx, d) : \E i \in 1 .. Len(Path(G, x)) - 1 : s = StepOf(G, x, i)
  BY RingWalls
<1>3. PICK s \in S : v \in {s[1], s[2]}  BY DEF Meets
<1>4. PICK x \in RingOf(nx, d) : \E i \in 1 .. Len(Path(G, x)) - 1 : s = StepOf(G, x, i)  BY <1>2, <1>3
<1>5. PICK i \in 1 .. Len(Path(G, x)) - 1 : s = StepOf(G, x, i)  BY <1>4
<1>6. x \in DOMAIN nx  BY <1>1
<1>7. PICK f, h, p : f = EdgeOf(x) /\ h = G[f] /\ p = Path(G, x)  OBVIOUS
<1>8. /\ Len(p) = Len(h) /\ f \in DOMAIN G
      /\ x > 0 => i \in Places(h) /\ p[i] = h[i] /\ p[i + 1] = h[i + 1] /\ f = x
      /\ x < 0 => Len(h) - i \in Places(h) /\ p[i] = h[Len(h) - i + 1] /\ p[i + 1] = h[Len(h) - i] /\ f = -x
  BY <1>5, <1>6, <1>7, PathPlaced DEF Placed
<1>9. x \in Int /\ x # 0 /\ (x > 0 \/ x < 0)
  <2>1. x \in Int /\ x # 0  BY <1>6, NetFacts
  <2>2. QED  BY <2>1
<1>10. s[1] = p[i] /\ s[2] = p[i + 1]  BY <1>5, <1>7 DEF StepOf
<1>11. PICK j \in Places(h) : StepAt(h, j) = {s[1], s[2]}
  <2>1. CASE x > 0  BY <1>8, <1>10, <2>1 DEF StepAt
  <2>2. CASE x < 0
    <3>1. StepAt(h, Len(h) - i) = {s[2], s[1]}  BY <1>8, <1>10, <2>2 DEF StepAt
    <3>2. QED  BY <1>8, <2>2, <3>1
  <2>3. QED  BY <1>9, <2>1, <2>2
<1>12. IsLine(h)  BY <1>7, <1>8, NetFacts
<1>13. StepAt(h, j) \in WallsOf(G)  BY <1>7, <1>8, WallIs
<1>14. ASSUME NEW e \in DOMAIN G, v \in InteriorPoints(G[e])
       PROVE  e \in RingOf(nx, d) \/ -e \in RingOf(nx, d)
  <2>1. PICK c \in 2 .. Len(G[e]) - 1 : G[e][c] = v  BY <1>14, InteriorIs
  <2>2. StepAt(h, j) = StepAt(G[e], c - 1) \/ StepAt(h, j) = StepAt(G[e], c)
    <3>1. G[e][c] \in StepAt(h, j)  BY <1>3, <1>11, <2>1
    <3>2. QED  BY <1>13, <3>1, InnerWalls
  <2>3. PICK m \in Places(G[e]) : StepAt(h, j) = StepAt(G[e], m)
    <3>1. IsLine(G[e])  BY NetFacts
    <3>2. Len(G[e]) \in Nat  BY <3>1, LineFacts
    <3>3. c - 1 \in Places(G[e]) /\ c \in Places(G[e])  BY <3>2 DEF Places
    <3>4. QED  BY <2>2, <3>3
  <2>4. \A e1, f1 \in DOMAIN G : \A u \in Places(G[e1]), v1 \in Places(G[f1]) :
          StepAt(G[e1], u) = StepAt(G[f1], v1) => e1 = f1 /\ u = v1
    BY DEF Net, TakenOnce, OnceIn
  <2>5. f = e  BY <1>7, <1>8, <1>11, <2>3, <2>4
  <2>6. x = e \/ x = -e  BY <1>8, <1>9, <2>5
  <2>7. QED  BY <2>6
<1>15. ASSUME NEW n \in DOMAIN a, a[n] = v  PROVE \E y \in DOMAIN nx : o[y] = n
  <2>1. v \in StepAt(h, j)  BY <1>3, <1>11
  <2>2. v \notin InteriorPoints(h)  BY <1>7, <1>8, <1>15 DEF Net, Meeting
  <2>3. v = h[1] \/ v = Last(h)  BY <1>12, <2>1, <2>2, EndStep
  <2>4. /\ f \in DOMAIN nx /\ -f \in DOMAIN nx /\ a[o[f]] = h[1] /\ a[o[-f]] = Last(h)
        /\ o[f] \in DOMAIN a /\ o[-f] \in DOMAIN a
    BY <1>7, <1>8, NetFacts
  <2>5. \A m \in DOMAIN a : a[m] = a[n] => m = n  BY DEF Net, Meeting
  <2>6. o[f] = n \/ o[-f] = n  BY <1>15, <2>3, <2>4, <2>5
  <2>7. QED  BY <2>4, <2>6
<1>16. QED  BY <1>14, <1>15

\* EdgeInside tells whether the ring encloses what is beside the edge.
LEMMA EdgeInsideIs ==
  ASSUME NEW a, NEW G, NEW o, NEW nx, Net(a, G, o, nx), NEW d \in DOMAIN nx,
         NEW S, S = RingOfSteps(G, nx, d),
         NEW e \in DOMAIN G, e \notin RingOf(nx, d), -e \notin RingOf(nx, d)
  PROVE  /\ _lwt_EdgeInside(S, G[e]) <=> Winding(S, LeftOf(G, e)) # 0
         /\ Len(G[e]) > 2 /\ Winding(S, LeftOf(G, e)) # 0 => Winding(S, G[e][2]) # 0
<1>1. PICK g : g = G[e]  OBVIOUS
<1>2. IsLine(g) /\ Path(G, e) = g  BY <1>1, NetFacts
<1>3. /\ Len(g) \in Nat /\ g[1] \in Vertices /\ g[2] \in Vertices /\ Adjacent(g[1], g[2])
  BY <1>2, LineFacts
<1>4. LeftOf(G, e) = LeftCell(<<g[1], g[2]>>)  BY <1>2 DEF LeftOf
<1>5. CASE Len(g) > 2
  <2>1. g[2] \in InteriorPoints(g)
    <3>1. 2 \in 2 .. Len(g) - 1  BY <1>3, <1>5
    <3>2. QED  BY <3>1, InteriorIs
  <2>2. ~Meets(S, g[2])  BY <1>1, <2>1, RingMeets
  <2>3. Balanced(S)  BY RingWalls
  <2>4. Adjacent(g[2], g[1])  BY <1>3, AdjacentSymmetric
  <2>5. /\ Winding(S, LeftCell(<<g[1], g[2]>>)) = Winding(S, g[2])
        /\ ptarray_contains_point(S, g[2]) <=> Winding(S, g[2]) # 0
    BY <1>3, <2>2, <2>3, <2>4, WindFree
  <2>6. QED  BY <1>1, <1>4, <1>5, <2>5 DEF _lwt_EdgeInside
<1>6. CASE ~(Len(g) > 2)  BY <1>1, <1>4, <1>6 DEF _lwt_EdgeInside
<1>7. QED  BY <1>5, <1>6

-----------------------------------------------------------------------------
(* Boxes. *)

LEMMA MostOf ==
  ASSUME NEW N \in Nat, NEW S \in SUBSET (0 .. N), S # {}
  PROVE  Max(S) \in S /\ \A i \in S : i <= Max(S)
<1> DEFINE T == {N - i : i \in S}
<1>1. \A i \in S : i \in Int /\ i <= N /\ N - i \in Nat  OBVIOUS
<1>2. T \in SUBSET Nat /\ T # {}  BY <1>1
<1>3. Min(T) \in T /\ \A j \in T : Min(T) <= j  BY <1>2, LeastOf
<1>4. PICK m \in S : Min(T) = N - m  BY <1>3
<1>5. \A i \in S : N - m <= N - i  BY <1>3, <1>4
<1>6. \A i \in S : m >= i  BY <1>1, <1>5
<1>7. \E x \in S : \A y \in S : x >= y  BY <1>6
<1>8. Max(S) \in S /\ \A y \in S : Max(S) >= y  BY <1>7, Zenon DEF Max
<1>9. QED  BY <1>1, <1>8

\* The box of points holds them, and each of its sides meets one.
LEMMA BoxHolds ==
  ASSUME NEW P \in SUBSET Vertices, P # {}, NEW b, b = BoxOf(P)
  PROVE  /\ b = [xmin |-> b.xmin, xmax |-> b.xmax, ymin |-> b.ymin, ymax |-> b.ymax]
         /\ b.xmin \in Nat /\ b.xmax \in Nat /\ b.ymin \in Nat /\ b.ymax \in Nat
         /\ \A p \in P : b.xmin <= p[1] /\ p[1] <= b.xmax /\ b.ymin <= p[2] /\ p[2] <= b.ymax
         /\ \E p \in P : b.xmin = p[1]
         /\ \E p \in P : b.xmax = p[1]
         /\ \E p \in P : b.ymin = p[2]
         /\ \E p \in P : b.ymax = p[2]
<1> DEFINE X == {p[1] : p \in P}
           Y == {p[2] : p \in P}
<1>1. Width \in Nat /\ Height \in Nat  BY GridSize
<1>2. X \in SUBSET (0 .. Width) /\ Y \in SUBSET (0 .. Height) /\ X # {} /\ Y # {}
  BY VertexParts
<1>3. X \in SUBSET Nat /\ Y \in SUBSET Nat  BY <1>1, <1>2
<1>4. /\ \A p \in P : p[1] \in X /\ p[2] \in Y
      /\ \A i \in X : \E p \in P : i = p[1]
      /\ \A i \in Y : \E p \in P : i = p[2]
  OBVIOUS
<1>5. b = [xmin |-> Min(X), xmax |-> Max(X), ymin |-> Min(Y), ymax |-> Max(Y)]  BY DEF BoxOf
<1> HIDE DEF X, Y
<1>6. Min(X) \in X /\ Min(Y) \in Y /\ (\A i \in X : Min(X) <= i) /\ \A i \in Y : Min(Y) <= i
  BY <1>2, <1>3, LeastOf
<1>7. Max(X) \in X /\ \A i \in X : i <= Max(X)  BY <1>1, <1>2, MostOf
<1>8. Max(Y) \in Y /\ \A i \in Y : i <= Max(Y)  BY <1>1, <1>2, MostOf
<1>9. b.xmin = Min(X) /\ b.xmax = Max(X) /\ b.ymin = Min(Y) /\ b.ymax = Max(Y)  BY <1>5
<1>10. b = [xmin |-> b.xmin, xmax |-> b.xmax, ymin |-> b.ymin, ymax |-> b.ymax]  BY <1>5, <1>9
<1> HIDE <1>5
<1>11. Min(X) \in Nat /\ Max(X) \in Nat /\ Min(Y) \in Nat /\ Max(Y) \in Nat  BY <1>3, <1>6, <1>7, <1>8
<1>12. QED  BY <1>4, <1>6, <1>7, <1>8, <1>9, <1>10, <1>11

\* The points where steps start and end.
StepPoints(S) == {s[1] : s \in S} \cup {s[2] : s \in S}

\* A unit step is between vertices.
LEMMA UnitPoints ==
  ASSUME NEW s \in UnitSteps
  PROVE  s[1] \in Vertices /\ s[2] \in Vertices /\ s = <<s[1], s[2]>> /\ Adjacent(s[1], s[2])
<1>1. s \in GridSteps \/ \E t \in GridSteps : s = Back(t)  BY UnitGrid
<1>2. \A t \in GridSteps : t[1] \in Vertices /\ t[2] \in Vertices /\ t = <<t[1], t[2]>>
  <2> SUFFICES ASSUME NEW t \in GridSteps PROVE t[1] \in Vertices /\ t[2] \in Vertices /\ t = <<t[1], t[2]>>
    OBVIOUS
  <2>1. Width \in Nat /\ Height \in Nat  BY GridSize
  <2>2. CASE t \in {<<<<x, y>>, <<x + 1, y>>>> : x \in 0 .. Width - 1, y \in 0 .. Height}
    <3>1. PICK x \in 0 .. Width - 1, y \in 0 .. Height : t = <<<<x, y>>, <<x + 1, y>>>>  BY <2>2
    <3>2. x \in 0 .. Width /\ x + 1 \in 0 .. Width  BY <2>1
    <3>3. QED  BY <3>1, <3>2 DEF Vertices
  <2>3. CASE t \in {<<<<x, y>>, <<x, y + 1>>>> : x \in 0 .. Width, y \in 0 .. Height - 1}
    <3>1. PICK x \in 0 .. Width, y \in 0 .. Height - 1 : t = <<<<x, y>>, <<x, y + 1>>>>  BY <2>3
    <3>2. y \in 0 .. Height /\ y + 1 \in 0 .. Height  BY <2>1
    <3>3. QED  BY <3>1, <3>2 DEF Vertices
  <2>4. QED  BY <2>2, <2>3 DEF GridSteps
<1>3. QED  BY <1>1, <1>2 DEF Back, Adjacent

\* The box of steps holds them.
LEMMA StepsBoxHolds ==
  ASSUME NEW S \in SUBSET UnitSteps, S # {}, NEW b, b = StepsBox(S)
  PROVE  /\ b.xmin \in Nat /\ b.xmax \in Nat /\ b.ymin \in Nat /\ b.ymax \in Nat
         /\ \A s \in S : \A p \in {s[1], s[2]} :
              b.xmin <= p[1] /\ p[1] <= b.xmax /\ b.ymin <= p[2] /\ p[2] <= b.ymax
         /\ b = BoxOf(StepPoints(S)) /\ StepPoints(S) \in SUBSET Vertices /\ StepPoints(S) # {}
<1>1. StepPoints(S) \in SUBSET Vertices  BY UnitPoints DEF StepPoints
<1>2. StepPoints(S) # {}  BY DEF StepPoints
<1>3. b = BoxOf(StepPoints(S))  BY DEF StepsBox, StepPoints
<1>4. \A s \in S : s[1] \in StepPoints(S) /\ s[2] \in StepPoints(S)  BY DEF StepPoints
<1>5. QED  BY <1>1, <1>2, <1>3, <1>4, BoxHolds

\* What a balanced set of steps winds around is in its box.
LEMMA Boxed ==
  ASSUME NEW S, Balanced(S), NEW x \in Int, x >= -1, NEW y \in Int, Wind(S, x, y) # 0,
         NEW b, b = StepsBox(S)
  PROVE  /\ S # {} /\ b.xmin <= x /\ x + 1 <= b.xmax /\ b.ymin <= y /\ y + 1 <= b.ymax
<1>1. S \in SUBSET UnitSteps /\ IsFiniteSet(S)  BY DEF Balanced
<1>2. Wind(S, x, y) = Cardinality(Ups(S, x, y)) - Cardinality(Downs(S, x, y))  BY WindIs
<1>3. Cardinality({}) = 0  BY FS_EmptySet
<1>4. Ups(S, x, y) # {} \/ Downs(S, x, y) # {}
  <2> SUFFICES ASSUME Ups(S, x, y) = {}, Downs(S, x, y) = {} PROVE FALSE  OBVIOUS
  <2>1. Cardinality(Ups(S, x, y)) = 0 /\ Cardinality(Downs(S, x, y)) = 0  BY <1>3
  <2>2. QED  BY <1>2, <2>1
<1>5. PICK s \in S : /\ s[1][1] > x
                     /\ \/ s[2][2] - s[1][2] = 1 /\ s[1][2] = y
                        \/ s[2][2] - s[1][2] = -1 /\ s[2][2] = y
  BY <1>4 DEF Ups, Downs
<1>6. /\ b.xmin \in Nat /\ b.xmax \in Nat /\ b.ymin \in Nat /\ b.ymax \in Nat
      /\ \A t \in S : \A p \in {t[1], t[2]} :
              b.xmin <= p[1] /\ p[1] <= b.xmax /\ b.ymin <= p[2] /\ p[2] <= b.ymax
  BY <1>1, <1>5, StepsBoxHolds
<1>7. \A t \in S : t[1][1] \in Int /\ t[1][2] \in Int /\ t[2][1] \in Int /\ t[2][2] \in Int
  BY <1>1, UpDown
<1>8. /\ s[1][1] <= b.xmax /\ b.ymin <= s[1][2] /\ s[1][2] <= b.ymax
      /\ b.ymin <= s[2][2] /\ s[2][2] <= b.ymax
  BY <1>5, <1>6
<1>9. x + 1 <= b.xmax  BY <1>5, <1>6, <1>7, <1>8
<1>10. b.ymin <= y /\ y + 1 <= b.ymax  BY <1>5, <1>6, <1>7, <1>8
<1>11. b.xmin <= x
  <2> SUFFICES ASSUME ~(b.xmin <= x) PROVE FALSE  OBVIOUS
  <2>1. \A t \in S : t[1][1] > x
    <3>1. \A t \in S : b.xmin <= t[1][1]  BY <1>6
    <3>2. QED  BY <1>6, <1>7, <3>1
  <2>2. \A t \in S : t[1][1] > -1  BY <1>7, <2>1
  <2>3. Ups(S, x, y) = Ups(S, -1, y) /\ Downs(S, x, y) = Downs(S, -1, y)
    BY <2>1, <2>2 DEF Ups, Downs
  <2>4. Wind(S, -1, y) = Cardinality(Ups(S, -1, y)) - Cardinality(Downs(S, -1, y))
    <3>1. -1 \in Int  OBVIOUS
    <3>2. QED  BY <3>1, WindIs
  <2>5. Wind(S, -1, y) = 0  BY WindBefore
  <2>6. QED  BY <1>2, <2>3, <2>4, <2>5
<1>12. QED  BY <1>5, <1>9, <1>10, <1>11

\* A step that has such a cell on its left starts and ends in the box.
LEMMA BesideBoxed ==
  ASSUME NEW S, Balanced(S), NEW s \in UnitSteps, Winding(S, LeftCell(s)) # 0,
         NEW b, b = StepsBox(S)
  PROVE  /\ S # {} /\ b.xmin <= s[1][1] /\ s[1][1] <= b.xmax /\ b.ymin <= s[1][2] /\ s[1][2] <= b.ymax
         /\ b.xmin <= s[2][1] /\ s[2][1] <= b.xmax /\ b.ymin <= s[2][2] /\ s[2][2] <= b.ymax
<1>1. PICK x, y \in Int :
           \/ s = East(x, y) /\ x \in 0 .. Width - 1 /\ y \in 0 .. Height
           \/ s = West(x, y) /\ x \in 0 .. Width - 1 /\ y \in 0 .. Height
           \/ s = North(x, y) /\ x \in 0 .. Width /\ y \in 0 .. Height - 1
           \/ s = South(x, y) /\ x \in 0 .. Width /\ y \in 0 .. Height - 1
  BY UnitCases
<1>2. S \in SUBSET UnitSteps  BY DEF Balanced
<1>3. S # {} => b.xmin \in Nat /\ b.xmax \in Nat /\ b.ymin \in Nat /\ b.ymax \in Nat
  BY <1>2, StepsBoxHolds
<1>4. ASSUME NEW p \in Int, NEW q \in Int, p >= -1, LeftCell(s) = CellAt(p, q)
      PROVE  S # {} /\ b.xmin <= p /\ p + 1 <= b.xmax /\ b.ymin <= q /\ q + 1 <= b.ymax
  <2>1. Wind(S, p, q) # 0  BY <1>4, WindCell
  <2>2. QED  BY <1>4, <2>1, Boxed
<1>5. Width \in Int /\ Height \in Int  BY GridSize
<1>6. CASE s = East(x, y) /\ x \in 0 .. Width - 1 /\ y \in 0 .. Height
  <2>1. LeftCell(s) = CellAt(x, y) /\ x >= -1  BY <1>6, EastStep
  <2>2. S # {} /\ b.xmin <= x /\ x + 1 <= b.xmax /\ b.ymin <= y /\ y + 1 <= b.ymax  BY <1>4, <2>1
  <2>3. s[1][1] = x /\ s[1][2] = y /\ s[2][1] = x + 1 /\ s[2][2] = y  BY <1>6 DEF East
  <2>4. QED  BY <1>3, <2>2, <2>3
<1>7. CASE s = West(x, y) /\ x \in 0 .. Width - 1 /\ y \in 0 .. Height
  <2>1. LeftCell(s) = CellAt(x, y - 1) /\ x >= -1 /\ y - 1 \in Int  BY <1>7, EastStep
  <2>2. S # {} /\ b.xmin <= x /\ x + 1 <= b.xmax /\ b.ymin <= y - 1 /\ y - 1 + 1 <= b.ymax
    BY <1>4, <2>1
  <2>3. s[1][1] = x + 1 /\ s[1][2] = y /\ s[2][1] = x /\ s[2][2] = y  BY <1>7 DEF West
  <2>4. QED  BY <1>3, <2>2, <2>3
<1>8. CASE s = North(x, y) /\ x \in 0 .. Width /\ y \in 0 .. Height - 1
  <2>1. LeftCell(s) = CellAt(x - 1, y) /\ x - 1 >= -1 /\ x - 1 \in Int  BY <1>5, <1>8, NorthStep
  <2>2. S # {} /\ b.xmin <= x - 1 /\ x - 1 + 1 <= b.xmax /\ b.ymin <= y /\ y + 1 <= b.ymax
    BY <1>4, <2>1
  <2>3. s[1][1] = x /\ s[1][2] = y /\ s[2][1] = x /\ s[2][2] = y + 1  BY <1>8 DEF North
  <2>4. QED  BY <1>3, <2>2, <2>3
<1>9. CASE s = South(x, y) /\ x \in 0 .. Width /\ y \in 0 .. Height - 1
  <2>1. LeftCell(s) = CellAt(x, y) /\ x >= -1  BY <1>5, <1>9, NorthStep
  <2>2. S # {} /\ b.xmin <= x /\ x + 1 <= b.xmax /\ b.ymin <= y /\ y + 1 <= b.ymax  BY <1>4, <2>1
  <2>3. s[1][1] = x /\ s[1][2] = y + 1 /\ s[2][1] = x /\ s[2][2] = y  BY <1>9 DEF South
  <2>4. QED  BY <1>3, <2>2, <2>3
<1>10. QED  BY <1>1, <1>6, <1>7, <1>8, <1>9

\* A point is within a box that overlaps that of any points with it.
LEMMA OverlapAt ==
  ASSUME NEW P \in SUBSET Vertices, NEW p \in P, NEW b,
         b.xmin <= p[1] /\ p[1] <= b.xmax /\ b.ymin <= p[2] /\ p[2] <= b.ymax,
         b.xmin \in Nat /\ b.xmax \in Nat /\ b.ymin \in Nat /\ b.ymax \in Nat
  PROVE  BoxesOverlap(BoxOf(P), b)
<1>1. PICK c : c = BoxOf(P)  OBVIOUS
<1>2. /\ c.xmin \in Nat /\ c.xmax \in Nat /\ c.ymin \in Nat /\ c.ymax \in Nat
      /\ c.xmin <= p[1] /\ p[1] <= c.xmax /\ c.ymin <= p[2] /\ p[2] <= c.ymax
  BY <1>1, BoxHolds
<1>3. p[1] \in Int /\ p[2] \in Int  BY VertexParts
<1>4. BoxesOverlap(c, b)  BY <1>2, <1>3 DEF BoxesOverlap
<1>5. QED  BY <1>1, <1>4

-----------------------------------------------------------------------------
(* What AddFaceSplit does along a ring. *)

LEMMA NotRing ==
  ASSUME NEW a, NEW G, NEW o, NEW nx, Net(a, G, o, nx), NEW d \in DOMAIN nx, -d \notin RingOf(nx, d),
         NEW S, S = RingOfSteps(G, nx, d), NEW w, w = Winding(S, LeftOf(G, d)),
         NEW b, b = StepsBox(S), NEW x \in DOMAIN nx, NEW e, e = EdgeOf(x)
  PROVE  /\ e \in RingOf(nx, d) \/ -e \in RingOf(nx, d) <=> x \in RingOf(nx, d) \/ -x \in RingOf(nx, d)
         /\ x \in RingOf(nx, d) => Winding(S, LeftOf(G, x)) = w
         /\ x \notin RingOf(nx, d) /\ -x \in RingOf(nx, d) => Winding(S, LeftOf(G, x)) # w
         /\ x \notin RingOf(nx, d) /\ -x \notin RingOf(nx, d) =>
              /\ Winding(S, LeftOf(G, x)) \in {w, w - 1}
              /\ _lwt_EdgeInside(S, G[e]) <=> Winding(S, LeftOf(G, x)) # 0
              /\ Winding(S, LeftOf(G, x)) # 0 => BoxesOverlap(BoxOf(Range(G[e])), b)
         /\ _lwt_EdgeInside(S, G[e]) \in BOOLEAN
<1>1. /\ w \in {0, 1} /\ \A c \in Cells : Winding(S, c) \in {w, w - 1}  BY RingEncloses
<1>2. /\ x \in Int /\ x # 0 /\ -x \in DOMAIN nx /\ -(-x) = x /\ e \in DOMAIN G  BY NetFacts
<1>3. e \in {x, -x} /\ {e, -e} = {x, -x}  BY <1>2 DEF EdgeOf
<1>4. x \in RingOf(nx, d) => Winding(S, LeftOf(G, x)) = w  BY Windings
<1>5. ASSUME x \notin RingOf(nx, d), -x \in RingOf(nx, d)  PROVE Winding(S, LeftOf(G, x)) # w
  <2>1. PICK y \in DOMAIN nx : y = -x /\ -y = x  BY <1>2
  <2>2. y \in RingOf(nx, d) /\ -y \notin RingOf(nx, d)  BY <1>5, <2>1
  <2>3. Winding(S, LeftOf(G, -y)) = Winding(S, LeftOf(G, d)) - 1  BY <2>2, Windings
  <2>4. QED  BY <1>1, <2>1, <2>3
<1>6. ASSUME x \notin RingOf(nx, d), -x \notin RingOf(nx, d)
      PROVE  /\ Winding(S, LeftOf(G, x)) \in {w, w - 1}
             /\ _lwt_EdgeInside(S, G[e]) <=> Winding(S, LeftOf(G, x)) # 0
             /\ Winding(S, LeftOf(G, x)) # 0 => BoxesOverlap(BoxOf(Range(G[e])), b)
  <2>1. e \notin RingOf(nx, d) /\ -e \notin RingOf(nx, d)  BY <1>3, <1>6
  <2>2. _lwt_EdgeInside(S, G[e]) <=> Winding(S, LeftOf(G, e)) # 0  BY <1>2, <2>1, EdgeInsideIs
  <2>3. Winding(S, LeftOf(G, -x)) = Winding(S, LeftOf(G, x))  BY <1>6, Windings
  <2>4. Winding(S, LeftOf(G, e)) = Winding(S, LeftOf(G, x))  BY <1>3, <2>3
  <2>5. LeftOf(G, x) \in Cells  BY LeftIsCell
  <2>6. ASSUME Winding(S, LeftOf(G, x)) # 0  PROVE BoxesOverlap(BoxOf(Range(G[e])), b)
    <3>1. PICK s : s = FirstOf(G, e)  OBVIOUS
    <3>2. e \in DOMAIN nx /\ IsLine(G[e]) /\ Path(G, e) = G[e]  BY <1>2, NetFacts
    <3>3. s \in UnitSteps /\ LeftCell(s) = LeftOf(G, e) /\ s[1] = G[e][1]
      BY <3>1, <3>2, FirstApart DEF FirstOf, LeftOf
    <3>4. Balanced(S) /\ S \in SUBSET UnitSteps  BY RingWalls
    <3>5. Winding(S, LeftCell(s)) # 0  BY <2>4, <2>6, <3>3
    <3>6. S # {} /\ b.xmin <= s[1][1] /\ s[1][1] <= b.xmax /\ b.ymin <= s[1][2] /\ s[1][2] <= b.ymax
      BY <3>3, <3>4, <3>5, BesideBoxed
    <3>7. b.xmin \in Nat /\ b.xmax \in Nat /\ b.ymin \in Nat /\ b.ymax \in Nat
      BY <3>4, <3>6, StepsBoxHolds
    <3>8. Range(G[e]) \in SUBSET Vertices /\ G[e][1] \in Range(G[e])
      <4>1. /\ G[e] \in [1 .. Len(G[e]) -> Vertices] /\ Len(G[e]) \in Nat /\ Len(G[e]) > 1
        BY <3>2, LineFacts
      <4>2. DOMAIN G[e] = 1 .. Len(G[e]) /\ 1 \in 1 .. Len(G[e])  BY <4>1
      <4>3. QED  BY <4>1, <4>2 DEF Range
    <3>9. QED  BY <3>3, <3>6, <3>7, <3>8, OverlapAt
  <2>7. QED  BY <1>1, <2>2, <2>4, <2>5, <2>6
<1>7. _lwt_EdgeInside(S, G[e]) \in BOOLEAN
  BY DEF _lwt_EdgeInside, ptarray_contains_point
<1>8. QED  BY <1>3, <1>4, <1>5, <1>6, <1>7

\* The same for a node that no dart leaves.
LEMMA NodeInside ==
  ASSUME NEW a, NEW G, NEW o, NEW nx, Net(a, G, o, nx), NEW d \in DOMAIN nx, -d \notin RingOf(nx, d),
         NEW S, S = RingOfSteps(G, nx, d), NEW w, w = Winding(S, LeftOf(G, d)),
         NEW b, b = StepsBox(S), NEW n \in DOMAIN a, \A x \in DOMAIN nx : o[x] # n
  PROVE  /\ Winding(S, a[n]) = Winding(S, CellAt(a[n][1], a[n][2]))
         /\ Winding(S, a[n]) \in {w, w - 1}
         /\ ptarray_contains_point(S, a[n]) <=> Winding(S, a[n]) # 0
         /\ ptarray_contains_point(S, a[n]) \in BOOLEAN
         /\ Winding(S, a[n]) # 0 => BoxesOverlap(BoxOf({a[n]}), b)
<1>1. \A c \in Cells : Winding(S, c) \in {w, w - 1}  BY RingEncloses
<1>2. PICK v : v = a[n]  OBVIOUS
<1>3. v \in Vertices  BY <1>2, NetFacts
<1>4. ~Meets(S, v)  BY <1>2, RingMeets
<1>5. Balanced(S) /\ S \in SUBSET UnitSteps  BY RingWalls
<1>6. /\ Winding(S, v) = Winding(S, CellAt(v[1], v[2]))
      /\ ptarray_contains_point(S, v) <=> Winding(S, v) # 0
  BY <1>3, <1>4, <1>5, WindFree
<1>7. v[1] \in Int /\ v[2] \in Int /\ v[1] >= -1 /\ v = <<v[1], v[2]>>
  <2>1. v[1] \in 0 .. Width /\ v[2] \in 0 .. Height /\ v = <<v[1], v[2]>>  BY <1>3, VertexParts
  <2>2. QED  BY <2>1, GridSize
<1>8. CellAt(v[1], v[2]) \in Cells  BY <1>7, CellFacts
<1>9. ASSUME Winding(S, v) # 0  PROVE BoxesOverlap(BoxOf({v}), b)
  <2>1. Wind(S, v[1], v[2]) # 0  BY <1>7, <1>9 DEF Wind
  <2>2. S # {} /\ b.xmin <= v[1] /\ v[1] + 1 <= b.xmax /\ b.ymin <= v[2] /\ v[2] + 1 <= b.ymax
    BY <1>5, <1>7, <2>1, Boxed
  <2>3. b.xmin \in Nat /\ b.xmax \in Nat /\ b.ymin \in Nat /\ b.ymax \in Nat
    BY <1>5, <2>2, StepsBoxHolds
  <2>4. v[1] <= b.xmax /\ v[2] <= b.ymax  BY <1>7, <2>2, <2>3
  <2>5. {v} \in SUBSET Vertices /\ v \in {v}  BY <1>3
  <2>6. QED  BY <2>2, <2>3, <2>4, <2>5, OverlapAt
<1>10. ptarray_contains_point(S, v) \in BOOLEAN  BY DEF ptarray_contains_point
<1>11. QED  BY <1>1, <1>2, <1>6, <1>8, <1>9, <1>10

\* Face f, of tables t, is split: new gets what the ring S winds around w times.
SplitOf(t, r, S, w, G, f, new) ==
  /\ r.id = new
  /\ r.face = WithEdge(t.face, new, IF w = 0 THEN t.face[f] ELSE StepsBox(S))
  /\ r.side = [x \in DOMAIN t.side |->
                 IF t.side[x] = f /\ Winding(S, LeftOf(G, x)) = w THEN new ELSE t.side[x]]
  /\ r.inface = [n \in DOMAIN at |->
                   IF t.inface[n] = f /\ Winding(S, at[n]) = w THEN new ELSE t.inface[n]]
  /\ r = [id |-> r.id, face |-> r.face, side |-> r.side, inface |-> r.inface]

\* A split of face f along the ring of d finds the tables in order.
Ready(t, o, nx, d, f) ==
  /\ DOMAIN t.side = DOMAIN nx
  /\ \A x \in RingOf(nx, d) : t.side[x] = f
  /\ \A n \in DOMAIN at : t.inface[n] = f => \A x \in DOMAIN nx : o[x] # n

\* What the split makes of tables t: nothing, a new box, or a new face.
SplitsTo(t, r, S, w, G, f, mbr_only) ==
  /\ f = Universe /\ w = 0 => r = [t EXCEPT !.id = None]
  /\ mbr_only /\ f # Universe
       => r = [t EXCEPT !.id = None, !.face[f] = IF w = 1 THEN StepsBox(S) ELSE @]
  /\ (f = Universe => w = 1) /\ (f # Universe => ~mbr_only)
       => SplitOf(t, r, S, w, G, f, FreeFace(t.face))

\* What AddFaceSplit makes of the ring of a dart that is not taken back.
LEMMA RingSplit ==
  ASSUME NEW G, NEW o, NEW nx, Net(at, G, o, nx), NEW d \in DOMAIN nx, -d \notin RingOf(nx, d),
         NEW S, S = RingOfSteps(G, nx, d), NEW w, w = Winding(S, LeftOf(G, d)),
         NEW t, NEW f, Ready(t, o, nx, d, f),
         NEW mbr_only, NEW r, r = _lwt_AddFaceSplit(t, nx, G, d, f, mbr_only)
  PROVE  SplitsTo(t, r, S, w, G, f, mbr_only)
<1> DEFINE ring      == getRingEdges(nx, d)
           inRing(e) == e \in ring \/ -e \in ring
           new       == FreeFace(t.face)
           outside(isccw) == f # Universe /\ ~isccw
           inReach(points, box, isccw) == outside(isccw) \/ BoxesOverlap(BoxOf(points), box)
           moves(e, shell, box, isccw) ==
             /\ ~inRing(e)
             /\ inReach(Range(G[e]), box, isccw)
             /\ _lwt_EdgeInside(shell, G[e]) # outside(isccw)
           F(box, isccw) == WithEdge(t.face, new, IF outside(isccw) THEN t.face[f] ELSE box)
           goes(x, shell, box, isccw) ==
             \/ x \in ring
             \/ t.side[x] = f /\ moves(IF x > 0 THEN x ELSE -x, shell, box, isccw)
           s(shell, box, isccw) ==
             [x \in DOMAIN t.side |-> IF goes(x, shell, box, isccw) THEN new ELSE t.side[x]]
           there(n, shell, box, isccw) ==
             /\ t.inface[n] = f
             /\ inReach({at[n]}, box, isccw)
             /\ ptarray_contains_point(shell, at[n]) # outside(isccw)
           in(shell, box, isccw) ==
             [n \in DOMAIN at |-> IF there(n, shell, box, isccw) THEN new ELSE t.inface[n]]
           along(shell, box, isccw) ==
             IF f = Universe /\ ~isccw THEN [t EXCEPT !.id = None]
             ELSE IF mbr_only /\ f # Universe
             THEN [t EXCEPT !.id = None, !.face[f] = IF isccw THEN box ELSE @]
             ELSE [id |-> new, face |-> F(box, isccw), side |-> s(shell, box, isccw),
                   inface |-> in(shell, box, isccw)]
           around(shell) == along(shell, StepsBox(shell), ptarray_isccw(shell))
           b == StepsBox(S)
           ccw == ptarray_isccw(S)
<1>1. r = along(S, b, ccw)
  <2>1. r = IF -d \in ring THEN [t EXCEPT !.id = 0] ELSE around(RingSteps(G, ring))
    BY DEF _lwt_AddFaceSplit
  <2>2. S = RingSteps(G, ring) /\ -d \notin ring  BY DEF RingOfSteps, RingOf
  <2>3. r = around(S)  BY <2>1, <2>2
  <2>4. QED  BY <2>3
<1>0. /\ DOMAIN t.side = DOMAIN nx /\ \A x \in RingOf(nx, d) : t.side[x] = f
      /\ \A n \in DOMAIN at : t.inface[n] = f => \A x \in DOMAIN nx : o[x] # n
  BY DEF Ready
<1>2. ccw <=> w = 1  BY RingEncloses
<1>3. w \in {0, 1}  BY RingEncloses
<1>4. ccw \in BOOLEAN  BY DEF ptarray_isccw
<1>5. ring = RingOf(nx, d)  BY DEF RingOf
<1> HIDE DEF ccw, b
<1>6. f = Universe /\ w = 0 => r = [t EXCEPT !.id = None]  BY <1>1, <1>2
<1>7. mbr_only /\ f # Universe
              => r = [t EXCEPT !.id = None, !.face[f] = IF w = 1 THEN b ELSE @]
  <2> SUFFICES ASSUME mbr_only, f # Universe
               PROVE  r = [t EXCEPT !.id = None, !.face[f] = IF w = 1 THEN b ELSE @]
    OBVIOUS
  <2>1. r = [t EXCEPT !.id = None, !.face[f] = IF ccw THEN b ELSE @]  BY <1>1
  <2>2. CASE w = 1  BY <1>2, <2>1, <2>2
  <2>3. CASE w # 1  BY <1>2, <2>1, <2>3
  <2>4. QED  BY <2>2, <2>3
<1>8. ASSUME f = Universe => w = 1, f # Universe => ~mbr_only
      PROVE  SplitOf(t, r, S, w, G, f, new)
  <2>1. r = [id |-> new, face |-> F(b, ccw), side |-> s(S, b, ccw), inface |-> in(S, b, ccw)]
    BY <1>1, <1>2, <1>8
  <2>2. outside(ccw) <=> w = 0  BY <1>2, <1>3, <1>8
  <2>3. outside(ccw) \in BOOLEAN  OBVIOUS
  <2>4. F(b, ccw) = WithEdge(t.face, new, IF w = 0 THEN t.face[f] ELSE b)
    <3>1. CASE w = 0  BY <2>2, <3>1
    <3>2. CASE w # 0  BY <2>2, <3>2
    <3>3. QED  BY <3>1, <3>2
  <2>5. s(S, b, ccw) = [x \in DOMAIN t.side |->
                 IF t.side[x] = f /\ Winding(S, LeftOf(G, x)) = w THEN new ELSE t.side[x]]
    <3>1. ASSUME NEW x \in DOMAIN t.side
          PROVE  goes(x, S, b, ccw) <=> t.side[x] = f /\ Winding(S, LeftOf(G, x)) = w
      <4>1. PICK e : e = EdgeOf(x)  OBVIOUS
      <4>2. x \in DOMAIN nx  BY <1>0
      <4>3. /\ e \in ring \/ -e \in ring <=> x \in ring \/ -x \in ring
            /\ x \in ring => Winding(S, LeftOf(G, x)) = w
            /\ x \notin ring /\ -x \in ring => Winding(S, LeftOf(G, x)) # w
            /\ x \notin ring /\ -x \notin ring =>
                 /\ Winding(S, LeftOf(G, x)) \in {w, w - 1}
                 /\ _lwt_EdgeInside(S, G[e]) <=> Winding(S, LeftOf(G, x)) # 0
                 /\ Winding(S, LeftOf(G, x)) # 0 => BoxesOverlap(BoxOf(Range(G[e])), b)
            /\ _lwt_EdgeInside(S, G[e]) \in BOOLEAN
        BY <1>5, <4>1, <4>2, NotRing DEF b
      <4>4. x \in ring => t.side[x] = f  BY <1>0, <1>5
      <4>5. (IF x > 0 THEN x ELSE -x) = e  BY <4>1 DEF EdgeOf
      <4>10. goes(x, S, b, ccw) <=> x \in ring \/ (t.side[x] = f /\ moves(e, S, b, ccw))
        BY <4>5
      <4> HIDE DEF ring, outside, goes
      <4>6. CASE x \in ring
        <5> HIDE DEF moves
        <5>1. QED  BY <4>3, <4>4, <4>6, <4>10
      <4>7. CASE x \notin ring /\ -x \in ring
        <5>1. ~moves(e, S, b, ccw)  BY <4>3, <4>7
        <5> HIDE DEF moves
        <5>2. QED  BY <4>3, <4>7, <4>10, <5>1
      <4>8. CASE x \notin ring /\ -x \notin ring
        <5>1. ~(e \in ring \/ -e \in ring)  BY <4>3, <4>8
        <5>2. moves(e, S, b, ccw) <=> Winding(S, LeftOf(G, x)) = w
          <6>1. PICK m : m = Winding(S, LeftOf(G, x))  OBVIOUS
          <6>2. m \in {w, w - 1} /\ (_lwt_EdgeInside(S, G[e]) <=> m # 0)
                /\ (m # 0 => BoxesOverlap(BoxOf(Range(G[e])), b)) /\ _lwt_EdgeInside(S, G[e]) \in BOOLEAN
            BY <4>3, <4>8, <6>1
          <6>3. CASE w = 0
            <7>1. outside(ccw) = TRUE  BY <2>2, <2>3, <6>3
            <7>2. moves(e, S, b, ccw) <=> _lwt_EdgeInside(S, G[e]) # TRUE  BY <5>1, <7>1
            <7>3. moves(e, S, b, ccw) <=> m = 0  BY <6>2, <7>2
            <7>4. QED  BY <6>1, <6>3, <7>3
          <6>4. CASE w # 0
            <7>1. outside(ccw) = FALSE  BY <2>2, <2>3, <6>4
            <7>2. moves(e, S, b, ccw) <=> BoxesOverlap(BoxOf(Range(G[e])), b) /\ _lwt_EdgeInside(S, G[e]) # FALSE
              BY <5>1, <7>1
            <7>3. moves(e, S, b, ccw) <=> m # 0  BY <6>2, <7>2
            <7>4. m # 0 <=> m = w
              <8>1. w = 1 /\ w - 1 = 0  BY <1>3, <6>4
              <8>2. QED  BY <6>2, <8>1
            <7>5. QED  BY <6>1, <7>3, <7>4
          <6>5. QED  BY <6>3, <6>4
        <5> HIDE DEF moves
        <5>3. QED  BY <4>8, <4>10, <5>2
      <4>9. QED  BY <4>6, <4>7, <4>8
    <3> DEFINE C1(x) == goes(x, S, b, ccw)
               C2(x) == t.side[x] = f /\ Winding(S, LeftOf(G, x)) = w
    <3> HIDE DEF goes
    <3>2. \A x \in DOMAIN t.side : C1(x) <=> C2(x)  BY <3>1
    <3> HIDE DEF new
    <3>3. s(S, b, ccw) = [x \in DOMAIN t.side |-> IF C1(x) THEN new ELSE t.side[x]]  OBVIOUS
    <3> HIDE DEF C1, C2, s
    <3>4. [x \in DOMAIN t.side |-> IF C1(x) THEN new ELSE t.side[x]]
            = [x \in DOMAIN t.side |-> IF C2(x) THEN new ELSE t.side[x]]
      BY <3>2
    <3>5. QED  BY <3>3, <3>4 DEF C2
  <2>6. in(S, b, ccw) = [n \in DOMAIN at |->
                   IF t.inface[n] = f /\ Winding(S, at[n]) = w THEN new ELSE t.inface[n]]
    <3>1. ASSUME NEW n \in DOMAIN at, t.inface[n] = f
          PROVE  there(n, S, b, ccw) <=> Winding(S, at[n]) = w
      <4>1. \A x \in DOMAIN nx : o[x] # n  BY <1>0, <3>1
      <4>2. PICK m : m = Winding(S, at[n])  OBVIOUS
      <4>3. m \in {w, w - 1} /\ (ptarray_contains_point(S, at[n]) <=> m # 0)
            /\ (m # 0 => BoxesOverlap(BoxOf({at[n]}), b)) /\ ptarray_contains_point(S, at[n]) \in BOOLEAN
        BY <4>1, <4>2, NodeInside DEF b
      <4> HIDE DEF outside
      <4>4. CASE w = 0
        <5>1. outside(ccw) = TRUE  BY <2>2, <2>3, <4>4
        <5>2. ptarray_contains_point(S, at[n]) # outside(ccw) <=> m = 0  BY <4>3, <5>1
        <5>3. QED  BY <3>1, <4>2, <4>4, <5>1, <5>2
      <4>5. CASE w # 0
        <5>1. outside(ccw) = FALSE  BY <2>2, <2>3, <4>5
        <5>2. ptarray_contains_point(S, at[n]) # outside(ccw) <=> m # 0  BY <4>3, <5>1
        <5>3. m # 0 <=> m = w
          <6>1. w = 1 /\ w - 1 = 0  BY <1>3, <4>5
          <6>2. QED  BY <4>3, <6>1
        <5>4. QED  BY <3>1, <4>2, <4>3, <5>1, <5>2, <5>3
      <4>6. QED  BY <4>4, <4>5
    <3> DEFINE C1(n) == there(n, S, b, ccw)
               C2(n) == t.inface[n] = f /\ Winding(S, at[n]) = w
    <3>4. \A n \in DOMAIN at : there(n, S, b, ccw) => t.inface[n] = f  OBVIOUS
    <3> HIDE DEF there
    <3>2. \A n \in DOMAIN at : C1(n) <=> C2(n)  BY <3>1, <3>4
    <3> HIDE DEF new
    <3>3. in(S, b, ccw) = [n \in DOMAIN at |-> IF C1(n) THEN new ELSE t.inface[n]]  OBVIOUS
    <3> HIDE DEF C1, C2, in
    <3>5. [n \in DOMAIN at |-> IF C1(n) THEN new ELSE t.inface[n]]
            = [n \in DOMAIN at |-> IF C2(n) THEN new ELSE t.inface[n]]
      BY <3>2
    <3>6. QED  BY <3>3, <3>5 DEF C2
  <2> HIDE DEF F, s, in, new
  <2>7. QED  BY <2>1, <2>4, <2>5, <2>6 DEF SplitOf, b
<1>9. QED  BY <1>6, <1>7, <1>8 DEF b, SplitsTo
=============================================================================
