----------------------------- MODULE FindProofs -----------------------------
(***************************************************************************)
(* Looking up the face of a point, and what holds after any calls.         *)
(*                                                                         *)
(* GetFaceContainingPoint takes the nearest edge and tells on which side   *)
(* of it the point is, by the segment that is nearest, or at a vertex by   *)
(* the bend.  On the way from the point to where that edge is nearest      *)
(* there is no wall, so the face of the side is that of the point.  With   *)
(* it, nodes get the right face, and the faces stay those of the plane     *)
(* after any sequence of calls that moves no line.                         *)
(*                                                                         *)
(* Rows of relation then name only faces that there are, and a split or a  *)
(* merge of faces rewrites them so that each cell stays in the same        *)
(* TopoGeometries: their shapes never change.                              *)
(*                                                                         *)
(* Last, what lwt_Polygonize finds all at once.  The west side of the      *)
(* first cell of a region in its row belongs to one ring, so a region has  *)
(* one shell; what a shell has inside is not linked to it, so each ring    *)
(* there is in a smaller box; and the shell of the region that a ring      *)
(* faces has the smallest box of all those around it.                      *)
(***************************************************************************)
EXTENDS FaceProofs, Polygonize

-----------------------------------------------------------------------------
(* Which face a point is in. *)

\* How far x is from the numbers from lo to hi.
Off(lo, hi, x) == IF x < lo THEN lo - x ELSE IF x > hi THEN x - hi ELSE 0

\* No wall comes nearer to q than A to the west and east and B to the south and
\* north, nor as near as that but at the corners.
Bare(W, q, A, B) ==
  \A x, y \in Int :
    /\ /\ Off(2 * x, 2 * x, q[1]) <= A /\ Off(2 * y, 2 * y + 2, q[2]) <= B
       /\ Off(2 * x, 2 * x, q[1]) < A \/ Off(2 * y, 2 * y + 2, q[2]) < B
       => {<<x, y>>, <<x, y + 1>>} \notin W
    /\ /\ Off(2 * x, 2 * x + 2, q[1]) <= A /\ Off(2 * y, 2 * y, q[2]) <= B
       /\ Off(2 * x, 2 * x + 2, q[1]) < A \/ Off(2 * y, 2 * y, q[2]) < B
       => {<<x, y>>, <<x + 1, y>>} \notin W

\* It is a number.
LEMMA OffNat ==
  ASSUME NEW lo \in Int, NEW hi \in Int, NEW x \in Int
  PROVE  Off(lo, hi, x) \in Nat
BY DEF Off

\* Squares grow as their roots.
LEMMA Squares ==
  ASSUME NEW i \in Nat, NEW j \in Nat
  PROVE  /\ i <= j => i * i <= j * j
         /\ i < j => i * i < j * j
<1>1. ASSUME i <= j  PROVE i * i <= j * j
  <2>1. i * i <= i * j  BY <1>1
  <2>2. i * j <= j * j  BY <1>1
  <2>3. i * i \in Nat /\ i * j \in Nat /\ j * j \in Nat  OBVIOUS
  <2>4. QED  BY <2>1, <2>2, <2>3
<1>2. ASSUME i < j  PROVE i * i < j * j
  <2>1. i * i <= i * j  BY <1>2
  <2>2. i * j < j * j
    <3>1. PICK k \in Nat : k = j - i /\ k > 0  BY <1>2
    <3>2. k * j > 0  BY <1>2, <3>1
    <3>3. i * j + k * j = (i + k) * j  BY <3>1
    <3>4. i + k = j  BY <3>1
    <3>5. i * j \in Nat /\ k * j \in Nat /\ j * j \in Nat  BY <3>1
    <3>6. i * j + k * j = j * j  BY <3>3, <3>4
    <3>7. QED  BY <3>2, <3>5, <3>6
  <2>3. i * i \in Nat /\ i * j \in Nat /\ j * j \in Nat  OBVIOUS
  <2>4. QED  BY <2>1, <2>2, <2>3
<1>3. QED  BY <1>1, <1>2

\* The distance to a segment, axis by axis.
LEMMA DistanceOff ==
  ASSUME NEW a \in Int \X Int, NEW b \in Int \X Int, NEW q \in Int \X Int,
         NEW s, s = Off(IF a[1] < b[1] THEN 2 * a[1] ELSE 2 * b[1],
                        IF a[1] < b[1] THEN 2 * b[1] ELSE 2 * a[1], q[1]),
         NEW t, t = Off(IF a[2] < b[2] THEN 2 * a[2] ELSE 2 * b[2],
                        IF a[2] < b[2] THEN 2 * b[2] ELSE 2 * a[2], q[2])
  PROVE  Distance(a, b, q) = s * s + t * t /\ s \in Nat /\ t \in Nat
<1>1. Distance(a, b, q) = s * s + t * t
  <2>1. /\ s = (IF a[1] < b[1] THEN Off(2 * a[1], 2 * b[1], q[1]) ELSE Off(2 * b[1], 2 * a[1], q[1]))
        /\ t = (IF a[2] < b[2] THEN Off(2 * a[2], 2 * b[2], q[2]) ELSE Off(2 * b[2], 2 * a[2], q[2]))
    OBVIOUS
  <2>2. QED  BY <2>1, Zenon DEF Distance, Off
<1>2. a[1] \in Int /\ a[2] \in Int /\ b[1] \in Int /\ b[2] \in Int /\ q[1] \in Int /\ q[2] \in Int
  OBVIOUS
<1>3. s \in Nat /\ t \in Nat
  <2>1. PICK l1 \in Int : l1 = IF a[1] < b[1] THEN 2 * a[1] ELSE 2 * b[1]  BY <1>2
  <2>2. PICK h1 \in Int : h1 = IF a[1] < b[1] THEN 2 * b[1] ELSE 2 * a[1]  BY <1>2
  <2>3. PICK l2 \in Int : l2 = IF a[2] < b[2] THEN 2 * a[2] ELSE 2 * b[2]  BY <1>2
  <2>4. PICK h2 \in Int : h2 = IF a[2] < b[2] THEN 2 * b[2] ELSE 2 * a[2]  BY <1>2
  <2>5. Off(l1, h1, q[1]) \in Nat /\ Off(l2, h2, q[2]) \in Nat  BY <1>2, OffNat
  <2>6. QED  BY <2>1, <2>2, <2>3, <2>4, <2>5
<1>4. QED  BY <1>1, <1>3

\* A step north, and a step east.
LEMMA NorthDistance ==
  ASSUME NEW x \in Int, NEW y \in Int, NEW q \in Int \X Int,
         NEW s, s = Off(2 * x, 2 * x, q[1]), NEW t, t = Off(2 * y, 2 * y + 2, q[2])
  PROVE  Distance(<<x, y>>, <<x, y + 1>>, q) = s * s + t * t
<1>0. <<x, y>> \in Int \X Int /\ <<x, y + 1>> \in Int \X Int  OBVIOUS
<1>1. PICK a \in Int \X Int : a = <<x, y>>  BY <1>0
<1>2. PICK b \in Int \X Int : b = <<x, y + 1>>  BY <1>0
<1>3. a[1] = x /\ a[2] = y /\ b[1] = x /\ b[2] = y + 1  BY <1>1, <1>2
<1>4. 2 * (y + 1) = 2 * y + 2  OBVIOUS
<1>5. /\ s = Off(IF a[1] < b[1] THEN 2 * a[1] ELSE 2 * b[1],
                 IF a[1] < b[1] THEN 2 * b[1] ELSE 2 * a[1], q[1])
      /\ t = Off(IF a[2] < b[2] THEN 2 * a[2] ELSE 2 * b[2],
                 IF a[2] < b[2] THEN 2 * b[2] ELSE 2 * a[2], q[2])
  BY <1>3, <1>4
<1>6. Distance(a, b, q) = s * s + t * t
  <2>1. a \in Int \X Int /\ b \in Int \X Int  BY <1>1, <1>2
  <2>2. QED  BY <1>5, <2>1, DistanceOff
<1>7. QED  BY <1>1, <1>2, <1>6

\* The distance to a step along a row.
LEMMA EastDistance ==
  ASSUME NEW x \in Int, NEW y \in Int, NEW q \in Int \X Int,
         NEW s, s = Off(2 * x, 2 * x + 2, q[1]), NEW t, t = Off(2 * y, 2 * y, q[2])
  PROVE  Distance(<<x, y>>, <<x + 1, y>>, q) = s * s + t * t
<1>0. <<x, y>> \in Int \X Int /\ <<x + 1, y>> \in Int \X Int  OBVIOUS
<1>1. PICK a \in Int \X Int : a = <<x, y>>  BY <1>0
<1>2. PICK b \in Int \X Int : b = <<x + 1, y>>  BY <1>0
<1>3. a[1] = x /\ a[2] = y /\ b[1] = x + 1 /\ b[2] = y  BY <1>1, <1>2
<1>4. 2 * (x + 1) = 2 * x + 2  OBVIOUS
<1>5. /\ s = Off(IF a[1] < b[1] THEN 2 * a[1] ELSE 2 * b[1],
                 IF a[1] < b[1] THEN 2 * b[1] ELSE 2 * a[1], q[1])
      /\ t = Off(IF a[2] < b[2] THEN 2 * a[2] ELSE 2 * b[2],
                 IF a[2] < b[2] THEN 2 * b[2] ELSE 2 * a[2], q[2])
  BY <1>3, <1>4
<1>6. Distance(a, b, q) = s * s + t * t
  <2>1. a \in Int \X Int /\ b \in Int \X Int  BY <1>1, <1>2
  <2>2. QED  BY <1>5, <2>1, DistanceOff
<1>7. QED  BY <1>1, <1>2, <1>6

\* Walls at least as far from q as a point A and B away leave its surroundings bare.
Farther(W, q, D) ==
  \A u, v \in Int \X Int : {u, v} \in W => D <= Distance(u, v, q)

\* Where walls are farther than a distance, none is met on the way.
LEMMA BareAround ==
  ASSUME NEW W, NEW q \in Int \X Int, NEW A \in Nat, NEW B \in Nat, Farther(W, q, A * A + B * B)
  PROVE  Bare(W, q, A, B)
<1>1. ASSUME NEW s \in Nat, NEW t \in Nat, s <= A, t <= B, s < A \/ t < B
      PROVE  s * s + t * t < A * A + B * B
  <2>1. s * s <= A * A /\ t * t <= B * B /\ (s < A => s * s < A * A) /\ (t < B => t * t < B * B)
    BY <1>1, Squares
  <2>2. s * s \in Nat /\ t * t \in Nat /\ A * A \in Nat /\ B * B \in Nat  OBVIOUS
  <2>3. QED  BY <1>1, <2>1, <2>2
<1>2. A * A + B * B \in Nat  OBVIOUS
<1>3. ASSUME NEW x \in Int, NEW y \in Int,
             Off(2 * x, 2 * x, q[1]) <= A /\ Off(2 * y, 2 * y + 2, q[2]) <= B,
             Off(2 * x, 2 * x, q[1]) < A \/ Off(2 * y, 2 * y + 2, q[2]) < B
      PROVE  {<<x, y>>, <<x, y + 1>>} \notin W
  <2>1. PICK s \in Nat : s = Off(2 * x, 2 * x, q[1])
    <3>1. 2 * x \in Int /\ q[1] \in Int  OBVIOUS
    <3>2. QED  BY <3>1, OffNat
  <2>2. PICK t \in Nat : t = Off(2 * y, 2 * y + 2, q[2])
    <3>1. 2 * y \in Int /\ 2 * y + 2 \in Int /\ q[2] \in Int  OBVIOUS
    <3>2. QED  BY <3>1, OffNat
  <2>3. s * s + t * t < A * A + B * B  BY <1>1, <1>3, <2>1, <2>2
  <2>4. Distance(<<x, y>>, <<x, y + 1>>, q) = s * s + t * t
    BY <2>1, <2>2, NorthDistance
  <2>5. <<x, y>> \in Int \X Int /\ <<x, y + 1>> \in Int \X Int  OBVIOUS
  <2>6. s * s + t * t \in Nat  OBVIOUS
  <2>7. {<<x, y>>, <<x, y + 1>>} \in W => A * A + B * B <= s * s + t * t
    BY <2>4, <2>5 DEF Farther
  <2>8. QED  BY <1>2, <2>3, <2>6, <2>7
<1>4. ASSUME NEW x \in Int, NEW y \in Int,
             Off(2 * x, 2 * x + 2, q[1]) <= A /\ Off(2 * y, 2 * y, q[2]) <= B,
             Off(2 * x, 2 * x + 2, q[1]) < A \/ Off(2 * y, 2 * y, q[2]) < B
      PROVE  {<<x, y>>, <<x + 1, y>>} \notin W
  <2>1. PICK s \in Nat : s = Off(2 * x, 2 * x + 2, q[1])
    <3>1. 2 * x \in Int /\ 2 * x + 2 \in Int /\ q[1] \in Int  OBVIOUS
    <3>2. QED  BY <3>1, OffNat
  <2>2. PICK t \in Nat : t = Off(2 * y, 2 * y, q[2])
    <3>1. 2 * y \in Int /\ q[2] \in Int  OBVIOUS
    <3>2. QED  BY <3>1, OffNat
  <2>3. s * s + t * t < A * A + B * B  BY <1>1, <1>4, <2>1, <2>2
  <2>4. Distance(<<x, y>>, <<x + 1, y>>, q) = s * s + t * t
    BY <2>1, <2>2, EastDistance
  <2>5. <<x, y>> \in Int \X Int /\ <<x + 1, y>> \in Int \X Int  OBVIOUS
  <2>6. s * s + t * t \in Nat  OBVIOUS
  <2>7. {<<x, y>>, <<x + 1, y>>} \in W => A * A + B * B <= s * s + t * t
    BY <2>4, <2>5 DEF Farther
  <2>8. QED  BY <1>2, <2>3, <2>6, <2>7
<1>5. QED  BY <1>3, <1>4 DEF Bare

\* From one cell to another along a row and then along a column, no wall being between.
Between(i, j, n) == (i < n /\ n <= j) \/ (j < n /\ n <= i)
\* No wall is met going n cells east ...
RowOpen(walls, x, y, n) ==
  \A i \in Int : x < i /\ i <= x + n => {<<i, y>>, <<i, y + 1>>} \notin walls
\* ... or n cells north.
ColumnOpen(walls, x, y, n) ==
  \A i \in Int : y < i /\ i <= y + n => {<<x, i>>, <<x + 1, i>>} \notin walls

\* Cells of a row with no wall between them are of one colour.
LEMMA RowAlike ==
  ASSUME NEW walls, NEW k, Smooth(walls, k), NEW x \in Int, NEW y \in Int, NEW n \in Nat,
         RowOpen(walls, x, y, n)
  PROVE  k[CellAt(x, y)] = k[CellAt(x + n, y)]
<1> DEFINE P == {i \in 0 .. n : k[CellAt(x, y)] = k[CellAt(x + i, y)]}
<1>1. 0 \in P
  <2>1. x + 0 = x  OBVIOUS
  <2>2. QED  BY <2>1
<1>2. ASSUME NEW i \in 0 .. n, i > 0, i - 1 \in P  PROVE i \in P
  <2>1. PICK z \in Int : z = x + i  OBVIOUS
  <2>2. x < z /\ z <= x + n /\ z - 1 = x + (i - 1) /\ z - 1 \in Int  BY <1>2, <2>1
  <2>3. {<<z, y>>, <<z, y + 1>>} \notin walls  BY <2>2 DEF RowOpen
  <2>4. k[CellAt(z - 1, y)] = k[CellAt(z, y)]
    <3>1. /\ {<<z, y>>, <<z + 1, y>>} \notin walls => k[CellAt(z, y)] = k[CellAt(z, y - 1)]
          /\ {<<z, y>>, <<z, y + 1>>} \notin walls => k[CellAt(z - 1, y)] = k[CellAt(z, y)]
      BY <2>1, SmoothRows
    <3>2. QED  BY <2>3, <3>1
  <2>5. QED  BY <1>2, <2>1, <2>2, <2>4
<1> HIDE DEF P
<1>3. 0 .. n \subseteq P  BY <1>1, <1>2, Downward
<1>4. n \in P  BY <1>3
<1>5. QED  BY <1>4 DEF P

\* So are those of a column.
LEMMA ColumnAlike ==
  ASSUME NEW walls, NEW k, Smooth(walls, k), NEW x \in Int, NEW y \in Int, NEW n \in Nat,
         ColumnOpen(walls, x, y, n)
  PROVE  k[CellAt(x, y)] = k[CellAt(x, y + n)]
<1> DEFINE P == {i \in 0 .. n : k[CellAt(x, y)] = k[CellAt(x, y + i)]}
<1>1. 0 \in P
  <2>1. y + 0 = y  OBVIOUS
  <2>2. QED  BY <2>1
<1>2. ASSUME NEW i \in 0 .. n, i > 0, i - 1 \in P  PROVE i \in P
  <2>1. PICK z \in Int : z = y + i  OBVIOUS
  <2>2. y < z /\ z <= y + n /\ z - 1 = y + (i - 1) /\ z - 1 \in Int  BY <1>2, <2>1
  <2>3. {<<x, z>>, <<x + 1, z>>} \notin walls  BY <2>2 DEF ColumnOpen
  <2>4. k[CellAt(x, z)] = k[CellAt(x, z - 1)]
    <3>1. /\ {<<x, z>>, <<x + 1, z>>} \notin walls => k[CellAt(x, z)] = k[CellAt(x, z - 1)]
          /\ {<<x, z>>, <<x, z + 1>>} \notin walls => k[CellAt(x - 1, z)] = k[CellAt(x, z)]
      BY <2>1, SmoothRows
    <3>2. QED  BY <2>3, <3>1
  <2>5. QED  BY <1>2, <2>1, <2>2, <2>4
<1> HIDE DEF P
<1>3. 0 .. n \subseteq P  BY <1>1, <1>2, Downward
<1>4. n \in P  BY <1>3
<1>5. QED  BY <1>4 DEF P

\* So are those at the ends of a way that turns once.
LEMMA WayAlike ==
  ASSUME NEW walls, NEW k, Smooth(walls, k),
         NEW x \in Int, NEW y \in Int, NEW cx \in Int, NEW cy \in Int,
         \A i \in Int : Between(x, cx, i) => {<<i, y>>, <<i, y + 1>>} \notin walls,
         \A i \in Int : Between(y, cy, i) => {<<cx, i>>, <<cx + 1, i>>} \notin walls
  PROVE  k[CellAt(x, y)] = k[CellAt(cx, cy)]
<1>1. k[CellAt(x, y)] = k[CellAt(cx, y)]
  <2>1. CASE x <= cx
    <3>1. PICK n \in Nat : n = cx - x  BY <2>1
    <3>2. x + n = cx  BY <3>1
    <3>3. RowOpen(walls, x, y, n)  BY <3>2 DEF Between, RowOpen
    <3>4. k[CellAt(x, y)] = k[CellAt(x + n, y)]  BY <3>3, RowAlike
    <3>5. QED  BY <3>2, <3>4
  <2>2. CASE cx < x
    <3>1. PICK n \in Nat : n = x - cx  BY <2>2
    <3>2. cx + n = x  BY <3>1
    <3>3. RowOpen(walls, cx, y, n)  BY <3>2 DEF Between, RowOpen
    <3>4. k[CellAt(cx, y)] = k[CellAt(cx + n, y)]  BY <3>3, RowAlike
    <3>5. QED  BY <3>2, <3>4
  <2>3. QED  BY <2>1, <2>2
<1>2. k[CellAt(cx, y)] = k[CellAt(cx, cy)]
  <2>1. CASE y <= cy
    <3>1. PICK n \in Nat : n = cy - y  BY <2>1
    <3>2. y + n = cy  BY <3>1
    <3>3. ColumnOpen(walls, cx, y, n)  BY <3>2 DEF Between, ColumnOpen
    <3>4. k[CellAt(cx, y)] = k[CellAt(cx, y + n)]  BY <3>3, ColumnAlike
    <3>5. QED  BY <3>2, <3>4
  <2>2. CASE cy < y
    <3>1. PICK n \in Nat : n = y - cy  BY <2>2
    <3>2. cy + n = y  BY <3>1
    <3>3. ColumnOpen(walls, cx, cy, n)  BY <3>2 DEF Between, ColumnOpen
    <3>4. k[CellAt(cx, cy)] = k[CellAt(cx, cy + n)]  BY <3>3, ColumnAlike
    <3>5. QED  BY <3>2, <3>4
  <2>3. QED  BY <2>1, <2>2
<1>3. QED  BY <1>1, <1>2

-----------------------------------------------------------------------------
(* The way from a point to the nearest wall. *)

\* Size of a number.
Abs(i) == IF i < 0 THEN -i ELSE i

\* Cell <<cx, cy>> has point q in it, or on its border.
Holds(q, cx, cy) ==
  /\ 2 * cx <= q[1] /\ q[1] <= 2 * cx + 2
  /\ 2 * cy <= q[2] /\ q[2] <= 2 * cy + 2

\* No wall along a column is on the way, ...
LEMMA BareNorth ==
  ASSUME NEW W, NEW q, NEW A, NEW B, Bare(W, q, A, B), NEW x \in Int, NEW y \in Int,
         NEW a, a = q[1], NEW b, b = q[2],
         Off(2 * x, 2 * x, a) <= A, Off(2 * y, 2 * y + 2, b) <= B,
         Off(2 * x, 2 * x, a) < A \/ Off(2 * y, 2 * y + 2, b) < B
  PROVE  {<<x, y>>, <<x, y + 1>>} \notin W
BY DEF Bare

\* ... and none along a row.
LEMMA BareEast ==
  ASSUME NEW W, NEW q, NEW A, NEW B, Bare(W, q, A, B), NEW x \in Int, NEW y \in Int,
         NEW a, a = q[1], NEW b, b = q[2],
         Off(2 * x, 2 * x + 2, a) <= A, Off(2 * y, 2 * y, b) <= B,
         Off(2 * x, 2 * x + 2, a) < A \/ Off(2 * y, 2 * y, b) < B
  PROVE  {<<x, y>>, <<x + 1, y>>} \notin W
BY DEF Bare

\* Between q and the cell <<x, y>> at vertex <<X, Y>> on the side of q no wall is crossed.
Facing(q, X, Y, x, y) ==
  /\ (x = X /\ 2 * X <= q[1]) \/ (x = X - 1 /\ q[1] <= 2 * X)
  /\ (y = Y /\ 2 * Y <= q[2]) \/ (y = Y - 1 /\ q[2] <= 2 * Y)

\* From a point to the nearest vertex there is no wall.
LEMMA WayToVertex ==
  ASSUME NEW W, NEW k, Smooth(W, k), NEW q \in Int \X Int, NEW X \in Int, NEW Y \in Int,
         q[1] # 2 * X \/ q[2] # 2 * Y, Bare(W, q, Abs(q[1] - 2 * X), Abs(q[2] - 2 * Y)),
         NEW cx \in Int, NEW cy \in Int, Holds(q, cx, cy),
         NEW x \in Int, NEW y \in Int, Facing(q, X, Y, x, y)
  PROVE  k[CellAt(x, y)] = k[CellAt(cx, cy)]
<1>1. PICK a \in Int : a = q[1]  OBVIOUS
<1>2. PICK b \in Int : b = q[2]  OBVIOUS
<1>3. PICK A \in Int : A = Abs(a - 2 * X)  BY <1>1 DEF Abs
<1>4. PICK B \in Int : B = Abs(b - 2 * Y)  BY <1>2 DEF Abs
<1>5. Bare(W, q, A, B)  BY <1>1, <1>2, <1>3, <1>4
<1>6. /\ 2 * cx <= a /\ a <= 2 * cx + 2 /\ 2 * cy <= b /\ b <= 2 * cy + 2
      /\ (x = X /\ 2 * X <= a) \/ (x = X - 1 /\ a <= 2 * X)
      /\ (y = Y /\ 2 * Y <= b) \/ (y = Y - 1 /\ b <= 2 * Y)
      /\ a # 2 * X \/ b # 2 * Y
  BY <1>1, <1>2 DEF Holds, Facing
<1>7. ASSUME NEW n \in Int, Between(x, cx, n)  PROVE {<<n, y>>, <<n, y + 1>>} \notin W
  <2>1. (x < n /\ n <= cx) \/ (cx < n /\ n <= x)  BY <1>7 DEF Between
  <2>2. PICK s : s = Off(2 * n, 2 * n, a)  OBVIOUS
  <2>3. PICK t : t = Off(2 * y, 2 * y + 2, b)  OBVIOUS
  <2>4. s <= A /\ t <= B /\ (s < A \/ t < B)
    BY <1>1, <1>2, <1>3, <1>4, <1>6, <2>1, <2>2, <2>3 DEF Off, Abs
  <2>5. QED  BY <1>1, <1>2, <1>5, <2>2, <2>3, <2>4 DEF Bare
<1>8. ASSUME NEW n \in Int, Between(y, cy, n)  PROVE {<<cx, n>>, <<cx + 1, n>>} \notin W
  <2>1. (y < n /\ n <= cy) \/ (cy < n /\ n <= y)  BY <1>8 DEF Between
  <2>2. PICK s : s = Off(2 * cx, 2 * cx + 2, a)  OBVIOUS
  <2>3. PICK t : t = Off(2 * n, 2 * n, b)  OBVIOUS
  <2>4. s <= A /\ t <= B /\ (s < A \/ t < B)
    BY <1>1, <1>2, <1>3, <1>4, <1>6, <2>1, <2>2, <2>3 DEF Off, Abs
  <2>5. QED  BY <1>1, <1>2, <1>5, <2>2, <2>3, <2>4 DEF Bare
<1>9. QED  BY <1>7, <1>8, WayAlike

\* Towards q from vertex v no wall goes, and the cell met first clockwise is like that of q.
LEMMA TowardVertex ==
  ASSUME NEW W, NEW k, Smooth(W, k), NEW q \in Int \X Int, NEW X \in Int, NEW Y \in Int,
         q[1] # 2 * X \/ q[2] # 2 * Y, Bare(W, q, Abs(q[1] - 2 * X), Abs(q[2] - 2 * Y)),
         NEW cx \in Int, NEW cy \in Int, Holds(q, cx, cy),
         NEW v, v = <<X, Y>>, NEW i, i = azimuth_pt_pt(Twice(v), q)
  PROVE  /\ i \in Bearings /\ k[After(v, i)] = k[CellAt(cx, cy)]
         /\ i \in Ways => RayWall(v, i) \notin W
<1>1. PICK a \in Int : a = q[1]  OBVIOUS
<1>2. PICK b \in Int : b = q[2]  OBVIOUS
<1>3. PICK p \in Int \X Int : p = Twice(v) /\ p[1] = 2 * X /\ p[2] = 2 * Y
  <2>1. Twice(v) = <<2 * X, 2 * Y>>  BY DEF Twice
  <2>2. QED  BY <2>1
<1>4. p # q  BY <1>3
<1>5. /\ i \in 0 .. 7 /\ Compass[i + 1] = <<Sign(a - 2 * X), Sign(b - 2 * Y)>>
  BY <1>1, <1>2, <1>3, <1>4, Azimuth DEF Toward
<1>6. PICK s : s = Sign(a - 2 * X)  OBVIOUS
<1>7. PICK t : t = Sign(b - 2 * Y)  OBVIOUS
<1>8. /\ s = 0 => a = 2 * X
      /\ s = 1 => a > 2 * X
      /\ s = -1 => a < 2 * X
      /\ t = 0 => b = 2 * Y
      /\ t = 1 => b > 2 * Y
      /\ t = -1 => b < 2 * Y
  BY <1>6, <1>7 DEF Sign
<1>9. /\ i = 0 => s = 0 /\ t = 1
      /\ i = 1 => s = 1 /\ t = 1
      /\ i = 2 => s = 1 /\ t = 0
      /\ i = 3 => s = 1 /\ t = -1
      /\ i = 4 => s = 0 /\ t = -1
      /\ i = 5 => s = -1 /\ t = -1
      /\ i = 6 => s = -1 /\ t = 0
      /\ i = 7 => s = -1 /\ t = 1
  BY <1>5, <1>6, <1>7 DEF Compass
<1>10. \A x, y \in Int : Facing(q, X, Y, x, y) => k[CellAt(x, y)] = k[CellAt(cx, cy)]
  BY WayToVertex
<1>11. X - 1 \in Int /\ Y - 1 \in Int  OBVIOUS
<1>12. /\ a >= 2 * X /\ b >= 2 * Y => k[CellAt(X, Y)] = k[CellAt(cx, cy)]
       /\ a >= 2 * X /\ b <= 2 * Y => k[CellAt(X, Y - 1)] = k[CellAt(cx, cy)]
       /\ a <= 2 * X /\ b <= 2 * Y => k[CellAt(X - 1, Y - 1)] = k[CellAt(cx, cy)]
       /\ a <= 2 * X /\ b >= 2 * Y => k[CellAt(X - 1, Y)] = k[CellAt(cx, cy)]
  BY <1>1, <1>2, <1>10, <1>11 DEF Facing
<1>13. /\ After(v, 0) = CellAt(X, Y) /\ After(v, 1) = CellAt(X, Y)
       /\ After(v, 2) = CellAt(X, Y - 1) /\ After(v, 3) = CellAt(X, Y - 1)
       /\ After(v, 4) = CellAt(X - 1, Y - 1) /\ After(v, 5) = CellAt(X - 1, Y - 1)
       /\ After(v, 6) = CellAt(X - 1, Y) /\ After(v, 7) = CellAt(X - 1, Y)
  BY Afters, Quads
<1>14. PICK j \in Int : j = i /\ j \in {0, 1, 2, 3, 4, 5, 6, 7}  BY <1>5
<1>15. k[After(v, i)] = k[CellAt(cx, cy)]
  <2>1. CASE j \in {0, 1}  BY <1>8, <1>9, <1>12, <1>13, <1>14, <2>1
  <2>2. CASE j \in {2, 3}  BY <1>8, <1>9, <1>12, <1>13, <1>14, <2>2
  <2>3. CASE j \in {4, 5}  BY <1>8, <1>9, <1>12, <1>13, <1>14, <2>3
  <2>4. CASE j \in {6, 7}  BY <1>8, <1>9, <1>12, <1>13, <1>14, <2>4
  <2>5. QED  BY <1>14, <2>1, <2>2, <2>3, <2>4
<1>16. PICK A \in Int : A = Abs(a - 2 * X)  BY <1>1 DEF Abs
<1>17. PICK B \in Int : B = Abs(b - 2 * Y)  BY <1>2 DEF Abs
<1>18. Bare(W, q, A, B)  BY <1>1, <1>2, <1>16, <1>17
<1>19. ASSUME i \in Ways  PROVE RayWall(v, i) \notin W
  <2>1. /\ Ray(v, 0) = North(X, Y) /\ Ray(v, 2) = East(X, Y)
        /\ Ray(v, 4) = South(X, Y - 1) /\ Ray(v, 6) = West(X - 1, Y)
    BY Rays
  <2>2. CASE i = 0
    <3>1. RayWall(v, 0) = {<<X, Y>>, <<X, Y + 1>>}  BY <2>1 DEF RayWall, North
    <3>2. /\ Off(2 * X, 2 * X, a) <= A /\ Off(2 * Y, 2 * Y + 2, b) <= B
          /\ Off(2 * X, 2 * X, a) < A \/ Off(2 * Y, 2 * Y + 2, b) < B
      BY <1>8, <1>9, <1>16, <1>17, <2>2 DEF Off, Abs
    <3>3. {<<X, Y>>, <<X, Y + 1>>} \notin W  BY <1>1, <1>2, <1>18, <3>2, BareNorth
    <3>4. QED  BY <2>2, <3>1, <3>3
  <2>3. CASE i = 2
    <3>1. RayWall(v, 2) = {<<X, Y>>, <<X + 1, Y>>}  BY <2>1 DEF RayWall, East
    <3>2. /\ Off(2 * X, 2 * X + 2, a) <= A /\ Off(2 * Y, 2 * Y, b) <= B
          /\ Off(2 * X, 2 * X + 2, a) < A \/ Off(2 * Y, 2 * Y, b) < B
      BY <1>8, <1>9, <1>16, <1>17, <2>3 DEF Off, Abs
    <3>3. {<<X, Y>>, <<X + 1, Y>>} \notin W  BY <1>1, <1>2, <1>18, <3>2, BareEast
    <3>4. QED  BY <2>3, <3>1, <3>3
  <2>4. CASE i = 4
    <3>0. PICK Z \in Int : Z = Y - 1  BY <1>11
    <3>1. RayWall(v, 4) = {<<X, Z>>, <<X, Z + 1>>}  BY <2>1, <3>0 DEF RayWall, South
    <3>2. /\ Off(2 * X, 2 * X, a) <= A /\ Off(2 * Z, 2 * Z + 2, b) <= B
          /\ Off(2 * X, 2 * X, a) < A \/ Off(2 * Z, 2 * Z + 2, b) < B
      BY <1>8, <1>9, <1>16, <1>17, <2>4, <3>0 DEF Off, Abs
    <3>3. {<<X, Z>>, <<X, Z + 1>>} \notin W  BY <1>1, <1>2, <1>18, <3>0, <3>2, BareNorth
    <3>4. QED  BY <2>4, <3>1, <3>3
  <2>5. CASE i = 6
    <3>0. PICK Z \in Int : Z = X - 1  BY <1>11
    <3>1. RayWall(v, 6) = {<<Z, Y>>, <<Z + 1, Y>>}  BY <2>1, <3>0 DEF RayWall, West
    <3>2. /\ Off(2 * Z, 2 * Z + 2, a) <= A /\ Off(2 * Y, 2 * Y, b) <= B
          /\ Off(2 * Z, 2 * Z + 2, a) < A \/ Off(2 * Y, 2 * Y, b) < B
      BY <1>8, <1>9, <1>16, <1>17, <2>5, <3>0 DEF Off, Abs
    <3>3. {<<Z, Y>>, <<Z + 1, Y>>} \notin W  BY <1>1, <1>2, <1>18, <3>0, <3>2, BareEast
    <3>4. QED  BY <2>5, <3>1, <3>3
  <2>6. QED  BY <1>19, <2>2, <2>3, <2>4, <2>5 DEF Ways
<1>20. QED  BY <1>5, <1>15, <1>19 DEF Bearings

\* The same for the middle of a step east, and of a step north.
LEMMA TowardEast ==
  ASSUME NEW W, NEW k, Smooth(W, k), NEW q \in Int \X Int, NEW x \in Int, NEW y \in Int,
         q[1] = 2 * x + 1, q[2] # 2 * y, Bare(W, q, 0, Abs(q[2] - 2 * y)),
         NEW cx \in Int, NEW cy \in Int, Holds(q, cx, cy)
  PROVE  /\ q[2] > 2 * y => k[CellAt(x, y)] = k[CellAt(cx, cy)]
         /\ q[2] < 2 * y => k[CellAt(x, y - 1)] = k[CellAt(cx, cy)]
<1>1. PICK a \in Int : a = q[1]  OBVIOUS
<1>2. PICK b \in Int : b = q[2]  OBVIOUS
<1>3. PICK B \in Int : B = Abs(b - 2 * y)  BY <1>2 DEF Abs
<1>4. Bare(W, q, 0, B)  BY <1>1, <1>2, <1>3
<1>5. 2 * cx <= a /\ a <= 2 * cx + 2 /\ 2 * cy <= b /\ b <= 2 * cy + 2  BY <1>1, <1>2 DEF Holds
<1>6. cx = x  BY <1>1, <1>5
<1>7. ASSUME NEW z \in Int, (b > 2 * y /\ z = y) \/ (b < 2 * y /\ z = y - 1)
      PROVE  k[CellAt(x, z)] = k[CellAt(cx, cy)]
  <2>1. ASSUME NEW n \in Int, Between(z, cy, n)  PROVE {<<cx, n>>, <<cx + 1, n>>} \notin W
    <3>1. (z < n /\ n <= cy) \/ (cy < n /\ n <= z)  BY <2>1 DEF Between
    <3>2. Off(2 * cx, 2 * cx + 2, a) = 0 /\ Off(2 * n, 2 * n, b) < B
      BY <1>1, <1>3, <1>5, <1>6, <1>7, <3>1 DEF Off, Abs
    <3>3. Off(2 * n, 2 * n, b) \in Int  BY <1>2 DEF Off
    <3>4. Off(2 * cx, 2 * cx + 2, a) <= 0 /\ Off(2 * n, 2 * n, b) <= B  BY <3>2, <3>3, <1>3
    <3>5. QED  BY <1>1, <1>2, <1>4, <3>2, <3>4, BareEast
  <2>2. \A n \in Int : Between(x, cx, n) => {<<n, z>>, <<n, z + 1>>} \notin W
    BY <1>6 DEF Between
  <2>3. QED  BY <2>1, <2>2, WayAlike
<1>8. y - 1 \in Int  OBVIOUS
<1>9. QED  BY <1>2, <1>7, <1>8

\* From a point to the middle of the nearest step there is no wall.
LEMMA TowardNorth ==
  ASSUME NEW W, NEW k, Smooth(W, k), NEW q \in Int \X Int, NEW x \in Int, NEW y \in Int,
         q[2] = 2 * y + 1, q[1] # 2 * x, Bare(W, q, Abs(q[1] - 2 * x), 0),
         NEW cx \in Int, NEW cy \in Int, Holds(q, cx, cy)
  PROVE  /\ q[1] > 2 * x => k[CellAt(x, y)] = k[CellAt(cx, cy)]
         /\ q[1] < 2 * x => k[CellAt(x - 1, y)] = k[CellAt(cx, cy)]
<1>1. PICK a \in Int : a = q[1]  OBVIOUS
<1>2. PICK b \in Int : b = q[2]  OBVIOUS
<1>3. PICK A \in Int : A = Abs(a - 2 * x)  BY <1>1 DEF Abs
<1>4. Bare(W, q, A, 0)  BY <1>1, <1>2, <1>3
<1>5. 2 * cx <= a /\ a <= 2 * cx + 2 /\ 2 * cy <= b /\ b <= 2 * cy + 2  BY <1>1, <1>2 DEF Holds
<1>6. cy = y  BY <1>2, <1>5
<1>7. ASSUME NEW z \in Int, (a > 2 * x /\ z = x) \/ (a < 2 * x /\ z = x - 1)
      PROVE  k[CellAt(z, y)] = k[CellAt(cx, cy)]
  <2>1. ASSUME NEW n \in Int, Between(z, cx, n)  PROVE {<<n, y>>, <<n, y + 1>>} \notin W
    <3>1. (z < n /\ n <= cx) \/ (cx < n /\ n <= z)  BY <2>1 DEF Between
    <3>2. Off(2 * y, 2 * y + 2, b) = 0 /\ Off(2 * n, 2 * n, a) < A
      BY <1>2, <1>3, <1>5, <1>6, <1>7, <3>1 DEF Off, Abs
    <3>3. Off(2 * n, 2 * n, a) \in Int  BY <1>1 DEF Off
    <3>4. Off(2 * y, 2 * y + 2, b) <= 0 /\ Off(2 * n, 2 * n, a) <= A  BY <3>2, <3>3, <1>3
    <3>5. QED  BY <1>1, <1>2, <1>4, <3>2, <3>4, BareNorth
  <2>2. \A n \in Int : Between(y, cy, n) => {<<cx, n>>, <<cx + 1, n>>} \notin W
    BY <1>6 DEF Between
  <2>3. QED  BY <2>1, <2>2, WayAlike
<1>8. x - 1 \in Int  OBVIOUS
<1>9. QED  BY <1>1, <1>7, <1>8

-----------------------------------------------------------------------------
(* The nearest edge. *)

\* Nearest finds one of the least values.
LEMMA NearestLeast ==
  ASSUME NEW S \in SUBSET Nat, S # {}, NEW f, DOMAIN f = S, \A i \in S : f[i] \in Nat
  PROVE  Nearest(f) \in S /\ \A i \in S : f[Nearest(f)] <= f[i]
<1> DEFINE T == {f[x] : x \in S}
           least == Min(Range(f))
           R == {i \in S : f[i] = least}
<1>1. Range(f) = T  BY DEF Range
<1>2. T \in SUBSET Nat /\ T # {}  OBVIOUS
<1>3. least \in T /\ \A j \in T : least <= j
  <2> HIDE DEF T
  <2>1. QED  BY <1>1, <1>2, LeastOf
<1>4. R \in SUBSET Nat /\ R # {}  BY <1>3
<1>5. Nearest(f) = Min(R)  BY DEF Nearest
<1>6. Min(R) \in R
  <2> HIDE DEF R
  <2>1. QED  BY <1>4, LeastOf
<1>7. f[Nearest(f)] = least /\ Nearest(f) \in S  BY <1>5, <1>6
<1>8. \A i \in S : least <= f[i]  BY <1>3
<1> HIDE DEF least
<1>9. QED  BY <1>7, <1>8

\* How far segment i of a line is from q.
SegmentDistance(line, i, q) == Distance(line[i], line[i + 1], q)

\* The segment found is the nearest of the line.
LEMMA SegmentLeast ==
  ASSUME NEW line, IsLine(line), NEW q \in Int \X Int,
         NEW i, i = ptarray_closest_segment_2d(line, q)
  PROVE  /\ i \in Places(line)
         /\ \A j \in Places(line) : /\ SegmentDistance(line, j, q) \in Nat
                                    /\ SegmentDistance(line, i, q) <= SegmentDistance(line, j, q)
<1> DEFINE f == [j \in Places(line) |-> SegmentDistance(line, j, q)]
           S == Places(line)
<1>1. Len(line) \in Nat /\ Len(line) > 1 /\ \A j \in 1 .. Len(line) : line[j] \in Vertices
  BY LineFacts
<1>2. \A j \in S : j \in 1 .. Len(line) /\ j + 1 \in 1 .. Len(line)  BY <1>1 DEF Places
<1>3. ASSUME NEW j \in S  PROVE SegmentDistance(line, j, q) \in Nat
  <2>1. PICK u \in Vertices : u = line[j]  BY <1>1, <1>2
  <2>2. PICK v \in Vertices : v = line[j + 1]  BY <1>1, <1>2
  <2>3. u \in Int \X Int /\ v \in Int \X Int  BY PointsAreInts
  <2>4. Distance(u, v, q) \in Nat  BY <2>3, DistanceNat
  <2>5. QED  BY <2>1, <2>2, <2>4 DEF SegmentDistance
<1>4. S \in SUBSET Nat /\ 1 \in S  BY <1>1 DEF Places
<1>5. DOMAIN f = S /\ \A j \in S : f[j] = SegmentDistance(line, j, q)  OBVIOUS
<1>6. i = Nearest(f)
  <2>1. f = [j \in 1 .. Len(line) - 1 |-> Distance(line[j], line[j + 1], q)]
    BY DEF SegmentDistance, Places
  <2>2. QED  BY <2>1 DEF ptarray_closest_segment_2d
<1> HIDE DEF f, S
<1>7. i \in S /\ \A j \in S : f[i] <= f[j]  BY <1>3, <1>4, <1>5, <1>6, NearestLeast
<1>8. QED  BY <1>3, <1>5, <1>7 DEF S

\* The edge found is the nearest, and has the nearest segment.
LEMMA EdgeLeast ==
  ASSUME TopoInv, Edges # {}, NEW q \in Int \X Int, NEW e, e = getClosestEdge(q),
         NEW line, line = geom[e], NEW i, i = ptarray_closest_segment_2d(line, q)
  PROVE  /\ e \in Edges /\ IsLine(line) /\ i \in Places(line)
         /\ \A f \in Edges : \A j \in Places(geom[f]) :
              SegmentDistance(line, i, q) <= SegmentDistance(geom[f], j, q)
         /\ SegmentDistance(line, i, q) \in Nat
<1> DEFINE near(f) == ptarray_closest_segment_2d(geom[f], q)
           d == [f \in Edges |-> SegmentDistance(geom[f], near(f), q)]
<1>1. Edges \in SUBSET Nat /\ \A f \in Edges : IsLine(geom[f])
  <2> HIDE DEF d
  <2>1. Edges = {x \in Darts : x > 0} /\ \A f \in Edges : IsLine(geom[f])  BY InvFacts
  <2>2. \A x \in Darts : x \in Int  BY InvFacts
  <2>3. \A x \in Edges : x \in Int /\ x > 0  BY <2>1, <2>2
  <2>4. \A x \in Edges : x \in Nat  BY <2>3
  <2>5. QED  BY <2>1, <2>4
<1>2. ASSUME NEW f \in Edges
      PROVE  /\ near(f) \in Places(geom[f]) /\ SegmentDistance(geom[f], near(f), q) \in Nat
             /\ \A j \in Places(geom[f]) :
                  /\ SegmentDistance(geom[f], j, q) \in Nat
                  /\ SegmentDistance(geom[f], near(f), q) <= SegmentDistance(geom[f], j, q)
  <2>1. PICK g : g = geom[f]  OBVIOUS
  <2>2. PICK m : m = ptarray_closest_segment_2d(g, q)  OBVIOUS
  <2>3. IsLine(g)  BY <1>1, <2>1
  <2>4. /\ m \in Places(g)
        /\ \A j \in Places(g) : /\ SegmentDistance(g, j, q) \in Nat
                                /\ SegmentDistance(g, m, q) <= SegmentDistance(g, j, q)
    BY <2>2, <2>3, SegmentLeast
  <2>5. QED  BY <2>1, <2>2, <2>4
<1>3. e = Nearest(d)
  <2>1. d = [f \in Edges |-> LET j == ptarray_closest_segment_2d(geom[f], q)
                             IN  Distance(geom[f][j], geom[f][j + 1], q)]
    BY DEF SegmentDistance
  <2>2. QED  BY <2>1 DEF getClosestEdge
<1>4. DOMAIN d = Edges /\ \A f \in Edges : d[f] = SegmentDistance(geom[f], near(f), q)  OBVIOUS
<1>5. i = near(e)  OBVIOUS
<1> HIDE DEF d, near
<1>6. \A f \in Edges : d[f] \in Nat  BY <1>2, <1>4
<1>7. e \in Edges /\ \A f \in Edges : d[e] <= d[f]  BY <1>1, <1>3, <1>4, <1>6, NearestLeast
<1>8. d[e] = SegmentDistance(line, i, q)  BY <1>4, <1>5, <1>7
<1>9. ASSUME NEW f \in Edges, NEW j \in Places(geom[f])
      PROVE  SegmentDistance(line, i, q) <= SegmentDistance(geom[f], j, q)
  <2>1. PICK x \in Nat : x = SegmentDistance(line, i, q) /\ x = d[e]  BY <1>6, <1>7, <1>8
  <2>2. PICK y \in Nat : y = d[f] /\ y = SegmentDistance(geom[f], near(f), q)  BY <1>4, <1>6
  <2>3. PICK z \in Nat : z = SegmentDistance(geom[f], j, q)  BY <1>2
  <2>4. x <= y  BY <1>7, <2>1, <2>2
  <2>5. y <= z  BY <1>2, <2>2, <2>3
  <2>6. QED  BY <2>1, <2>2, <2>3, <2>4, <2>5
<1>10. IsLine(line) /\ i \in Places(line) /\ SegmentDistance(line, i, q) \in Nat
  BY <1>1, <1>2, <1>5, <1>7
<1>11. QED  BY <1>7, <1>9, <1>10

\* The distance to a segment is that to its reverse.
LEMMA DistanceBack ==
  ASSUME NEW a \in Int \X Int, NEW b \in Int \X Int, NEW q \in Int \X Int
  PROVE  Distance(a, b, q) = Distance(b, a, q)
<1>1. PICK s : s = Off(IF a[1] < b[1] THEN 2 * a[1] ELSE 2 * b[1],
                       IF a[1] < b[1] THEN 2 * b[1] ELSE 2 * a[1], q[1])
  OBVIOUS
<1>2. PICK t : t = Off(IF a[2] < b[2] THEN 2 * a[2] ELSE 2 * b[2],
                       IF a[2] < b[2] THEN 2 * b[2] ELSE 2 * a[2], q[2])
  OBVIOUS
<1>3. /\ s = Off(IF b[1] < a[1] THEN 2 * b[1] ELSE 2 * a[1],
                 IF b[1] < a[1] THEN 2 * a[1] ELSE 2 * b[1], q[1])
      /\ t = Off(IF b[2] < a[2] THEN 2 * b[2] ELSE 2 * a[2],
                 IF b[2] < a[2] THEN 2 * a[2] ELSE 2 * b[2], q[2])
  <2>1. a[1] \in Int /\ b[1] \in Int /\ a[2] \in Int /\ b[2] \in Int  OBVIOUS
  <2>2. /\ (IF a[1] < b[1] THEN 2 * a[1] ELSE 2 * b[1]) = (IF b[1] < a[1] THEN 2 * b[1] ELSE 2 * a[1])
        /\ (IF a[1] < b[1] THEN 2 * b[1] ELSE 2 * a[1]) = (IF b[1] < a[1] THEN 2 * a[1] ELSE 2 * b[1])
        /\ (IF a[2] < b[2] THEN 2 * a[2] ELSE 2 * b[2]) = (IF b[2] < a[2] THEN 2 * b[2] ELSE 2 * a[2])
        /\ (IF a[2] < b[2] THEN 2 * b[2] ELSE 2 * a[2]) = (IF b[2] < a[2] THEN 2 * a[2] ELSE 2 * b[2])
    BY <2>1
  <2>3. QED  BY <1>1, <1>2, <2>2
<1>4. Distance(a, b, q) = s * s + t * t  BY <1>1, <1>2, DistanceOff
<1>5. Distance(b, a, q) = s * s + t * t  BY <1>3, DistanceOff
<1>6. QED  BY <1>4, <1>5

\* No wall is nearer than the nearest segment.
LEMMA WallsFarther ==
  ASSUME TopoInv, NEW q \in Int \X Int, NEW D,
         \A f \in Edges : \A j \in Places(geom[f]) : D <= SegmentDistance(geom[f], j, q)
  PROVE  Farther(WallsOf(geom), q, D)
<1>1. SUFFICES ASSUME NEW u \in Int \X Int, NEW v \in Int \X Int, {u, v} \in WallsOf(geom)
               PROVE  D <= Distance(u, v, q)
  BY DEF Farther
<1>2. PICK w : w = {u, v}  OBVIOUS
<1>3. PICK f \in DOMAIN geom : \E j \in Places(geom[f]) : w = StepAt(geom[f], j)  BY <1>1, <1>2, WallIs
<1>4. PICK j \in Places(geom[f]) : w = StepAt(geom[f], j)  BY <1>3
<1>5. f \in Edges /\ IsLine(geom[f])  BY InvFacts DEF Edges
<1>6. PICK x \in Vertices, y \in Vertices : x = geom[f][j] /\ y = geom[f][j + 1] /\ Adjacent(x, y)
  <2>1. Len(geom[f]) \in Nat /\ \A i \in 1 .. Len(geom[f]) : geom[f][i] \in Vertices  BY <1>5, LineFacts
  <2>2. j \in 1 .. Len(geom[f]) - 1 /\ j \in 1 .. Len(geom[f]) /\ j + 1 \in 1 .. Len(geom[f])
    BY <2>1 DEF Places
  <2>3. Adjacent(geom[f][j], geom[f][j + 1])  BY <1>5, <2>2 DEF IsLine
  <2>4. QED  BY <2>1, <2>2, <2>3
<1>7. x # y /\ x \in Int \X Int /\ y \in Int \X Int  BY <1>6, AdjacentPoints
<1>8. {u, v} = {x, y}  BY <1>2, <1>4, <1>6 DEF StepAt
<1>9. (u = x /\ v = y) \/ (u = y /\ v = x)  BY <1>7, <1>8
<1>10. Distance(u, v, q) = Distance(x, y, q)  BY <1>7, <1>9, DistanceBack
<1>11. D <= Distance(x, y, q)  BY <1>5, <1>6 DEF SegmentDistance
<1>12. QED  BY <1>10, <1>11

-----------------------------------------------------------------------------
(* Where the nearest segment is nearest. *)

\* D is the square of the distance from q to vertex v.
AwayFrom(q, v, D) ==
  D = Abs(q[1] - 2 * v[1]) * Abs(q[1] - 2 * v[1]) + Abs(q[2] - 2 * v[2]) * Abs(q[2] - 2 * v[2])

\* How far a number is from a vertex and from a step.
LEMMA OffPoint ==
  ASSUME NEW x \in Int, NEW i \in Int
  PROVE  /\ Off(2 * x, 2 * x, i) = Abs(i - 2 * x)
         /\ i <= 2 * x => Off(2 * x, 2 * x + 2, i) = Abs(i - 2 * x)
         /\ i >= 2 * x + 2 => Off(2 * x, 2 * x + 2, i) = Abs(i - 2 * (x + 1))
         /\ i = 2 * x + 1 => Off(2 * x, 2 * x + 2, i) = 0
         /\ Abs(i - 2 * x) \in Nat
  BY DEF Off, Abs

\* Which point of a step along a row is nearest: an end, or the middle.
LEMMA EastFoot ==
  ASSUME NEW x \in Int, NEW y \in Int, NEW q \in Int \X Int,
         NEW u, u = <<x, y>>, NEW v, v = <<x + 1, y>>, NEW D, D = Distance(u, v, q)
  PROVE  /\ q[1] <= 2 * x => AwayFrom(q, u, D)
         /\ q[1] >= 2 * x + 2 => AwayFrom(q, v, D)
         /\ q[1] = 2 * x + 1 => D = 0 * 0 + Abs(q[2] - 2 * y) * Abs(q[2] - 2 * y)
<1>1. PICK s : s = Off(2 * x, 2 * x + 2, q[1])  OBVIOUS
<1>2. PICK t : t = Off(2 * y, 2 * y, q[2])  OBVIOUS
<1>3. D = s * s + t * t  BY <1>1, <1>2, EastDistance
<1>4. q[1] \in Int /\ q[2] \in Int  OBVIOUS
<1>5. t = Abs(q[2] - 2 * y)  BY <1>2, <1>4, OffPoint
<1>6. /\ q[1] <= 2 * x => s = Abs(q[1] - 2 * x)
      /\ q[1] >= 2 * x + 2 => s = Abs(q[1] - 2 * (x + 1))
      /\ q[1] = 2 * x + 1 => s = 0
  BY <1>1, <1>4, OffPoint
<1>7. u[1] = x /\ u[2] = y /\ v[1] = x + 1 /\ v[2] = y  OBVIOUS
<1>8. QED  BY <1>3, <1>5, <1>6, <1>7 DEF AwayFrom

\* The same along a column.
LEMMA NorthFoot ==
  ASSUME NEW x \in Int, NEW y \in Int, NEW q \in Int \X Int,
         NEW u, u = <<x, y>>, NEW v, v = <<x, y + 1>>, NEW D, D = Distance(u, v, q)
  PROVE  /\ q[2] <= 2 * y => AwayFrom(q, u, D)
         /\ q[2] >= 2 * y + 2 => AwayFrom(q, v, D)
         /\ q[2] = 2 * y + 1 => D = Abs(q[1] - 2 * x) * Abs(q[1] - 2 * x) + 0 * 0
<1>1. PICK s : s = Off(2 * x, 2 * x, q[1])  OBVIOUS
<1>2. PICK t : t = Off(2 * y, 2 * y + 2, q[2])  OBVIOUS
<1>3. D = s * s + t * t  BY <1>1, <1>2, NorthDistance
<1>4. q[1] \in Int /\ q[2] \in Int  OBVIOUS
<1>5. s = Abs(q[1] - 2 * x)  BY <1>1, <1>4, OffPoint
<1>6. /\ q[2] <= 2 * y => t = Abs(q[2] - 2 * y)
      /\ q[2] >= 2 * y + 2 => t = Abs(q[2] - 2 * (y + 1))
      /\ q[2] = 2 * y + 1 => t = 0
  BY <1>2, <1>4, OffPoint
<1>7. u[1] = x /\ u[2] = y /\ v[1] = x /\ v[2] = y + 1  OBVIOUS
<1>8. QED  BY <1>3, <1>5, <1>6, <1>7 DEF AwayFrom

\* The foot of q on the step from a to b, twice as far along as r says.
Advance(a, b, q) == (q[1] - 2 * a[1]) * (b[1] - a[1]) + (q[2] - 2 * a[2]) * (b[2] - a[2])

\* q is beside the middle of the step, D being the square of its distance.
BesideEast(a, b, q, D, x, y) ==
  /\ <<a, b>> = East(x, y) \/ <<a, b>> = West(x, y)
  /\ q[1] = 2 * x + 1 /\ D = 0 * 0 + Abs(q[2] - 2 * y) * Abs(q[2] - 2 * y)
\* The point is beside the middle of a step along a column.
BesideNorth(a, b, q, D, x, y) ==
  /\ <<a, b>> = North(x, y) \/ <<a, b>> = South(x, y)
  /\ q[2] = 2 * y + 1 /\ D = Abs(q[1] - 2 * x) * Abs(q[1] - 2 * x) + 0 * 0
\* Where along the segment the nearest point is.
FootAt(a, b, q, D, r) ==
  /\ r \in Int
  /\ r <= 0 => AwayFrom(q, a, D)
  /\ r >= 2 => AwayFrom(q, b, D)
  /\ r = 1 => \E x, y \in Int : BesideEast(a, b, q, D, x, y) \/ BesideNorth(a, b, q, D, x, y)

\* As the code tells it, along a row ...
LEMMA FootEast ==
  ASSUME NEW x \in Int, NEW y \in Int, NEW q \in Int \X Int, NEW a, NEW b,
         <<a, b>> = East(x, y) \/ <<a, b>> = West(x, y),
         NEW D, D = Distance(a, b, q), NEW r, r = Advance(a, b, q)
  PROVE  FootAt(a, b, q, D, r)
<1>1. PICK u : u = <<x, y>>  OBVIOUS
<1>2. PICK v : v = <<x + 1, y>>  OBVIOUS
<1>3. u \in Int \X Int /\ v \in Int \X Int  BY <1>1, <1>2
<1>4. q[1] \in Int /\ q[2] \in Int  OBVIOUS
<1>5. u[1] = x /\ u[2] = y /\ v[1] = x + 1 /\ v[2] = y  BY <1>1, <1>2
<1>6. (a = u /\ b = v) \/ (a = v /\ b = u)  BY <1>1, <1>2 DEF East, West
<1>7. D = Distance(u, v, q)  BY <1>3, <1>6, DistanceBack
<1>8. /\ q[1] <= 2 * x => AwayFrom(q, u, D)
      /\ q[1] >= 2 * x + 2 => AwayFrom(q, v, D)
      /\ q[1] = 2 * x + 1 => D = 0 * 0 + Abs(q[2] - 2 * y) * Abs(q[2] - 2 * y)
  BY <1>1, <1>2, <1>7, EastFoot
<1>9. CASE a = u /\ b = v
  <2>1. r = (q[1] - 2 * x) * ((x + 1) - x) + (q[2] - 2 * y) * (y - y)
    BY <1>5, <1>9 DEF Advance
  <2>2. (x + 1) - x = 1 /\ y - y = 0 /\ q[1] - 2 * x \in Int /\ q[2] - 2 * y \in Int  BY <1>4
  <2>3. r = q[1] - 2 * x  BY <2>1, <2>2
  <2>4. r \in Int  BY <1>4, <2>3
  <2>5. r <= 0 => AwayFrom(q, a, D)  BY <1>4, <1>8, <1>9, <2>3
  <2>6. r >= 2 => AwayFrom(q, b, D)  BY <1>4, <1>8, <1>9, <2>3
  <2>7. r = 1 => BesideEast(a, b, q, D, x, y)  BY <1>4, <1>8, <2>3 DEF BesideEast
  <2>8. QED  BY <2>4, <2>5, <2>6, <2>7 DEF FootAt
<1>10. CASE a = v /\ b = u
  <2>1. r = (q[1] - 2 * (x + 1)) * (x - (x + 1)) + (q[2] - 2 * y) * (y - y)
    BY <1>5, <1>10 DEF Advance
  <2>2. x - (x + 1) = -1 /\ y - y = 0 /\ q[1] - 2 * (x + 1) \in Int /\ q[2] - 2 * y \in Int  BY <1>4
  <2>3. r = -(q[1] - 2 * (x + 1))  BY <2>1, <2>2
  <2>4. r \in Int  BY <1>4, <2>3
  <2>5. r <= 0 => AwayFrom(q, a, D)  BY <1>4, <1>8, <1>10, <2>3
  <2>6. r >= 2 => AwayFrom(q, b, D)  BY <1>4, <1>8, <1>10, <2>3
  <2>7. r = 1 => BesideEast(a, b, q, D, x, y)  BY <1>4, <1>8, <2>3 DEF BesideEast
  <2>8. QED  BY <2>4, <2>5, <2>6, <2>7 DEF FootAt
<1>11. QED  BY <1>6, <1>9, <1>10

\* ... and along a column.
LEMMA FootNorth ==
  ASSUME NEW x \in Int, NEW y \in Int, NEW q \in Int \X Int, NEW a, NEW b,
         <<a, b>> = North(x, y) \/ <<a, b>> = South(x, y),
         NEW D, D = Distance(a, b, q), NEW r, r = Advance(a, b, q)
  PROVE  FootAt(a, b, q, D, r)
<1>1. PICK u : u = <<x, y>>  OBVIOUS
<1>2. PICK v : v = <<x, y + 1>>  OBVIOUS
<1>3. u \in Int \X Int /\ v \in Int \X Int  BY <1>1, <1>2
<1>4. q[1] \in Int /\ q[2] \in Int  OBVIOUS
<1>5. u[1] = x /\ u[2] = y /\ v[1] = x /\ v[2] = y + 1  BY <1>1, <1>2
<1>6. (a = u /\ b = v) \/ (a = v /\ b = u)  BY <1>1, <1>2 DEF North, South
<1>7. D = Distance(u, v, q)  BY <1>3, <1>6, DistanceBack
<1>8. /\ q[2] <= 2 * y => AwayFrom(q, u, D)
      /\ q[2] >= 2 * y + 2 => AwayFrom(q, v, D)
      /\ q[2] = 2 * y + 1 => D = Abs(q[1] - 2 * x) * Abs(q[1] - 2 * x) + 0 * 0
  BY <1>1, <1>2, <1>7, NorthFoot
<1>9. CASE a = u /\ b = v
  <2>1. r = (q[1] - 2 * x) * (x - x) + (q[2] - 2 * y) * ((y + 1) - y)
    BY <1>5, <1>9 DEF Advance
  <2>2. (y + 1) - y = 1 /\ x - x = 0 /\ q[1] - 2 * x \in Int /\ q[2] - 2 * y \in Int  BY <1>4
  <2>3. r = q[2] - 2 * y  BY <2>1, <2>2
  <2>4. r \in Int  BY <1>4, <2>3
  <2>5. r <= 0 => AwayFrom(q, a, D)  BY <1>4, <1>8, <1>9, <2>3
  <2>6. r >= 2 => AwayFrom(q, b, D)  BY <1>4, <1>8, <1>9, <2>3
  <2>7. r = 1 => BesideNorth(a, b, q, D, x, y)  BY <1>4, <1>8, <2>3 DEF BesideNorth
  <2>8. QED  BY <2>4, <2>5, <2>6, <2>7 DEF FootAt
<1>10. CASE a = v /\ b = u
  <2>1. r = (q[1] - 2 * x) * (x - x) + (q[2] - 2 * (y + 1)) * (y - (y + 1))
    BY <1>5, <1>10 DEF Advance
  <2>2. y - (y + 1) = -1 /\ x - x = 0 /\ q[2] - 2 * (y + 1) \in Int /\ q[1] - 2 * x \in Int  BY <1>4
  <2>3. r = -(q[2] - 2 * (y + 1))  BY <2>1, <2>2
  <2>4. r \in Int  BY <1>4, <2>3
  <2>5. r <= 0 => AwayFrom(q, a, D)  BY <1>4, <1>8, <1>10, <2>3
  <2>6. r >= 2 => AwayFrom(q, b, D)  BY <1>4, <1>8, <1>10, <2>3
  <2>7. r = 1 => BesideNorth(a, b, q, D, x, y)  BY <1>4, <1>8, <2>3 DEF BesideNorth
  <2>8. QED  BY <2>4, <2>5, <2>6, <2>7 DEF FootAt
<1>11. QED  BY <1>6, <1>9, <1>10

\* It finds the nearest point.
LEMMA Foot ==
  ASSUME NEW a \in Vertices, NEW b \in Vertices, Adjacent(a, b), NEW q \in Int \X Int
  PROVE  FootAt(a, b, q, Distance(a, b, q), Advance(a, b, q))
<1>1. PICK s : s = <<a, b>>  OBVIOUS
<1>2. s \in UnitSteps  BY <1>1, StepRay
<1>3. PICK x, y \in Int :
        \/ s = East(x, y) /\ x \in 0 .. Width - 1 /\ y \in 0 .. Height
        \/ s = West(x, y) /\ x \in 0 .. Width - 1 /\ y \in 0 .. Height
        \/ s = North(x, y) /\ x \in 0 .. Width /\ y \in 0 .. Height - 1
        \/ s = South(x, y) /\ x \in 0 .. Width /\ y \in 0 .. Height - 1
  BY <1>2, UnitCases
<1>4. CASE s = East(x, y) \/ s = West(x, y)
  <2>1. <<a, b>> = East(x, y) \/ <<a, b>> = West(x, y)  BY <1>1, <1>4
  <2>2. QED  BY <2>1, FootEast
<1>5. CASE s = North(x, y) \/ s = South(x, y)
  <2>1. <<a, b>> = North(x, y) \/ <<a, b>> = South(x, y)  BY <1>1, <1>5
  <2>2. QED  BY <2>1, FootNorth
<1>6. QED  BY <1>3, <1>4, <1>5

\* From vertex v no wall goes in direction i, and the cell met first clockwise from
\* it has the colour f.
Seen(W, k, v, i, f) ==
  /\ i \in Bearings /\ k[After(v, i)] = f
  /\ i \in Ways => RayWall(v, i) \notin W

\* The nearest vertex sees q like that.
LEMMA VertexSees ==
  ASSUME NEW W, NEW k, Smooth(W, k), NEW q \in Int \X Int, NEW v \in Vertices,
         NEW D, AwayFrom(q, v, D), D # 0, Farther(W, q, D),
         NEW cx \in Int, NEW cy \in Int, Holds(q, cx, cy),
         NEW i, i = azimuth_pt_pt(Twice(v), q)
  PROVE  Seen(W, k, v, i, k[CellAt(cx, cy)])
<1>1. PICK X, Y \in Int : v = <<X, Y>>
  <2>1. v \in Int \X Int  BY PointsAreInts
  <2>2. QED  BY <2>1
<1>2. v[1] = X /\ v[2] = Y /\ q[1] \in Int /\ q[2] \in Int  BY <1>1
<1>3. PICK A, B \in Nat : A = Abs(q[1] - 2 * X) /\ B = Abs(q[2] - 2 * Y)
  BY <1>2, OffPoint
<1>4. D = A * A + B * B  BY <1>2, <1>3 DEF AwayFrom
<1>5. q[1] # 2 * X \/ q[2] # 2 * Y
  <2>1. SUFFICES ASSUME q[1] = 2 * X, q[2] = 2 * Y  PROVE FALSE  OBVIOUS
  <2>2. A = 0 /\ B = 0  BY <1>2, <1>3, <2>1 DEF Abs
  <2>3. QED  BY <1>4, <2>2
<1>6. Farther(W, q, A * A + B * B)  BY <1>4
<1>7. Bare(W, q, A, B)  BY <1>6, BareAround
<1>8. Bare(W, q, Abs(q[1] - 2 * X), Abs(q[2] - 2 * Y))  BY <1>3, <1>7
<1>9. /\ i \in Bearings /\ k[After(v, i)] = k[CellAt(cx, cy)]
      /\ i \in Ways => RayWall(v, i) \notin W
  BY <1>1, <1>5, <1>8, TowardVertex
<1>10. QED  BY <1>9 DEF Seen

\* The middle of the nearest segment, too.
LEMMA MiddleSees ==
  ASSUME NEW W, NEW k, Smooth(W, k), NEW q \in Int \X Int, NEW a, NEW b, NEW D, D # 0,
         Farther(W, q, D), NEW x \in Int, NEW y \in Int,
         BesideEast(a, b, q, D, x, y) \/ BesideNorth(a, b, q, D, x, y),
         NEW cx \in Int, NEW cy \in Int, Holds(q, cx, cy), NEW f, f = k[CellAt(cx, cy)]
  PROVE  /\ LeftOfSegment(a, b, q) => k[LeftCell(<<a, b>>)] = f
         /\ ~LeftOfSegment(a, b, q) => k[RightCell(<<a, b>>)] = f
<1>0. q[1] \in Int /\ q[2] \in Int  OBVIOUS
<1>1. CASE BesideEast(a, b, q, D, x, y)
  <2>1. /\ <<a, b>> = East(x, y) \/ <<a, b>> = West(x, y)
        /\ q[1] = 2 * x + 1 /\ D = 0 * 0 + Abs(q[2] - 2 * y) * Abs(q[2] - 2 * y)
    BY <1>1 DEF BesideEast
  <2>2. PICK B \in Nat : B = Abs(q[2] - 2 * y)  BY <1>0, OffPoint
  <2>3. D = 0 * 0 + B * B  BY <2>1, <2>2
  <2>4. q[2] # 2 * y
    <3>1. SUFFICES ASSUME q[2] = 2 * y  PROVE FALSE  OBVIOUS
    <3>2. B = 0  BY <2>2, <3>1 DEF Abs
    <3>3. QED  BY <2>3, <3>2
  <2>5. Farther(W, q, 0 * 0 + B * B) /\ 0 \in Nat  BY <2>3
  <2>6. Bare(W, q, 0, B)  BY <2>5, BareAround
  <2>7. Bare(W, q, 0, Abs(q[2] - 2 * y))  BY <2>2, <2>6
  <2>8. /\ q[2] > 2 * y => k[CellAt(x, y)] = k[CellAt(cx, cy)]
        /\ q[2] < 2 * y => k[CellAt(x, y - 1)] = k[CellAt(cx, cy)]
    BY <2>1, <2>4, <2>7, TowardEast
  <2>9. CASE <<a, b>> = East(x, y)
    <3>1. a = <<x, y>> /\ b = <<x + 1, y>>  BY <2>9 DEF East
    <3>2. LeftOfSegment(a, b, q) <=>
            ((x + 1) - x) * (q[2] - 2 * y) - (y - y) * (q[1] - 2 * x) > 0
      BY <3>1 DEF LeftOfSegment
    <3>3. (x + 1) - x = 1 /\ y - y = 0 /\ q[2] - 2 * y \in Int /\ q[1] - 2 * x \in Int  BY <1>0
    <3>4. LeftOfSegment(a, b, q) <=> q[2] - 2 * y > 0  BY <3>2, <3>3
    <3>5. LeftCell(<<a, b>>) = CellAt(x, y) /\ RightCell(<<a, b>>) = CellAt(x, y - 1)
      BY <2>9, EastStep
    <3>6. QED  BY <1>0, <2>4, <2>8, <3>4, <3>5
  <2>10. CASE <<a, b>> = West(x, y)
    <3>1. a = <<x + 1, y>> /\ b = <<x, y>>  BY <2>10 DEF West
    <3>2. LeftOfSegment(a, b, q) <=>
            (x - (x + 1)) * (q[2] - 2 * y) - (y - y) * (q[1] - 2 * (x + 1)) > 0
      BY <3>1 DEF LeftOfSegment
    <3>3. x - (x + 1) = -1 /\ y - y = 0 /\ q[2] - 2 * y \in Int /\ q[1] - 2 * (x + 1) \in Int  BY <1>0
    <3>4. LeftOfSegment(a, b, q) <=> -(q[2] - 2 * y) > 0  BY <3>2, <3>3
    <3>5. LeftCell(<<a, b>>) = CellAt(x, y - 1) /\ RightCell(<<a, b>>) = CellAt(x, y)
      BY <2>10, EastStep
    <3>6. QED  BY <1>0, <2>4, <2>8, <3>4, <3>5
  <2>11. QED  BY <2>1, <2>9, <2>10
<1>2. CASE BesideNorth(a, b, q, D, x, y)
  <2>1. /\ <<a, b>> = North(x, y) \/ <<a, b>> = South(x, y)
        /\ q[2] = 2 * y + 1 /\ D = Abs(q[1] - 2 * x) * Abs(q[1] - 2 * x) + 0 * 0
    BY <1>2 DEF BesideNorth
  <2>2. PICK A \in Nat : A = Abs(q[1] - 2 * x)  BY <1>0, OffPoint
  <2>3. D = A * A + 0 * 0  BY <2>1, <2>2
  <2>4. q[1] # 2 * x
    <3>1. SUFFICES ASSUME q[1] = 2 * x  PROVE FALSE  OBVIOUS
    <3>2. A = 0  BY <2>2, <3>1 DEF Abs
    <3>3. QED  BY <2>3, <3>2
  <2>5. Farther(W, q, A * A + 0 * 0) /\ 0 \in Nat  BY <2>3
  <2>6. Bare(W, q, A, 0)  BY <2>5, BareAround
  <2>7. Bare(W, q, Abs(q[1] - 2 * x), 0)  BY <2>2, <2>6
  <2>8. /\ q[1] > 2 * x => k[CellAt(x, y)] = k[CellAt(cx, cy)]
        /\ q[1] < 2 * x => k[CellAt(x - 1, y)] = k[CellAt(cx, cy)]
    BY <2>1, <2>4, <2>7, TowardNorth
  <2>9. CASE <<a, b>> = North(x, y)
    <3>1. a = <<x, y>> /\ b = <<x, y + 1>>  BY <2>9 DEF North
    <3>2. LeftOfSegment(a, b, q) <=>
            (x - x) * (q[2] - 2 * y) - ((y + 1) - y) * (q[1] - 2 * x) > 0
      BY <3>1 DEF LeftOfSegment
    <3>3. (y + 1) - y = 1 /\ x - x = 0 /\ q[2] - 2 * y \in Int /\ q[1] - 2 * x \in Int  BY <1>0
    <3>4. LeftOfSegment(a, b, q) <=> -(q[1] - 2 * x) > 0  BY <3>2, <3>3
    <3>5. LeftCell(<<a, b>>) = CellAt(x - 1, y) /\ RightCell(<<a, b>>) = CellAt(x, y)
      BY <2>9, NorthStep
    <3>6. QED  BY <1>0, <2>4, <2>8, <3>4, <3>5
  <2>10. CASE <<a, b>> = South(x, y)
    <3>1. a = <<x, y + 1>> /\ b = <<x, y>>  BY <2>10 DEF South
    <3>2. LeftOfSegment(a, b, q) <=>
            (x - x) * (q[2] - 2 * (y + 1)) - (y - (y + 1)) * (q[1] - 2 * x) > 0
      BY <3>1 DEF LeftOfSegment
    <3>3. y - (y + 1) = -1 /\ x - x = 0 /\ q[1] - 2 * x \in Int /\ q[2] - 2 * (y + 1) \in Int  BY <1>0
    <3>4. LeftOfSegment(a, b, q) <=> q[1] - 2 * x > 0  BY <3>2, <3>3
    <3>5. LeftCell(<<a, b>>) = CellAt(x, y) /\ RightCell(<<a, b>>) = CellAt(x - 1, y)
      BY <2>10, NorthStep
    <3>6. QED  BY <1>0, <2>4, <2>8, <3>4, <3>5
  <2>11. QED  BY <2>1, <2>9, <2>10
<1>3. QED  BY <1>1, <1>2

-----------------------------------------------------------------------------
\* At a node the face is that of the first dart clockwise.
LEMMA NodeSide ==
  ASSUME TopoInv, Planar, NEW col, NowMap(col), NEW n \in DOMAIN at, L!Out(n) # {},
         NEW v, v = at[n], NEW i, NEW f, Seen(WallsOf(geom), col, v, i, f)
  PROVE  _lwt_FindAdjacentEdges(n, az, i, {}).cw = f
<1>1. Net(at, geom, org, next) /\ Darts = DOMAIN next  BY NetHolds DEF Darts
<1>2. L!Out(n) = OutOf(next, org, n)  BY DEF L!Out, L!Darts, OutOf
<1>3. /\ i \in Bearings /\ col[After(v, i)] = f
      /\ i \in Ways => RayWall(v, i) \notin WallsOf(geom)
  BY DEF Seen
<1>4. az = Turning(geom, DOMAIN next)  BY <1>1, InvFacts
<1>5. ASSUME NEW x \in OutOf(next, org, n)
      PROVE  az[x] = Turning(geom, DOMAIN next)[x] /\ az[x] \in 0 .. 7 /\ az[x] # i
  <2>1. PICK j : j = Turning(geom, DOMAIN next)[x]  OBVIOUS
  <2>2. x \in DOMAIN next /\ v = at[org[x]]  BY DEF OutOf
  <2>3. j \in Ways /\ Ray(v, j) \in Steps(Path(geom, x))  BY <1>1, <2>1, <2>2, DartRay
  <2>4. PICK R : R = {x}  OBVIOUS
  <2>5. R \in SUBSET DOMAIN next  BY <2>2, <2>4
  <2>6. \A s \in RingSteps(geom, R) : {s[1], s[2]} \in WallsOf(geom)
    BY <1>1, <2>5, RingStepsAre
  <2>7. Ray(v, j) \in RingSteps(geom, R)  BY <2>3, <2>4 DEF RingSteps
  <2>8. RayWall(v, j) \in WallsOf(geom)  BY <2>6, <2>7 DEF RayWall
  <2>9. j # i  BY <1>3, <2>3, <2>8
  <2>10. j \in 0 .. 7  BY <2>3 DEF Ways
  <2>11. QED  BY <1>4, <2>1, <2>9, <2>10
<1>6. PICK X : X = {}  OBVIOUS
<1>7. Round(geom, next, org, n, X, az, i)  BY <1>5, <1>6 DEF Round
<1>8. PICK S : S = OutOf(next, org, n) \cup X  OBVIOUS
<1>9. S = L!Out(n) /\ S = L!Out(n) \cup {}  BY <1>2, <1>6, <1>8
<1>10. PICK c : c = L!nextCW(S, az, i)  OBVIOUS
<1>11. c \in S
  <2>1. \A x \in S : az[x] \in 0 .. 7  BY <1>2, <1>5, <1>9
  <2>2. i \in 0 .. 7  BY <1>3 DEF Bearings
  <2>3. S # {}  BY <1>9
  <2>4. QED  BY <1>10, <2>1, <2>2, <2>3, NextAmong
<1>12. \A x \in OutOf(next, org, n) : x = L!nextCW(S, az, i) => side[x] = col[After(v, i)]
  BY <1>3, <1>7, <1>8, SidesAround
<1>13. side[c] = f  BY <1>2, <1>3, <1>9, <1>10, <1>11, <1>12
<1>14. _lwt_FindAdjacentEdges(n, az, i, {})
         = [cw  |-> IF c \in {} THEN None ELSE side[c],
            ccw |-> IF L!nextCCW(S, az, i) \in {} THEN None ELSE side[-L!nextCCW(S, az, i)]]
  BY <1>9, <1>10 DEF _lwt_FindAdjacentEdges
<1>15. QED  BY <1>13, <1>14

\* Left of a bend means the left of the edge.
LEMMA BendOrder ==
  ASSUME NEW s \in Ways, NEW t \in Ways, NEW i \in Bearings, i # s, i # t
  PROVE  /\ L!azdif(s, i) < L!azdif(s, t) => Clockwise(i, t) <= Clockwise(i, s)
         /\ ~(L!azdif(s, i) < L!azdif(s, t)) => Clockwise(i, s) <= Clockwise(i, t)
  BY DEF Ways, Bearings, Clockwise, L!azdif

\* From the bend at place m of the line of edge e, direction i is that of q.
Bends(G, k, e, line, m, q, i, f) ==
  /\ e \in DOMAIN G /\ Smooth(WallsOf(G), k) /\ line = G[e] /\ m \in 2 .. Len(line) - 1
  /\ i = azimuth_pt_pt(Twice(line[m]), q) /\ Seen(WallsOf(G), k, line[m], i, f)

\* At a bend the code tells the right side.
LEMMA BendSide ==
  ASSUME NEW a, NEW G, NEW o, NEW nx, Net(a, G, o, nx),
         NEW k, NEW e, NEW line, NEW m, NEW q, NEW i, NEW f, Bends(G, k, e, line, m, q, i, f)
  PROVE  /\ LeftOfBend(line, m, q) => k[LeftOf(G, e)] = f
         /\ ~LeftOfBend(line, m, q) => k[LeftOf(G, -e)] = f
<1>0. /\ e \in DOMAIN G /\ Smooth(WallsOf(G), k) /\ line = G[e] /\ m \in 2 .. Len(line) - 1
      /\ i = azimuth_pt_pt(Twice(line[m]), q) /\ Seen(WallsOf(G), k, line[m], i, f)
  BY DEF Bends
<1> PICK v : v = line[m]  OBVIOUS
<1> USE <1>0
<1>1. e \in DOMAIN nx /\ IsLine(line) /\ Path(G, e) = line  BY NetFacts
<1>2. /\ Len(line) \in Nat /\ Len(line) > 1 /\ \A j \in 1 .. Len(line) : line[j] \in Vertices
      /\ \A j \in 1 .. Len(line) - 1 : Adjacent(line[j], line[j + 1])
  BY <1>1, LineFacts DEF IsLine
<1>3. /\ m - 1 \in 1 .. Len(line) - 1 /\ m \in 1 .. Len(line) - 1 /\ m - 1 + 1 = m
      /\ m - 1 \in 1 .. Len(line) /\ m \in 1 .. Len(line) /\ m + 1 \in 1 .. Len(line)
      /\ m > 1 /\ m < Len(line)
  BY <1>2
<1>4. PICK u \in Vertices, w \in Vertices : u = line[m - 1] /\ w = line[m + 1]  BY <1>2, <1>3
<1>5. v \in Vertices /\ Adjacent(u, v) /\ Adjacent(v, w)  BY <1>2, <1>3, <1>4
<1>6. Adjacent(v, u)  BY <1>4, <1>5, AdjacentSymmetric
<1>7. PICK s, t : s = azimuth_pt_pt(v, u) /\ t = azimuth_pt_pt(v, w)  OBVIOUS
<1>8. /\ s \in Ways /\ <<v, u>> = Ray(v, s) /\ \A j \in Ways : u = Ray(v, j)[2] => j = s
      /\ t \in Ways /\ <<v, w>> = Ray(v, t) /\ \A j \in Ways : w = Ray(v, j)[2] => j = t
  <2>1. /\ azimuth_pt_pt(v, u) \in Ways /\ <<v, u>> = Ray(v, azimuth_pt_pt(v, u))
        /\ \A j \in Ways : u = Ray(v, j)[2] => j = azimuth_pt_pt(v, u)
    BY <1>5, <1>6, StepRay
  <2>2. /\ azimuth_pt_pt(v, w) \in Ways /\ <<v, w>> = Ray(v, azimuth_pt_pt(v, w))
        /\ \A j \in Ways : w = Ray(v, j)[2] => j = azimuth_pt_pt(v, w)
    BY <1>5, StepRay
  <2>3. QED  BY <1>7, <2>1, <2>2
<1>9. LeftOfBend(line, m, q) <=> L!azdif(s, i) < L!azdif(s, t)
  BY <1>3, <1>4, <1>7 DEF LeftOfBend
<1>10. PICK W : W = WallsOf(G)  OBVIOUS
<1>11. /\ i \in Bearings /\ k[After(v, i)] = f
       /\ i \in Ways => RayWall(v, i) \notin W
  BY <1>10 DEF Seen
<1>12. RayWall(v, s) \in W /\ RayWall(v, t) \in W
  <2>1. m - 1 \in Places(line) /\ m \in Places(line)  BY <1>3 DEF Places
  <2>2. StepAt(line, m - 1) \in W /\ StepAt(line, m) \in W  BY <1>10, <2>1, WallIs
  <2>3. StepAt(line, m - 1) = {u, v} /\ StepAt(line, m) = {v, w}  BY <1>3, <1>4 DEF StepAt
  <2>4. RayWall(v, s) = {v, u} /\ RayWall(v, t) = {v, w}
    <3>1. Ray(v, s)[1] = v /\ Ray(v, s)[2] = u /\ Ray(v, t)[1] = v /\ Ray(v, t)[2] = w
      <4>1. <<v, u>>[1] = v /\ <<v, u>>[2] = u /\ <<v, w>>[1] = v /\ <<v, w>>[2] = w  OBVIOUS
      <4>2. QED  BY <1>8, <4>1
    <3>2. QED  BY <3>1 DEF RayWall
  <2>5. {u, v} = {v, u}  OBVIOUS
  <2>6. QED  BY <2>2, <2>3, <2>4, <2>5
<1>13. i # s /\ i # t  BY <1>8, <1>11, <1>12
<1>14. ASSUME NEW j \in Ways, RayWall(v, j) \in W  PROVE j = s \/ j = t
  <2>1. RayWall(v, j) = {v, Ray(v, j)[2]}  BY DEF RayWall, Ray
  <2>2. RayWall(v, j) = {v, u} \/ RayWall(v, j) = {v, w}
    <3>1. RayWall(v, j) \in WallsOf(G) /\ line[m] \in RayWall(v, j)  BY <1>10, <1>14, <2>1
    <3>2. RayWall(v, j) = {line[m], line[m - 1]} \/ RayWall(v, j) = {line[m], line[m + 1]}
      BY <1>1, <3>1, InnerPath
    <3>3. QED  BY <1>4, <3>2
  <2>3. v # u /\ v # w  BY <1>4, <1>5, <1>6, AdjacentPoints
  <2>4. Ray(v, j)[2] = u \/ Ray(v, j)[2] = w  BY <2>1, <2>2, <2>3
  <2>5. QED  BY <1>8, <2>4
<1>15. PICK x, y \in Int : v = <<x, y>>
  <2>1. v \in Int \X Int  BY <1>5, PointsAreInts
  <2>2. QED  BY <2>1
<1>16. PICK a2 \in 0 .. 7 : a2 = i  BY <1>11 DEF Bearings
<1>17. ASSUME L!azdif(s, i) < L!azdif(s, t)  PROVE k[LeftOf(G, e)] = f
  <2>1. Clockwise(i, t) <= Clockwise(i, s)  BY <1>8, <1>11, <1>13, <1>17, BendOrder
  <2>2. ASSUME NEW j \in Ways, Clockwise(i, j) < Clockwise(i, t)  PROVE RayWall(v, j) \notin W
    <3>1. SUFFICES ASSUME RayWall(v, j) \in W  PROVE FALSE  OBVIOUS
    <3>2. j = s \/ j = t  BY <1>14, <3>1
    <3>3. Clockwise(i, s) \in Int /\ Clockwise(i, t) \in Int  BY <1>8, <1>16 DEF Ways, Clockwise
    <3>4. QED  BY <2>1, <2>2, <3>2, <3>3
  <2>3. Smooth(W, k)  BY <1>10
  <2>4. k[After(v, i)] = k[LeftCell(Ray(v, t))]
    <3>1. PICK b \in Ways : b = t  BY <1>8
    <3>2. \A j \in Ways : Clockwise(a2, j) < Clockwise(a2, b) => RayWall(v, j) \notin W
      BY <1>16, <2>2, <3>1
    <3>3. k[After(v, a2)] = k[LeftCell(Ray(v, b))]  BY <1>15, <2>3, <3>2, Corner
    <3>4. QED  BY <1>16, <3>1, <3>3
  <2>5. <<v, w>> \in Steps(Path(G, e))  BY <1>1, <1>3, <1>4, PathSteps
  <2>6. k[LeftCell(<<v, w>>)] = k[LeftOf(G, e)]  BY <1>1, <2>5, Sides
  <2>7. QED  BY <1>8, <1>11, <2>4, <2>6
<1>18. ASSUME ~(L!azdif(s, i) < L!azdif(s, t))  PROVE k[LeftOf(G, -e)] = f
  <2>1. Clockwise(i, s) <= Clockwise(i, t)  BY <1>8, <1>11, <1>13, <1>18, BendOrder
  <2>2. ASSUME NEW j \in Ways, Clockwise(i, j) < Clockwise(i, s)  PROVE RayWall(v, j) \notin W
    <3>1. SUFFICES ASSUME RayWall(v, j) \in W  PROVE FALSE  OBVIOUS
    <3>2. j = s \/ j = t  BY <1>14, <3>1
    <3>3. Clockwise(i, s) \in Int /\ Clockwise(i, t) \in Int  BY <1>8, <1>16 DEF Ways, Clockwise
    <3>4. QED  BY <2>1, <2>2, <3>2, <3>3
  <2>3. Smooth(W, k)  BY <1>10
  <2>4. k[After(v, i)] = k[LeftCell(Ray(v, s))]
    <3>1. PICK b \in Ways : b = s  BY <1>8
    <3>2. \A j \in Ways : Clockwise(a2, j) < Clockwise(a2, b) => RayWall(v, j) \notin W
      BY <1>16, <2>2, <3>1
    <3>3. k[After(v, a2)] = k[LeftCell(Ray(v, b))]  BY <1>15, <2>3, <3>2, Corner
    <3>4. QED  BY <1>16, <3>1, <3>3
  <2>5. <<u, v>> \in Steps(Path(G, e))
    <3>1. <<line[m - 1], line[m - 1 + 1]>> \in Steps(line)  BY <1>3, PathSteps
    <3>2. QED  BY <1>1, <1>3, <1>4, <3>1
  <2>6. k[RightCell(<<u, v>>)] = k[LeftOf(G, -e)]  BY <1>1, <2>5, Sides
  <2>7. RightCell(<<u, v>>) = LeftCell(<<v, u>>)  BY DEF RightCell
  <2>8. QED  BY <1>8, <1>11, <2>4, <2>6, <2>7
<1>19. QED  BY <1>9, <1>17, <1>18

\* Point q is on no edge.
OffEdges(q) == \A e \in Edges : \A j \in Places(geom[e]) : SegmentDistance(geom[e], j, q) # 0

\* GetFaceContainingPoint finds the face of the cell a point off the edges is in.
LEMMA FaceFound ==
  ASSUME TopoInv, Planar, NEW col, NowMap(col), NEW q \in Int \X Int, OffEdges(q),
         NEW cx \in Int, NEW cy \in Int, Holds(q, cx, cy), NEW f, f = col[CellAt(cx, cy)]
  PROVE  lwt_GetFaceContainingPoint(q) = f
<1>1. Net(at, geom, org, next) /\ Darts = DOMAIN next  BY NetHolds DEF Darts
<1>2. PICK W : W = WallsOf(geom)  OBVIOUS
<1>3. /\ Smooth(W, col) /\ col[Outer] = Universe
      /\ \A d \in Darts : side[d] = col[LeftOf(geom, d)]
  BY <1>2, MapFacts
<1>4. CASE Edges = {}
  <2>1. lwt_GetFaceContainingPoint(q) = Universe  BY <1>4 DEF lwt_GetFaceContainingPoint
  <2>2. \A w : w \notin W  BY <1>2, <1>4 DEF WallsOf, Edges
  <2>3. CellAt(cx, cy) \in Cells  BY CellFacts
  <2>4. PICK c \in Cells : c = CellAt(cx, cy)  BY <2>3
  <2>5. col[c] = col[Outer]  BY <1>3, <2>2, SmoothNowhere
  <2>6. QED  BY <1>3, <2>1, <2>4, <2>5
<1>5. CASE Edges # {}
  <2>1. PICK e : e = getClosestEdge(q)  OBVIOUS
  <2>2. PICK line : line = geom[e]  OBVIOUS
  <2>3. PICK i : i = ptarray_closest_segment_2d(line, q)  OBVIOUS
  <2>4. PICK D : D = SegmentDistance(line, i, q)  OBVIOUS
  <2>5. /\ e \in Edges /\ IsLine(line) /\ i \in Places(line)
        /\ \A h \in Edges : \A j \in Places(geom[h]) : D <= SegmentDistance(geom[h], j, q)
    BY <1>5, <2>1, <2>2, <2>3, <2>4, EdgeLeast
  <2>6. D # 0  BY <2>2, <2>4, <2>5 DEF OffEdges
  <2>7. Farther(W, q, D)  BY <1>2, <2>5, WallsFarther
  <2>8. /\ Len(line) \in Nat /\ Len(line) > 1 /\ \A j \in 1 .. Len(line) : line[j] \in Vertices
        /\ \A j \in 1 .. Len(line) - 1 : Adjacent(line[j], line[j + 1]) /\ Last(line) = line[Len(line)]
    BY <2>5, LineFacts DEF IsLine
  <2>9. i \in 1 .. Len(line) - 1 /\ i \in 1 .. Len(line) /\ i + 1 \in 1 .. Len(line)
    BY <2>5, <2>8 DEF Places
  <2>10. PICK a \in Vertices, b \in Vertices : a = line[i] /\ b = line[i + 1]  BY <2>8, <2>9
  <2>11. Adjacent(a, b)  BY <2>8, <2>9, <2>10
  <2>12. PICK r : r = Advance(a, b, q)  OBVIOUS
  <2>13. D = Distance(a, b, q)  BY <2>4, <2>10 DEF SegmentDistance
  <2>14. FootAt(a, b, q, D, r)  BY <2>11, <2>12, <2>13, Foot
  <2>15. PICK v : v = IF r <= 0 THEN i ELSE IF r >= 2 THEN i + 1 ELSE 0  OBVIOUS
  <2>16. PICK n : n = IF v = 1 THEN org[e] ELSE org[-e]  OBVIOUS
  <2>17. lwt_GetFaceContainingPoint(q) =
           IF v = 1 \/ v = Len(line)
           THEN _lwt_FindAdjacentEdges(n, az, azimuth_pt_pt(Twice(line[v]), q), {}).cw
           ELSE IF \/ side[e] = side[-e]
                   \/ v # 0 /\ LeftOfBend(line, v, q)
                   \/ v = 0 /\ LeftOfSegment(a, b, q)
                THEN side[e] ELSE side[-e]
    BY <1>5, <2>1, <2>2, <2>3, <2>10, <2>12, <2>15, <2>16 DEF lwt_GetFaceContainingPoint, Advance
  <2>18. /\ e \in DOMAIN geom /\ e \in DOMAIN next /\ e > 0 /\ Path(geom, e) = line
         /\ at[org[e]] = line[1] /\ at[org[-e]] = Last(line) /\ -e \in DOMAIN next
         /\ org[e] \in DOMAIN at /\ org[-e] \in DOMAIN at
    <3>1. e \in DOMAIN geom  BY <2>5 DEF Edges
    <3>2. e \in DOMAIN next /\ e > 0 /\ Path(geom, e) = geom[e]
          /\ at[org[e]] = geom[e][1] /\ at[org[-e]] = Last(geom[e])
      BY <1>1, <3>1, NetFacts
    <3>3. -e \in DOMAIN next /\ org[e] \in DOMAIN at  BY <1>1, <3>2, NetFacts
    <3>4. org[-e] \in DOMAIN at  BY <1>1, <3>3, NetFacts
    <3>5. QED  BY <2>2, <3>1, <3>2, <3>3, <3>4
  <2>19. side[e] = col[LeftOf(geom, e)] /\ side[-e] = col[LeftOf(geom, -e)]
    BY <1>1, <1>3, <2>18
  <2>20. r \in Int  BY <2>14 DEF FootAt
  <2>21. CASE r <= 0 \/ r >= 2
    <3>1. v \in 1 .. Len(line) /\ AwayFrom(q, line[v], D)
      <4>1. CASE r <= 0  BY <2>9, <2>10, <2>14, <2>15, <4>1 DEF FootAt
      <4>2. CASE r >= 2
        <5>1. v = i + 1  BY <2>15, <2>20, <4>2
        <5>2. QED  BY <2>9, <2>10, <2>14, <4>2, <5>1 DEF FootAt
      <4>3. QED  BY <2>21, <4>1, <4>2
    <3>2. PICK p \in Vertices : p = line[v]  BY <2>8, <3>1
    <3>3. PICK z : z = azimuth_pt_pt(Twice(p), q)  OBVIOUS
    <3>4. AwayFrom(q, p, D)  BY <3>1, <3>2
    <3>5. Seen(W, col, p, z, col[CellAt(cx, cy)])
      BY <1>3, <2>6, <2>7, <3>3, <3>4, VertexSees
    <3>6. Seen(WallsOf(geom), col, p, z, f)  BY <1>2, <3>5
    <3>7. CASE v = 1 \/ v = Len(line)
      <4>1. n \in DOMAIN at /\ at[n] = p
        <5>1. CASE v = 1  BY <2>16, <2>18, <3>2, <5>1
        <5>2. CASE v # 1  BY <2>8, <2>16, <2>18, <3>2, <3>7, <5>2
        <5>3. QED  BY <5>1, <5>2
      <4>2. L!Out(n) # {}
        <5>1. e \in Darts /\ -e \in Darts  BY <1>1, <2>18
        <5>2. n = org[e] \/ n = org[-e]  BY <2>16
        <5>3. e \in L!Out(n) \/ -e \in L!Out(n)  BY <5>1, <5>2 DEF L!Out, L!Darts, Darts
        <5>4. QED  BY <5>3
      <4>3. _lwt_FindAdjacentEdges(n, az, z, {}).cw = f  BY <3>6, <4>1, <4>2, NodeSide
      <4>4. QED  BY <2>17, <3>2, <3>3, <3>7, <4>3
    <3>8. CASE ~(v = 1 \/ v = Len(line))
      <4>1. v \in 2 .. Len(line) - 1 /\ v # 0  BY <2>8, <3>1, <3>8
      <4>2. PICK m \in 2 .. Len(line) - 1 : m = v  BY <4>1
      <4>3. Bends(geom, col, e, line, m, q, z, f)
        BY <1>2, <1>3, <2>2, <2>18, <3>2, <3>3, <3>6, <4>2 DEF Bends
      <4>4. /\ LeftOfBend(line, m, q) => col[LeftOf(geom, e)] = f
            /\ ~LeftOfBend(line, m, q) => col[LeftOf(geom, -e)] = f
        BY <1>1, <4>3, BendSide
      <4>5. QED  BY <2>17, <2>19, <3>8, <4>1, <4>2, <4>4
    <3>9. QED  BY <3>7, <3>8
  <2>22. CASE ~(r <= 0 \/ r >= 2)
    <3>1. r = 1 /\ v = 0  BY <2>15, <2>20, <2>22
    <3>2. ~(v = 1 \/ v = Len(line))  BY <2>8, <3>1
    <3>3. PICK x, y \in Int : BesideEast(a, b, q, D, x, y) \/ BesideNorth(a, b, q, D, x, y)
      BY <2>14, <3>1 DEF FootAt
    <3>4. /\ LeftOfSegment(a, b, q) => col[LeftCell(<<a, b>>)] = f
          /\ ~LeftOfSegment(a, b, q) => col[RightCell(<<a, b>>)] = f
      BY <1>3, <2>6, <2>7, <3>3, MiddleSees
    <3>5. <<a, b>> \in Steps(Path(geom, e))
      BY <2>9, <2>10, <2>18, PathSteps
    <3>6. col[LeftCell(<<a, b>>)] = col[LeftOf(geom, e)] /\ col[RightCell(<<a, b>>)] = col[LeftOf(geom, -e)]
      BY <1>1, <1>2, <1>3, <2>18, <3>5, Sides
    <3>7. QED  BY <2>17, <2>19, <3>1, <3>2, <3>4, <3>6
  <2>23. QED  BY <2>21, <2>22
<1>6. QED  BY <1>4, <1>5

\* Squares that sum to nothing are of nothing.
LEMMA SumZero ==
  ASSUME NEW i \in Nat, NEW j \in Nat, i * i + j * j = 0
  PROVE  i = 0 /\ j = 0
<1>1. PICK s, t \in Nat : s = i * i /\ t = j * j
  <2>1. i * i \in Nat /\ j * j \in Nat
    <3>1. 0 * 0 <= i * i /\ 0 * 0 <= j * j
      <4>1. 0 \in Nat /\ 0 <= i /\ 0 <= j  OBVIOUS
      <4>2. QED  BY <4>1, Squares
    <3>2. i * i \in Int /\ j * j \in Int /\ 0 * 0 = 0  OBVIOUS
    <3>3. QED  BY <3>1, <3>2
  <2>2. QED  BY <2>1
<1>2. s = 0 /\ t = 0  BY <1>1
<1>3. i > 0 => 0 * 0 < i * i
  <2>1. 0 \in Nat /\ (i > 0 => 0 < i)  OBVIOUS
  <2>2. QED  BY <2>1, Squares
<1>4. j > 0 => 0 * 0 < j * j
  <2>1. 0 \in Nat /\ (j > 0 => 0 < j)  OBVIOUS
  <2>2. QED  BY <2>1, Squares
<1>5. ~(i > 0) /\ ~(j > 0)
  <2>1. 0 * 0 = 0  OBVIOUS
  <2>2. QED  BY <1>1, <1>2, <1>3, <1>4, <2>1
<1>6. QED  BY <1>5

\* No distance from a vertex means to be there.
LEMMA AwayZero ==
  ASSUME NEW q \in Int \X Int, NEW v \in Vertices, AwayFrom(q, v, 0)
  PROVE  q[1] = 2 * v[1] /\ q[2] = 2 * v[2]
<1>1. v \in Int \X Int  BY PointsAreInts
<1>2. v[1] \in Int /\ v[2] \in Int /\ q[1] \in Int /\ q[2] \in Int  BY <1>1
<1>3. PICK A, B \in Nat : A = Abs(q[1] - 2 * v[1]) /\ B = Abs(q[2] - 2 * v[2])  BY <1>2, OffPoint
<1>4. A * A + B * B = 0  BY <1>3 DEF AwayFrom
<1>5. A = 0 /\ B = 0  BY <1>4, SumZero
<1>6. QED  BY <1>2, <1>3, <1>5 DEF Abs

\* A point on a unit segment is an end of it, or has one odd coordinate.
LEMMA OnSegment ==
  ASSUME NEW a \in Vertices, NEW b \in Vertices, Adjacent(a, b), NEW q \in Int \X Int,
         Distance(a, b, q) = 0
  PROVE  \/ \E v \in {a, b} : q[1] = 2 * v[1] /\ q[2] = 2 * v[2]
         \/ \E x, y \in Int : q[1] = 2 * x + 1 /\ q[2] = 2 * y
         \/ \E x, y \in Int : q[1] = 2 * x /\ q[2] = 2 * y + 1
<1>1. PICK r : r = Advance(a, b, q)  OBVIOUS
<1>2. FootAt(a, b, q, 0, r)  BY <1>1, Foot
<1>3. r \in Int  BY <1>2 DEF FootAt
<1>4. CASE r <= 0
  <2>1. AwayFrom(q, a, 0)  BY <1>2, <1>4 DEF FootAt
  <2>2. QED  BY <2>1, AwayZero
<1>5. CASE r >= 2
  <2>1. AwayFrom(q, b, 0)  BY <1>2, <1>5 DEF FootAt
  <2>2. QED  BY <2>1, AwayZero
<1>6. CASE r = 1
  <2>0. q[1] \in Int /\ q[2] \in Int  OBVIOUS
  <2>1. PICK x, y \in Int : BesideEast(a, b, q, 0, x, y) \/ BesideNorth(a, b, q, 0, x, y)
    BY <1>2, <1>6 DEF FootAt
  <2>2. CASE BesideEast(a, b, q, 0, x, y)
    <3>1. q[1] = 2 * x + 1 /\ 0 = 0 * 0 + Abs(q[2] - 2 * y) * Abs(q[2] - 2 * y)
      BY <2>2 DEF BesideEast
    <3>2. PICK B \in Nat : B = Abs(q[2] - 2 * y)  BY <2>0, OffPoint
    <3>3. 0 * 0 + B * B = 0 /\ 0 \in Nat  BY <3>1, <3>2
    <3>4. B = 0  BY <3>3, SumZero
    <3>5. q[2] = 2 * y  BY <2>0, <3>2, <3>4 DEF Abs
    <3>6. QED  BY <3>1, <3>5
  <2>3. CASE BesideNorth(a, b, q, 0, x, y)
    <3>1. q[2] = 2 * y + 1 /\ 0 = Abs(q[1] - 2 * x) * Abs(q[1] - 2 * x) + 0 * 0
      BY <2>3 DEF BesideNorth
    <3>2. PICK A \in Nat : A = Abs(q[1] - 2 * x)  BY <2>0, OffPoint
    <3>3. A * A + 0 * 0 = 0 /\ 0 \in Nat  BY <3>1, <3>2
    <3>4. A = 0  BY <3>3, SumZero
    <3>5. q[1] = 2 * x  BY <2>0, <3>2, <3>4 DEF Abs
    <3>6. QED  BY <3>1, <3>5
  <2>4. QED  BY <2>1, <2>2, <2>3
<1>7. QED  BY <1>3, <1>4, <1>5, <1>6

-----------------------------------------------------------------------------
\* A segment of an edge is a unit step.
LEMMA EdgeSegment ==
  ASSUME TopoInv, NEW e \in Edges, NEW j \in Places(geom[e])
  PROVE  /\ geom[e][j] \in Vertices /\ geom[e][j + 1] \in Vertices
         /\ Adjacent(geom[e][j], geom[e][j + 1])
         /\ geom[e][j] \in Range(geom[e]) /\ geom[e][j + 1] \in Range(geom[e])
<1>1. IsLine(geom[e])  BY InvFacts
<1>2. /\ Len(geom[e]) \in Nat /\ \A i \in 1 .. Len(geom[e]) : geom[e][i] \in Vertices
      /\ geom[e] \in [1 .. Len(geom[e]) -> Vertices]
  BY <1>1, LineFacts
<1>3. j \in 1 .. Len(geom[e]) - 1 /\ j \in 1 .. Len(geom[e]) /\ j + 1 \in 1 .. Len(geom[e])
  BY <1>2 DEF Places
<1>4. Adjacent(geom[e][j], geom[e][j + 1])  BY <1>1, <1>3 DEF IsLine
<1>5. DOMAIN geom[e] = 1 .. Len(geom[e])  BY <1>2
<1>6. QED  BY <1>2, <1>3, <1>4, <1>5 DEF Range

\* The middle of a cell is on no edge.
LEMMA MiddleOff ==
  ASSUME TopoInv, NEW x \in Int, NEW y \in Int
  PROVE  OffEdges(<<2 * x + 1, 2 * y + 1>>)
<1> DEFINE q == <<2 * x + 1, 2 * y + 1>>
<1>1. q \in Int \X Int /\ q[1] = 2 * x + 1 /\ q[2] = 2 * y + 1  OBVIOUS
<1> HIDE DEF q
<1>2. SUFFICES ASSUME NEW e \in Edges, NEW j \in Places(geom[e]), SegmentDistance(geom[e], j, q) = 0
               PROVE  FALSE
  BY DEF OffEdges, q
<1>3. PICK a \in Vertices, b \in Vertices : a = geom[e][j] /\ b = geom[e][j + 1] /\ Adjacent(a, b)
  BY EdgeSegment
<1>4. Distance(a, b, q) = 0  BY <1>2, <1>3 DEF SegmentDistance
<1>5. \/ \E v \in {a, b} : q[1] = 2 * v[1] /\ q[2] = 2 * v[2]
      \/ \E i, k \in Int : q[1] = 2 * i + 1 /\ q[2] = 2 * k
      \/ \E i, k \in Int : q[1] = 2 * i /\ q[2] = 2 * k + 1
  BY <1>1, <1>3, <1>4, OnSegment
<1>6. a[1] \in Int /\ b[1] \in Int
  <2>1. a \in Int \X Int /\ b \in Int \X Int  BY PointsAreInts
  <2>2. QED  BY <2>1
<1>7. \E i \in Int : q[1] = 2 * i \/ q[2] = 2 * i  BY <1>5, <1>6
<1>8. QED  BY <1>1, <1>7

\* Nor is a vertex that no edge intersects.
LEMMA VertexOff ==
  ASSUME TopoInv, NEW p \in Vertices, ~ExistsEdgeIntersectingPoint(p)
  PROVE  OffEdges(Twice(p))
<1>1. PICK x, y \in Int : p = <<x, y>>
  <2>1. p \in Int \X Int  BY PointsAreInts
  <2>2. QED  BY <2>1
<1>2. PICK q : q = Twice(p)  OBVIOUS
<1>3. q = <<2 * x, 2 * y>> /\ q \in Int \X Int  BY <1>1, <1>2 DEF Twice
<1>4. SUFFICES ASSUME NEW e \in Edges, NEW j \in Places(geom[e]), SegmentDistance(geom[e], j, q) = 0
               PROVE  FALSE
  BY <1>2 DEF OffEdges
<1>5. PICK a \in Vertices, b \in Vertices :
        /\ a = geom[e][j] /\ b = geom[e][j + 1] /\ Adjacent(a, b)
        /\ a \in Range(geom[e]) /\ b \in Range(geom[e])
  BY EdgeSegment
<1>6. Distance(a, b, q) = 0  BY <1>4, <1>5 DEF SegmentDistance
<1>7. \/ \E v \in {a, b} : q[1] = 2 * v[1] /\ q[2] = 2 * v[2]
      \/ \E i, k \in Int : q[1] = 2 * i + 1 /\ q[2] = 2 * k
      \/ \E i, k \in Int : q[1] = 2 * i /\ q[2] = 2 * k + 1
  BY <1>3, <1>5, <1>6, OnSegment
<1>8. q[1] = 2 * x /\ q[2] = 2 * y  BY <1>3
<1>9. \E v \in {a, b} : 2 * x = 2 * v[1] /\ 2 * y = 2 * v[2]  BY <1>7, <1>8
<1>10. PICK v \in {a, b} : 2 * x = 2 * v[1] /\ 2 * y = 2 * v[2]  BY <1>9
<1>11. PICK i, k \in Int : v = <<i, k>>
  <2>1. v \in Int \X Int  BY PointsAreInts
  <2>2. QED  BY <2>1
<1>12. v = p  BY <1>1, <1>10, <1>11
<1>13. QED  BY <1>5, <1>12 DEF ExistsEdgeIntersectingPoint

-----------------------------------------------------------------------------
\* The face that the tables claim for a cell.
LEMMA ActualFace ==
  ASSUME TopoInv, Planar, NEW col, NowMap(col), NEW c \in Cells
  PROVE  (CHOOSE a \in Claims : c \in a[2])[1] = col[c]
<1>1. col[c] \in DOMAIN face  BY MapFacts
<1>2. PICK q \in Claims : q[1] = col[c]  BY <1>1, ClaimsAll
<1>3. \A a \in Claims : c \in a[2] <=> col[c] = a[1]
  <2>1. SUFFICES ASSUME NEW a \in Claims  PROVE c \in a[2] <=> col[c] = a[1]  OBVIOUS
  <2>2. PICK d \in Cells : a = Claimed(col, d)  BY ClaimsAre
  <2>3. a[1] = col[d] /\ a[2] = Part(col, col[d])  BY <2>2 DEF Claimed
  <2>4. QED  BY <2>3 DEF Part
<1>4. \E a \in Claims : c \in a[2]  BY <1>2, <1>3
<1>5. QED  BY <1>3, <1>4

\* The face found for the middle of a cell is that of the cell.
LEMMA CellFace ==
  ASSUME TopoInv, Planar, NEW col, NowMap(col), NEW c \in Cells \ {Outer}
  PROVE  lwt_GetFaceContainingPoint(<<2 * c[1] + 1, 2 * c[2] + 1>>) = col[c]
<1>1. PICK x, y \in Int : c = CellAt(x, y) /\ x \in -1 .. Width - 1 /\ y \in -1 .. Height - 1  BY CellIntro
<1>2. c = <<x, y>>  BY <1>1 DEF CellAt
<1>3. PICK q : q = <<2 * x + 1, 2 * y + 1>>  OBVIOUS
<1>4. q \in Int \X Int /\ q[1] = 2 * x + 1 /\ q[2] = 2 * y + 1  BY <1>3
<1>5. Holds(q, x, y)  BY <1>4 DEF Holds
<1>6. OffEdges(q)  BY <1>3, MiddleOff
<1>7. lwt_GetFaceContainingPoint(q) = col[CellAt(x, y)]  BY <1>4, <1>5, <1>6, FaceFound
<1>8. q = <<2 * c[1] + 1, 2 * c[2] + 1>>  BY <1>2, <1>3
<1>9. QED  BY <1>1, <1>7, <1>8

\* The face found for a vertex off the edges is that of the cells around it.
LEMMA VertexFace ==
  ASSUME TopoInv, Planar, NEW col, NowMap(col), NEW p \in Vertices, ~ExistsEdgeIntersectingPoint(p)
  PROVE  lwt_GetFaceContainingPoint(Twice(p)) = col[CellAt(p[1], p[2])]
<1>1. PICK x, y \in Int : p = <<x, y>>
  <2>1. p \in Int \X Int  BY PointsAreInts
  <2>2. QED  BY <2>1
<1>2. PICK q : q = Twice(p)  OBVIOUS
<1>3. q = <<2 * x, 2 * y>>  BY <1>1, <1>2 DEF Twice
<1>4. q \in Int \X Int /\ q[1] = 2 * x /\ q[2] = 2 * y  BY <1>3
<1>5. Holds(q, x, y)  BY <1>4 DEF Holds
<1>6. OffEdges(q)  BY <1>2, VertexOff
<1>7. lwt_GetFaceContainingPoint(q) = col[CellAt(x, y)]  BY <1>4, <1>5, <1>6, FaceFound
<1>8. QED  BY <1>1, <1>2, <1>7

\* The invariant implies that faces of points are found.
LEMMA FacesFound ==
  ASSUME TopoInv, Planar, FaceInv
  PROVE  FaceOfPoint
<1>1. PICK col : NowMap(col)  BY DEF FaceInv, NowMap
<1>2. \A c \in Cells \ {Outer} :
        lwt_GetFaceContainingPoint(<<2 * c[1] + 1, 2 * c[2] + 1>>)
          = (CHOOSE a \in Claims : c \in a[2])[1]
  <2>1. SUFFICES ASSUME NEW c \in Cells \ {Outer}
                 PROVE  lwt_GetFaceContainingPoint(<<2 * c[1] + 1, 2 * c[2] + 1>>)
                          = (CHOOSE a \in Claims : c \in a[2])[1]
    OBVIOUS
  <2>2. lwt_GetFaceContainingPoint(<<2 * c[1] + 1, 2 * c[2] + 1>>) = col[c]  BY <1>1, CellFace
  <2>3. PICK d \in Cells : d = c  OBVIOUS
  <2>4. (CHOOSE a \in Claims : d \in a[2])[1] = col[d]  BY <1>1, ActualFace
  <2>5. QED  BY <2>2, <2>3, <2>4
<1>3. ASSUME NEW p \in Vertices, ~ExistsEdgeIntersectingPoint(p)
      PROVE  lwt_GetFaceContainingPoint(Twice(p))
               = (CHOOSE a \in Claims : CellAt(p[1], p[2]) \in a[2])[1]
  <2>1. PICK c \in Cells : c = CellAt(p[1], p[2])  BY NodeCell
  <2>2. lwt_GetFaceContainingPoint(Twice(p)) = col[c]  BY <1>1, <1>3, <2>1, VertexFace
  <2>3. (CHOOSE a \in Claims : c \in a[2])[1] = col[c]  BY <1>1, ActualFace
  <2>4. QED  BY <2>1, <2>2, <2>3
<1>4. QED  BY <1>2, <1>3 DEF FaceOfPoint

\* Nodes may come where their face is that of the map.
LEMMA OtherNodes ==
  ASSUME NEW a, NEW in, NEW G, NEW D, NEW s, NEW F, NEW col, FaceMap(a, in, G, D, s, F, col),
         NEW a2, NEW in2,
         \A n \in DOMAIN a2 : in2[n] # None => in2[n] = col[CellAt(a2[n][1], a2[n][2])]
  PROVE  FaceMap(a2, in2, G, D, s, F, col)
  BY DEF FaceMap

\* A new node gets the face found for its place, ...
LEMMA AddNodeFaces ==
  ASSUME TopoInv, Planar, NEW n \in Nodes, NEW p \in Sites, AddIsoNode(n, p), NEW col, NowMap(col)
  PROVE  NowMap(col)'
<1>1. NowMap(col)  OBVIOUS
<1> DEFINE a2 == at'
           in2 == inface'
           f == lwt_GetFaceContainingPoint(Twice(p))
<1>2. /\ a2 = WithEdge(at, n, p) /\ in2 = WithEdge(inface, n, f)
      /\ geom' = geom /\ Darts' = Darts /\ side' = side /\ face' = face
      /\ ~ExistsEdgeIntersectingPoint(p)
  BY DEF AddIsoNode, Darts
<1>3. f = col[CellAt(p[1], p[2])]
  <2>1. p \in Vertices  BY TopologyAssumption
  <2>2. QED  BY <1>1, <1>2, <2>1, VertexFace
<1> HIDE DEF a2, in2, f
<1>4. DOMAIN inface = DOMAIN at  BY InvFacts
<1>5. /\ DOMAIN a2 = DOMAIN at \cup {n} /\ a2[n] = p /\ in2[n] = f
      /\ \A m \in DOMAIN at : m # n => a2[m] = at[m] /\ in2[m] = inface[m]
  BY <1>2, <1>4 DEF WithEdge
<1>6. \A m \in DOMAIN at : inface[m] # None => inface[m] = col[CellAt(at[m][1], at[m][2])]
  BY <1>1, MapFacts
<1>7. \A m \in DOMAIN a2 : in2[m] # None => in2[m] = col[CellAt(a2[m][1], a2[m][2])]
  BY <1>3, <1>5, <1>6
<1>8. FaceMap(at, inface, geom, Darts, side, face, col)  BY <1>1 DEF NowMap
<1>9. FaceMap(a2, in2, geom, Darts, side, face, col)  BY <1>7, <1>8, OtherNodes
<1>10. QED  BY <1>2, <1>9 DEF NowMap, a2, in2

\* ... and one that moves stays in its face.
LEMMA MoveNodeFaces ==
  ASSUME TopoInv, Planar, NEW n \in DOMAIN at, NEW p \in Sites, MoveIsoNode(n, p), NEW col, NowMap(col)
  PROVE  NowMap(col)'
<1>1. NowMap(col)  OBVIOUS
<1> DEFINE a2 == at'
           f == lwt_GetFaceContainingPoint(Twice(p))
<1>2. /\ a2 = [at EXCEPT ![n] = p] /\ inface[n] = f /\ inface' = inface
      /\ geom' = geom /\ Darts' = Darts /\ side' = side /\ face' = face
      /\ ~ExistsEdgeIntersectingPoint(p)
  BY DEF MoveIsoNode, Darts
<1>3. f = col[CellAt(p[1], p[2])]
  <2>1. p \in Vertices  BY TopologyAssumption
  <2>2. QED  BY <1>1, <1>2, <2>1, VertexFace
<1> HIDE DEF a2, f
<1>4. at \in [DOMAIN at -> Vertices]  BY InvFacts
<1>5. DOMAIN a2 = DOMAIN at /\ a2[n] = p /\ \A m \in DOMAIN at : m # n => a2[m] = at[m]
  BY <1>2, <1>4
<1>6. \A m \in DOMAIN at : inface[m] # None => inface[m] = col[CellAt(at[m][1], at[m][2])]
  BY <1>1, MapFacts
<1>7. \A m \in DOMAIN a2 : inface[m] # None => inface[m] = col[CellAt(a2[m][1], a2[m][2])]
  BY <1>2, <1>3, <1>5, <1>6
<1>8. FaceMap(at, inface, geom, Darts, side, face, col)  BY <1>1 DEF NowMap
<1>9. FaceMap(a2, inface, geom, Darts, side, face, col)  BY <1>7, <1>8, OtherNodes
<1>10. QED  BY <1>2, <1>9 DEF NowMap, a2

\* Calls on nodes keep the map.
LEMMA NodeOpsFaces ==
  ASSUME TopoInv, Planar, NodeOps, NEW col, NowMap(col)
  PROVE  NowMap(col)'
  BY AddNodeFaces, MoveNodeFaces, RemoveNodeFaces DEF NodeOps

-----------------------------------------------------------------------------
\* At first the one cell map is that of face 0.
LEMMA FaceStart == Init => FaceInv
<1> SUFFICES ASSUME Init PROVE FaceInv
  OBVIOUS
<1>1. /\ DOMAIN at = {} /\ DOMAIN geom = {} /\ DOMAIN face = {Universe}
  BY DEF Init
<1>2. Darts = {}  BY <1>1 DEF Darts, Init
<1> DEFINE col == [c \in Cells |-> Universe]
<1>3. \A w : w \notin WallsOf(geom)  BY <1>1 DEF WallsOf
<1>4. Smooth(WallsOf(geom), col)
  <2>1. \A s \in UnitSteps : col[LeftCell(s)] = col[RightCell(s)]
    <3>1. SUFFICES ASSUME NEW s \in UnitSteps  PROVE col[LeftCell(s)] = col[RightCell(s)]  OBVIOUS
    <3>2. LeftCell(s) \in Cells /\ RightCell(s) \in Cells  BY StepCells
    <3>3. QED  BY <3>2
  <2> HIDE DEF col
  <2>2. QED  BY <2>1, SmoothIntro
<1>5. Finest(WallsOf(geom), col)
  <2>1. SUFFICES ASSUME NEW k, Smooth(WallsOf(geom), k), NEW c \in Cells, NEW d \in Cells
                 PROVE  k[c] = k[d]
    BY DEF Finest
  <2>2. PICK W : W = WallsOf(geom)  OBVIOUS
  <2>3. Smooth(W, k) /\ \A w : w \notin W  BY <1>3, <2>1, <2>2
  <2>4. k[c] = k[Outer] /\ k[d] = k[Outer]  BY <2>3, SmoothNowhere
  <2>5. QED  BY <2>4
<1>6. /\ col \in [Cells -> DOMAIN face] /\ \A f \in DOMAIN face : \E c \in Cells : col[c] = f
      /\ col[Outer] = Universe
  <2>1. Outer \in Cells  BY DEF Cells
  <2>2. QED  BY <1>1, <2>1
<1> HIDE DEF col
<1>7. DOMAIN face \ {Universe} = {}  BY <1>1
<1>8. FaceMap(at, inface, geom, Darts, side, face, col)
  BY <1>1, <1>2, <1>4, <1>5, <1>6, <1>7 DEF FaceMap
<1>9. QED  BY <1>8 DEF FaceInv

\* Every operation but the change of an edge's line keeps sides, containing faces and
\* faces those of the plane.
LEMMA FacesInductive ==
  ASSUME TopoInv, Planar, FaceInv, TopoInv', Planar', [Next /\ ~ChangeOps]_vars
  PROVE  FaceInv'
<1>0. PICK col : NowMap(col)  BY DEF FaceInv, NowMap
<1>1. CASE RelationOps \/ UNCHANGED vars
  <2>1. NowMap(col)'  BY <1>0, <1>1, RelationOpsFaces
  <2>2. QED  BY <2>1 DEF FaceInv, NowMap
<1>2. CASE NodeOps
  <2>1. NowMap(col)'  BY <1>0, <1>2, NodeOpsFaces
  <2>2. QED  BY <2>1 DEF FaceInv, NowMap
<1>3. CASE AddOps
  <2>1. NewFaces(col)  BY <1>0, <1>3, AddOpsFaces
  <2>2. QED  BY <2>1 DEF NewFaces, FaceInv, NowMap
<1>4. CASE SplitOps
  <2>1. NowMap(col)'  BY <1>0, <1>4, SplitOpsFaces
  <2>2. QED  BY <2>1 DEF FaceInv, NowMap
<1>5. CASE HealOps
  <2>1. NowMap(col)'  BY <1>0, <1>5, HealOpsFaces
  <2>2. QED  BY <2>1 DEF FaceInv, NowMap
<1>6. CASE RemOps
  <2>1. \E e \in Edges : \E fl, gone, col2 :
          RemCall(e, fl, gone) /\ col2 = FilledMap(fl, gone, col) /\ NowMap(col2)'
    BY <1>0, <1>6, RemOpsFaces
  <2>2. QED  BY <2>1 DEF FaceInv, NowMap
<1>7. QED  BY <1>1, <1>2, <1>3, <1>4, <1>5, <1>6 DEF Next

-----------------------------------------------------------------------------
(* The faces after any sequence of calls. *)

\* ST_ChangeEdgeGeom is never called.  What it checks of a new line is not
\* enough for all lines: whether a node would be swept over is decided by whether
\* the old line and the new one wind around it, not by how often.
NoLineChanges == [][~ChangeOps]_vars

\* The invariant holds after any calls but those that move lines.
LEMMA FacesReached ==
  ASSUME AnySplit = FALSE
  PROVE  Spec /\ NoLineChanges => [](TopoInv /\ Planar /\ FaceInv)
<1>1. Init => TopoInv /\ Planar /\ FaceInv  BY Start, PlanarStart, FaceStart
<1>2. TopoInv /\ Planar /\ [Next]_vars => TopoInv' /\ Planar'  BY Inductive, PlanarInductive
<1>3. TopoInv /\ Planar /\ FaceInv /\ TopoInv' /\ Planar' /\ [Next /\ ~ChangeOps]_vars => FaceInv'
  BY FacesInductive
<1>4. [Next]_vars /\ [~ChangeOps]_vars => [Next /\ ~ChangeOps]_vars  OBVIOUS
<1>5. QED  BY <1>1, <1>2, <1>3, <1>4, PTL DEF Spec, NoLineChanges

\* left_face, right_face and containing_face say after any sequence of calls
\* what the plane says, as far as no line of an edge is changed: two of them are
\* equal just if they stand for one region.  In particular what AddFaceSplit
\* changes, and what ST_RemEdge... merges, is neither too much nor too little.
THEOREM FacesAlwaysMatch ==
  ASSUME AnySplit = FALSE
  PROVE  Spec /\ NoLineChanges => []FacesMatchPlane
<1>1. TopoInv /\ Planar /\ FaceInv => FacesMatchPlane  BY FacesHold
<1>2. QED  BY <1>1, FacesReached, PTL

\* The mbr of a face is always the box of its region: a box that is too small
\* would hide the face from lookups, one too large would stay so for good, as
\* AddFaceSplit takes over the box of the face it splits.
THEOREM BoxesAlwaysExact ==
  ASSUME AnySplit = FALSE
  PROVE  Spec /\ NoLineChanges => []MbrExact
<1>1. TopoInv /\ Planar /\ FaceInv => MbrExact  BY FacesHold
<1>2. QED  BY <1>1, FacesReached, PTL

\* The neighbours of a new edge, at both its ends, always agree on the face that
\* it lies in: lwt_AddEdge... never refuses an edge with "Side-location conflict"
\* or "adjacent edges ... bind different face".
THEOREM NewEdgesFindTheirFace ==
  ASSUME AnySplit = FALSE
  PROVE  Spec /\ NoLineChanges => []AddEdgeFindsFace
<1>1. TopoInv /\ Planar /\ FaceInv => AddEdgeFindsFace  BY FindsFace
<1>2. QED  BY <1>1, FacesReached, PTL

\* lwt_GetFaceContainingPoint finds the face whose region has the point, on
\* which isolated nodes and edges rely.
THEOREM PointsFindTheirFace ==
  ASSUME AnySplit = FALSE
  PROVE  Spec /\ NoLineChanges => []FaceOfPoint
<1>1. TopoInv /\ Planar /\ FaceInv => FaceOfPoint  BY FacesFound
<1>2. QED  BY <1>1, FacesReached, PTL

-----------------------------------------------------------------------------
(* The rows of relation that name faces. *)

\* What a row may name.
ElementTypes == {NodeType, EdgeType, FaceType}

\* Every row is one of a TopoGeometry.
Formed(R) == \A row \in R : /\ row = <<row[1], row[2], row[3]>>
                            /\ row[1] \in TopoGeoms /\ row[2] \in ElementTypes
\* Rows of faces in R name faces F, and not the universe.
FaceRowsIn(R, F) == \A row \in R : row[2] = FaceType => row[3] \in DOMAIN F \ {Universe}
\* What is kept of the rows of relation.
RowsTyped == Formed(relation) /\ FaceRowsIn(relation, face)

\* The parts of a row.
LEMMA RowParts ==
  ASSUME NEW t, NEW type, NEW x, NEW row, row = <<t, type, x>>
  PROVE  row[1] = t /\ row[2] = type /\ row[3] = x
  OBVIOUS

\* All rows of R are old ones, or have the TopoGeometry of an old one.
Taken(R) == \A row \in R : \/ row \in relation
                           \/ \E t \in TopoGeoms, type \in ElementTypes : \E x : row = <<t, type, x>>

\* Such rows are of TopoGeometries.
LEMMA TakenFormed ==
  ASSUME Formed(relation), NEW R, Taken(R)
  PROVE  Formed(R)
<1>1. SUFFICES ASSUME NEW row \in R
               PROVE  /\ row = <<row[1], row[2], row[3]>>
                      /\ row[1] \in TopoGeoms /\ row[2] \in ElementTypes
  BY DEF Formed
<1>2. CASE row \in relation  BY <1>2 DEF Formed
<1>3. ASSUME NEW t \in TopoGeoms, NEW type \in ElementTypes, NEW x, row = <<t, type, x>>
      PROVE  /\ row = <<row[1], row[2], row[3]>>
             /\ row[1] \in TopoGeoms /\ row[2] \in ElementTypes
  BY <1>3, RowParts
<1>4. QED  BY <1>2, <1>3 DEF Taken

\* All updates of rows make such rows, ...
LEMMA TakenUpdates ==
  ASSUME Formed(relation), NEW f, NEW g, NEW h
  PROVE  /\ Taken(relation) /\ Taken(updateTopoGeomFaceSplit(f, g, h))
         /\ Taken(updateTopoGeomFaceHeal(f, g, h))
         /\ Taken(updateTopoGeomEdgeSplit(f, g)) /\ Taken(updateTopoGeomEdgeHeal(f, g, h))
<1>1. Taken(relation)  BY DEF Taken
<1>2. \A row \in relation : row[1] \in TopoGeoms  BY DEF Formed
<1>3. NodeType \in ElementTypes /\ EdgeType \in ElementTypes /\ FaceType \in ElementTypes
  BY DEF ElementTypes
<1>4. Taken(updateTopoGeomFaceSplit(f, g, h))
  <2>1. SUFFICES ASSUME NEW row \in updateTopoGeomFaceSplit(f, g, h), row \notin relation
                 PROVE  \E t \in TopoGeoms, type \in ElementTypes : \E x : row = <<t, type, x>>
    BY DEF Taken
  <2>2. PICK old \in relation : \E new : row = <<old[1], FaceType, new>>
    BY <2>1 DEF updateTopoGeomFaceSplit
  <2>3. QED  BY <1>2, <1>3, <2>2
<1>5. Taken(updateTopoGeomFaceHeal(f, g, h))
  <2>1. SUFFICES ASSUME NEW row \in updateTopoGeomFaceHeal(f, g, h), row \notin relation
                 PROVE  \E t \in TopoGeoms, type \in ElementTypes : \E x : row = <<t, type, x>>
    BY DEF Taken
  <2>2. PICK old \in relation : row = <<old[1], FaceType, h>>
    BY <2>1 DEF updateTopoGeomFaceHeal
  <2>3. QED  BY <1>2, <1>3, <2>2
<1>6. Taken(updateTopoGeomEdgeSplit(f, g))
  <2>1. SUFFICES ASSUME NEW row \in updateTopoGeomEdgeSplit(f, g), row \notin relation
                 PROVE  \E t \in TopoGeoms, type \in ElementTypes : \E x : row = <<t, type, x>>
    BY DEF Taken
  <2>2. PICK old \in relation : \E new : row = <<old[1], EdgeType, new>>
    BY <2>1 DEF updateTopoGeomEdgeSplit, RowsOf
  <2>3. QED  BY <1>2, <1>3, <2>2
<1>7. Taken(updateTopoGeomEdgeHeal(f, g, h))
  <2>1. SUFFICES ASSUME NEW row \in updateTopoGeomEdgeHeal(f, g, h), row \notin relation
                 PROVE  \E t \in TopoGeoms, type \in ElementTypes : \E x : row = <<t, type, x>>
    BY DEF Taken
  <2>2. PICK old \in relation : \E new : row = <<old[1], EdgeType, new>>
    BY <2>1 DEF updateTopoGeomEdgeHeal, RowsOf
  <2>3. QED  BY <1>2, <1>3, <2>2
<1>8. QED  BY <1>1, <1>4, <1>5, <1>6, <1>7

\* Only calls that add or remove edges, or elements of a TopoGeometry, touch
\* rows of faces.
LEMMA SameFaceRows ==
  ASSUME NodeOps \/ SplitOps \/ HealOps \/ ChangeOps \/ UNCHANGED vars
  PROVE  \A row : row[2] = FaceType => (row \in relation' <=> row \in relation)
<1>1. CASE relation' = relation  BY <1>1
<1>2. EdgeType # FaceType  BY DEF EdgeType, FaceType
<1>3. ASSUME NEW e, NEW f, relation' = updateTopoGeomEdgeSplit(e, f)
      PROVE  \A row : row[2] = FaceType => (row \in relation' <=> row \in relation)
  BY <1>2, <1>3 DEF updateTopoGeomEdgeSplit
<1>4. ASSUME NEW e, NEW f, NEW k, relation' = updateTopoGeomEdgeHeal(e, f, k)
      PROVE  \A row : row[2] = FaceType => (row \in relation' <=> row \in relation)
  BY <1>2, <1>4 DEF updateTopoGeomEdgeHeal, RowsOf
<1>5. CASE NodeOps
  <2>1. relation' = relation  BY <1>5 DEF NodeOps, AddIsoNode, MoveIsoNode, RemoveIsoNode
  <2>2. QED  BY <1>1, <2>1
<1>6. CASE SplitOps
  <2>1. PICK e \in Edges, n \in Nodes, p \in Sites, f \in L!NewEdgeIds(Edges) :
          \/ ModEdgeSplit(e, n, p, f)
          \/ \E g \in L!NewEdgeIds(Edges \cup {f}) : NewEdgesSplit(e, n, p, f, g)
    BY <1>6, Zenon DEF SplitOps
  <2>2. relation' = relation \/ relation' = updateTopoGeomEdgeSplit(e, f)
    BY <2>1 DEF ModEdgeSplit, NewEdgesSplit
  <2>3. QED  BY <1>1, <1>3, <2>2
<1>7. CASE HealOps
  <2>1. PICK e1 \in Edges, e2 \in Edges : \E x \in {e1, -e1}, y \in {e2, -e2} :
          \E k \in {e1} \cup L!NewEdgeIds(Edges) : HealEdges(e1, e2, x, y, k)
    BY <1>7, Zenon DEF HealOps
  <2>2. PICK k : relation' = updateTopoGeomEdgeHeal(e1, e2, k)
    BY <2>1 DEF HealEdges
  <2>3. QED  BY <1>4, <2>2
<1>8. CASE ChangeOps \/ UNCHANGED vars
  <2>1. relation' = relation  BY <1>8 DEF ChangeOps, ChangeEdgeGeom, vars
  <2>2. QED  BY <1>1, <2>1
<1>9. QED  BY <1>5, <1>6, <1>7, <1>8

\* ... and so does every step.
LEMMA FormedStep ==
  ASSUME TopoInv, Formed(relation), [Next]_vars
  PROVE  Formed(relation')
<1>1. /\ Taken(relation)
      /\ \A f, g : Taken(updateTopoGeomEdgeSplit(f, g))
      /\ \A f, g, h : Taken(updateTopoGeomFaceSplit(f, g, h))
      /\ \A f, g, h : Taken(updateTopoGeomFaceHeal(f, g, h))
      /\ \A f, g, h : Taken(updateTopoGeomEdgeHeal(f, g, h))
  BY TakenUpdates
<1>2. CASE NodeOps \/ ChangeOps \/ UNCHANGED vars
  <2>1. relation' = relation
    BY <1>2 DEF NodeOps, AddIsoNode, MoveIsoNode, RemoveIsoNode, ChangeOps, ChangeEdgeGeom, vars
  <2>2. QED  BY <1>1, <2>1, TakenFormed
<1>3. CASE AddOps
  <2>1. PICK e \in L!NewEdgeIds(Edges), m, n \in DOMAIN at, g \in Lines :
          AddIsoEdge(e, m, n, g) \/ \E modFace \in BOOLEAN : AddEdge(e, m, n, g, modFace)
    BY <1>3, Zenon DEF AddOps
  <2>2. relation' = relation \/ \E f, h, k : relation' = updateTopoGeomFaceSplit(f, h, k)
    <3>1. CASE AddIsoEdge(e, m, n, g)  BY <3>1 DEF AddIsoEdge
    <3>2. ASSUME NEW modFace \in BOOLEAN, AddEdge(e, m, n, g, modFace)
          PROVE  relation' = relation \/ \E f, h, k : relation' = updateTopoGeomFaceSplit(f, h, k)
      BY <3>2 DEF AddEdge
    <3>3. QED  BY <2>1, <3>1, <3>2
  <2>3. Taken(relation')  BY <1>1, <2>2
  <2>4. QED  BY <2>3, TakenFormed
<1>4. CASE SplitOps
  <2>1. PICK e \in Edges, n \in Nodes, p \in Sites, f \in L!NewEdgeIds(Edges) :
          \/ ModEdgeSplit(e, n, p, f)
          \/ \E g \in L!NewEdgeIds(Edges \cup {f}) : NewEdgesSplit(e, n, p, f, g)
    BY <1>4, Zenon DEF SplitOps
  <2>2. relation' = relation \/ relation' = updateTopoGeomEdgeSplit(e, f)
    BY <2>1 DEF ModEdgeSplit, NewEdgesSplit
  <2>3. Taken(relation')  BY <1>1, <2>2
  <2>4. QED  BY <2>3, TakenFormed
<1>5. CASE HealOps
  <2>1. PICK e1 \in Edges, e2 \in Edges : \E x \in {e1, -e1}, y \in {e2, -e2} :
          \E k \in {e1} \cup L!NewEdgeIds(Edges) : HealEdges(e1, e2, x, y, k)
    BY <1>5, Zenon DEF HealOps
  <2>2. PICK k : relation' = updateTopoGeomEdgeHeal(e1, e2, k)
    BY <2>1 DEF HealEdges
  <2>3. Taken(relation')  BY <1>1, <2>2
  <2>4. QED  BY <2>3, TakenFormed
<1>6. CASE RemOps
  <2>1. PICK e \in Edges : RemIsoEdge(e) \/ \E modFace \in BOOLEAN : RemEdge(e, modFace)
    BY <1>6, Zenon DEF RemOps
  <2>2. relation' = relation \/ \E f, g, h : relation' = updateTopoGeomFaceHeal(f, g, h)
    <3>1. CASE RemIsoEdge(e)  BY <3>1 DEF RemIsoEdge
    <3>2. ASSUME NEW modFace \in BOOLEAN, RemEdge(e, modFace)
          PROVE  relation' = relation \/ \E f, g, h : relation' = updateTopoGeomFaceHeal(f, g, h)
      BY <3>2 DEF RemEdge
    <3>3. QED  BY <2>1, <3>1, <3>2
  <2>3. Taken(relation')  BY <1>1, <2>2
  <2>4. QED  BY <2>3, TakenFormed
<1>7. CASE RelationOps
  <2>1. /\ NodeType \in ElementTypes /\ EdgeType \in ElementTypes /\ FaceType \in ElementTypes
    BY DEF ElementTypes
  <2>2. \/ \A row \in relation' : row \in relation
        \/ \E t \in TopoGeoms, type \in ElementTypes : \E x : relation' = relation \cup {<<t, type, x>>}
    BY <1>7, <2>1 DEF RelationOps, TopoGeom_addElement, TopoGeom_remElement, clearTopoGeom
  <2>3. Taken(relation')  BY <2>2 DEF Taken
  <2>4. QED  BY <2>3, TakenFormed
<1>8. QED  BY <1>2, <1>3, <1>4, <1>5, <1>6, <1>7 DEF Next

-----------------------------------------------------------------------------
(* TopoGeometries keep their cells. *)

\* The row that says TopoGeometry t has face f.
FaceRow(t, f) == <<t, FaceType, f>>
\* The rows that updateTopoGeomFaceSplit and updateTopoGeomFaceHeal ask for.
RowsOfFace(f) == {row \in relation : row[2] = FaceType /\ row[3] = f}

\* Its parts.
LEMMA FaceRowParts ==
  ASSUME NEW t, NEW f, NEW row, row = FaceRow(t, f)
  PROVE  row[1] = t /\ row[2] = FaceType /\ row[3] = f
  BY DEF FaceRow

\* They are such rows of face f ...
LEMMA FaceRows ==
  ASSUME Formed(relation), NEW f, NEW row
  PROVE  row \in RowsOfFace(f) <=> row \in relation /\ row = FaceRow(row[1], f)
<1>1. ASSUME row \in RowsOfFace(f)  PROVE row \in relation /\ row = FaceRow(row[1], f)
  BY <1>1 DEF RowsOfFace, Formed, FaceRow
<1>2. ASSUME row \in relation, row = FaceRow(row[1], f)  PROVE row \in RowsOfFace(f)
  <2>1. row[2] = FaceType /\ row[3] = f  BY <1>2, FaceRowParts
  <2>2. QED  BY <1>2, <2>1 DEF RowsOfFace
<1>3. QED  BY <1>1, <1>2

\* ... so TopoGeometry t has one of them just if it has f.
LEMMA FaceRowsFound ==
  ASSUME Formed(relation), NEW t, NEW f, NEW g
  PROVE  /\ FaceRow(t, g) \in RowsOfFace(f) <=> g = f /\ FaceRow(t, f) \in relation
         /\ \A h : (\E row \in RowsOfFace(f) : FaceRow(t, g) = <<row[1], FaceType, h>>)
                     <=> g = h /\ FaceRow(t, f) \in relation
<1>1. PICK r : r = FaceRow(t, g)  OBVIOUS
<1>2. r[1] = t /\ r[2] = FaceType /\ r[3] = g  BY <1>1, FaceRowParts
<1>3. r \in RowsOfFace(f) <=> g = f /\ r \in relation  BY <1>2 DEF RowsOfFace
<1>4. FaceRow(t, g) \in RowsOfFace(f) <=> g = f /\ FaceRow(t, f) \in relation  BY <1>1, <1>3
<1>5. ASSUME NEW h, NEW row \in RowsOfFace(f), FaceRow(t, g) = <<row[1], FaceType, h>>
      PROVE  g = h /\ FaceRow(t, f) \in relation
  <2>1. row \in relation /\ row = FaceRow(row[1], f)  BY FaceRows
  <2>2. PICK u : u = row[1]  OBVIOUS
  <2>3. r = FaceRow(u, h)  BY <1>1, <1>5, <2>2 DEF FaceRow
  <2>4. r[1] = u /\ r[3] = h  BY <2>3, FaceRowParts
  <2>5. QED  BY <1>2, <2>1, <2>2, <2>4
<1>6. ASSUME NEW h, g = h, FaceRow(t, f) \in relation
      PROVE  \E row \in RowsOfFace(f) : FaceRow(t, g) = <<row[1], FaceType, h>>
  <2>1. PICK row : row = FaceRow(t, f)  OBVIOUS
  <2>2. row[1] = t /\ row[2] = FaceType /\ row[3] = f  BY <2>1, FaceRowParts
  <2>3. row \in RowsOfFace(f)  BY <1>6, <2>1, <2>2 DEF RowsOfFace
  <2>4. FaceRow(t, g) = <<row[1], FaceType, h>>  BY <1>6, <2>2 DEF FaceRow
  <2>5. QED  BY <2>3, <2>4
<1>7. QED  BY <1>4, <1>5, <1>6

\* Which faces a TopoGeometry has after the update of a split face's rows.
LEMMA SplitShares ==
  ASSUME Formed(relation), NEW t, NEW f, NEW new1, NEW new2, NEW g
  PROVE  FaceRow(t, g) \in updateTopoGeomFaceSplit(f, new1, new2)
           <=> \/ FaceRow(t, g) \in relation /\ (new2 = None \/ g # f)
               \/ g \in {new1, new2} \ {None} /\ FaceRow(t, f) \in relation
<1>1. PICK r : r = FaceRow(t, g)  OBVIOUS
<1>2. r \in updateTopoGeomFaceSplit(f, new1, new2)
        <=> \/ r \in relation /\ (new2 = None \/ r \notin RowsOfFace(f))
            \/ \E h \in {new1, new2} \ {None} : \E row \in RowsOfFace(f) : r = <<row[1], FaceType, h>>
  BY DEF updateTopoGeomFaceSplit, RowsOfFace
<1>3. r \in RowsOfFace(f) <=> g = f /\ FaceRow(t, f) \in relation  BY <1>1, FaceRowsFound
<1>4. \A h : (\E row \in RowsOfFace(f) : r = <<row[1], FaceType, h>>)
                     <=> g = h /\ FaceRow(t, f) \in relation
  BY <1>1, FaceRowsFound
<1>5. r \in relation => (r \notin RowsOfFace(f) <=> g # f)  BY <1>1, <1>3
<1>6. (\E h \in {new1, new2} \ {None} : \E row \in RowsOfFace(f) : r = <<row[1], FaceType, h>>)
        <=> g \in {new1, new2} \ {None} /\ FaceRow(t, f) \in relation
  BY <1>4
<1>7. QED  BY <1>1, <1>2, <1>5, <1>6

\* And after the update when face h takes the place of f and g.
LEMMA HealShares ==
  ASSUME Formed(relation), NEW t, NEW f, NEW g, NEW h, NEW x
  PROVE  FaceRow(t, x) \in updateTopoGeomFaceHeal(f, g, h)
           <=> \/ FaceRow(t, x) \in relation /\ (x \notin {f, g} \/ x = h)
               \/ h \notin {f, g} /\ x = h /\ FaceRow(t, g) \in relation
<1>1. PICK r : r = FaceRow(t, x)  OBVIOUS
<1>2. r \in updateTopoGeomFaceHeal(f, g, h)
        <=> IF h \in {f, g}
            THEN r \in relation /\ (r \in RowsOfFace(f) \cup RowsOfFace(g) => r \in RowsOfFace(h))
            ELSE \/ r \in relation /\ r \notin RowsOfFace(f) \cup RowsOfFace(g)
                 \/ \E row \in RowsOfFace(g) : r = <<row[1], FaceType, h>>
  BY DEF updateTopoGeomFaceHeal, RowsOfFace
<1>3. \A k : r \in RowsOfFace(k) <=> x = k /\ r \in relation
  <2>1. ASSUME NEW k  PROVE r \in RowsOfFace(k) <=> x = k /\ FaceRow(t, k) \in relation
    BY <1>1, FaceRowsFound
  <2>2. QED  BY <1>1, <2>1
<1>4. (\E row \in RowsOfFace(g) : r = <<row[1], FaceType, h>>)
        <=> x = h /\ FaceRow(t, g) \in relation
  <2>1. \A k : (\E row \in RowsOfFace(g) : FaceRow(t, x) = <<row[1], FaceType, k>>)
                <=> x = k /\ FaceRow(t, g) \in relation
    BY FaceRowsFound
  <2>2. QED  BY <1>1, <2>1
<1>5. QED  BY <1>1, <1>2, <1>3, <1>4

-----------------------------------------------------------------------------
\* The cells that a TopoGeometry has by its faces before a call, where the map
\* is col, and after it, where it is col2.
SharesKept(col, col2) ==
  \A t \in TopoGeoms, c \in Cells :
    FaceRow(t, col2[c]) \in relation' <=> FaceRow(t, col[c]) \in relation

\* The tables that a call leaves have a map that keeps all shares, and rows only
\* of faces that there are.
Carried(col) ==
  /\ \E col2 : NowMap(col2)' /\ SharesKept(col, col2)
  /\ FaceRowsIn(relation', face')

\* What a map of the next tables has.
LEMMA NextMap ==
  ASSUME NEW col, NowMap(col)'
  PROVE  /\ col \in [Cells -> DOMAIN face'] /\ \A f \in DOMAIN face' : \E c \in Cells : col[c] = f
         /\ col[Outer] = Universe
  BY DEF NowMap, FaceMap

\* Face 0 is never removed.
LEMMA UniverseIsFace ==
  ASSUME NEW col, NowMap(col)
  PROVE  Universe \in DOMAIN face
<1>1. Outer \in Cells  BY DEF Cells
<1>2. QED  BY <1>1, MapFacts

\* A TopoGeometry has only faces that there are.
LEMMA NamedFace ==
  ASSUME RowsTyped, NEW t, NEW f, FaceRow(t, f) \in relation
  PROVE  f \in DOMAIN face /\ f # Universe
<1>1. PICK r : r = FaceRow(t, f)  OBVIOUS
<1>2. r[2] = FaceType /\ r[3] = f  BY <1>1, FaceRowParts
<1>3. QED  BY <1>1, <1>2 DEF RowsTyped, FaceRowsIn

\* Rows of faces of R are those of TopoGeometries.
LEMMA FormedFaceRows ==
  ASSUME NEW R, Formed(R), NEW F,
         \A t \in TopoGeoms : \A f : FaceRow(t, f) \in R => f \in DOMAIN F \ {Universe}
  PROVE  FaceRowsIn(R, F)
<1>1. SUFFICES ASSUME NEW row \in R, row[2] = FaceType  PROVE row[3] \in DOMAIN F \ {Universe}
  BY DEF FaceRowsIn
<1>2. row[1] \in TopoGeoms /\ row = FaceRow(row[1], row[3])  BY <1>1 DEF Formed, FaceRow
<1>3. QED  BY <1>2

\* Where the map stays and rows of faces do, shares are kept.
LEMMA SameMapCarried ==
  ASSUME RowsTyped, Formed(relation'), NEW col, NowMap(col), NowMap(col)',
         \A row : row[2] = FaceType => (row \in relation' <=> row \in relation)
  PROVE  Carried(col)
<1>1. \A t, f : FaceRow(t, f) \in relation' <=> FaceRow(t, f) \in relation
  <2>1. SUFFICES ASSUME NEW t, NEW f
                 PROVE  FaceRow(t, f) \in relation' <=> FaceRow(t, f) \in relation
    OBVIOUS
  <2>2. PICK r : r = FaceRow(t, f)  OBVIOUS
  <2>3. r[2] = FaceType  BY <2>2, FaceRowParts
  <2>4. QED  BY <2>2, <2>3
<1>2. SharesKept(col, col)  BY <1>1 DEF SharesKept
<1>3. DOMAIN face' = DOMAIN face
  <2>1. /\ col \in [Cells -> DOMAIN face] /\ \A f \in DOMAIN face : \E c \in Cells : col[c] = f
    BY MapFacts
  <2>2. /\ col \in [Cells -> DOMAIN face'] /\ \A f \in DOMAIN face' : \E c \in Cells : col[c] = f
    BY NextMap
  <2>3. QED  BY <2>1, <2>2
<1>4. FaceRowsIn(relation', face')  BY <1>3 DEF RowsTyped, FaceRowsIn
<1>5. QED  BY <1>2, <1>4 DEF Carried

\* The map after a new edge.
LEMMA NewFacesCarried ==
  ASSUME RowsTyped, Formed(relation'), NEW col, NowMap(col), NewFaces(col)
  PROVE  Carried(col)
<1>1. PICK col2, f, ids :
        /\ NowMap(col2)' /\ f \in DOMAIN face /\ Recoloured(face, face', col, col2, f, ids)
        /\ relation' = IF ids = <<>> \/ f = Universe THEN relation
                       ELSE updateTopoGeomFaceSplit(f, ids[1], ids[2])
  BY DEF NewFaces
<1>2. /\ col \in [Cells -> DOMAIN face] /\ \A g \in DOMAIN face : \E c \in Cells : col[c] = g
      /\ Universe \in DOMAIN face
  BY MapFacts, UniverseIsFace
<1>3. col2 \in [Cells -> DOMAIN face']  BY <1>1, NextMap
<1>4. \A c \in Cells : col[c] # f => col2[c] = col[c]  BY <1>1 DEF Recoloured
<1>5. \A g \in DOMAIN face : g # f => g \in DOMAIN face'
  <2>1. SUFFICES ASSUME NEW g \in DOMAIN face, g # f  PROVE g \in DOMAIN face'  OBVIOUS
  <2>2. PICK c \in Cells : col[c] = g  BY <1>2
  <2>3. QED  BY <1>3, <1>4, <2>1, <2>2
<1>6. CASE f = Universe
  <2>1. relation' = relation  BY <1>1, <1>6
  <2>2. SharesKept(col, col2)
    <3>1. SUFFICES ASSUME NEW t \in TopoGeoms, NEW c \in Cells
                   PROVE  FaceRow(t, col2[c]) \in relation <=> FaceRow(t, col[c]) \in relation
      BY <2>1 DEF SharesKept
    <3>2. CASE col[c] # f  BY <1>4, <3>2
    <3>3. CASE col[c] = f
      <4>1. col2[c] \notin DOMAIN face \ {f}  BY <1>1, <1>6, <3>3 DEF Recoloured
      <4>2. FaceRow(t, col2[c]) \notin relation
        <5>1. PICK g : g = col2[c]  OBVIOUS
        <5>2. QED  BY <1>6, <4>1, <5>1, NamedFace
      <4>3. FaceRow(t, f) \notin relation  BY <1>6, NamedFace
      <4>4. QED  BY <3>3, <4>2, <4>3
    <3>4. QED  BY <3>2, <3>3
  <2>3. FaceRowsIn(relation', face')  BY <1>5, <1>6, <2>1 DEF RowsTyped, FaceRowsIn
  <2>4. QED  BY <1>1, <2>2, <2>3 DEF Carried
<1>7. CASE f # Universe
  <2>1. /\ Heirs(f, ids) \subseteq DOMAIN face'
        /\ (Heirs(f, ids) \ {f}) \cap DOMAIN face = {}
        /\ \A c \in Cells : col[c] = f => col2[c] \in Heirs(f, ids)
    BY <1>1, <1>7 DEF Recoloured
  <2>2. CASE ids = <<>>
    <3>1. relation' = relation /\ Heirs(f, ids) = {f}  BY <1>1, <2>2 DEF Heirs
    <3>2. \A c \in Cells : col2[c] = col[c]  BY <1>4, <2>1, <3>1
    <3>3. SharesKept(col, col2)  BY <3>1, <3>2 DEF SharesKept
    <3>4. FaceRowsIn(relation', face')  BY <1>5, <2>1, <3>1 DEF RowsTyped, FaceRowsIn
    <3>5. QED  BY <1>1, <3>3, <3>4 DEF Carried
  <2>3. CASE ids # <<>>
    <3>1. PICK n1, n2 : n1 = ids[1] /\ n2 = ids[2]  OBVIOUS
    <3>2. Heirs(f, ids) = ({n1, n2} \ {None}) \cup (IF n2 = None THEN {f} ELSE {})
      BY <2>3, <3>1 DEF Heirs
    <3>3. relation' = updateTopoGeomFaceSplit(f, n1, n2)  BY <1>1, <1>7, <2>3, <3>1
    <3>4. ASSUME NEW t, NEW g
          PROVE  FaceRow(t, g) \in relation'
                   <=> \/ FaceRow(t, g) \in relation /\ (n2 = None \/ g # f)
                       \/ g \in {n1, n2} \ {None} /\ FaceRow(t, f) \in relation
      <4>1. Formed(relation)  BY DEF RowsTyped
      <4>2. FaceRow(t, g) \in updateTopoGeomFaceSplit(f, n1, n2)
              <=> \/ FaceRow(t, g) \in relation /\ (n2 = None \/ g # f)
                  \/ g \in {n1, n2} \ {None} /\ FaceRow(t, f) \in relation
        BY <4>1, SplitShares
      <4>3. QED  BY <3>3, <4>2
    <3>5. SharesKept(col, col2)
      <4>1. SUFFICES ASSUME NEW t \in TopoGeoms, NEW c \in Cells
                     PROVE  FaceRow(t, col2[c]) \in relation' <=> FaceRow(t, col[c]) \in relation
        BY DEF SharesKept
      <4>2. CASE col[c] # f
        <5>1. PICK g : g = col[c]  OBVIOUS
        <5>2. g \in DOMAIN face /\ g # f /\ col2[c] = g  BY <1>2, <1>4, <4>2, <5>1
        <5>3. g \notin {n1, n2} \ {None}  BY <2>1, <3>2, <5>2
        <5>4. FaceRow(t, g) \in relation' <=> FaceRow(t, g) \in relation  BY <3>4, <5>2, <5>3
        <5>5. QED  BY <5>1, <5>2, <5>4
      <4>3. CASE col[c] = f
        <5>1. PICK g : g = col2[c]  OBVIOUS
        <5>2. g \in Heirs(f, ids)  BY <2>1, <4>3, <5>1
        <5>3. CASE g = f
          <6>1. FaceRow(t, f) \in relation' <=> FaceRow(t, f) \in relation
            BY <3>2, <3>4, <5>2, <5>3
          <6>2. QED  BY <4>3, <5>1, <5>3, <6>1
        <5>4. CASE g # f
          <6>1. g \in {n1, n2} \ {None} /\ g \notin DOMAIN face  BY <2>1, <3>2, <5>2, <5>4
          <6>2. FaceRow(t, g) \notin relation  BY <6>1, NamedFace
          <6>3. FaceRow(t, g) \in relation' <=> FaceRow(t, f) \in relation  BY <3>4, <6>1, <6>2
          <6>4. QED  BY <4>3, <5>1, <6>3
        <5>5. QED  BY <5>3, <5>4
      <4>4. QED  BY <4>2, <4>3
    <3>6. FaceRowsIn(relation', face')
      <4>1. ASSUME NEW t \in TopoGeoms, NEW g, FaceRow(t, g) \in relation'
            PROVE  g \in DOMAIN face' \ {Universe}
        <5>1. CASE g \in {n1, n2} \ {None}
          <6>1. g \in Heirs(f, ids)  BY <3>2, <5>1
          <6>2. QED  BY <1>2, <1>7, <2>1, <6>1
        <5>2. CASE g \notin {n1, n2} \ {None}
          <6>1. FaceRow(t, g) \in relation /\ (n2 = None \/ g # f)  BY <3>4, <4>1, <5>2
          <6>2. g \in DOMAIN face /\ g # Universe  BY <6>1, NamedFace
          <6>3. CASE g # f  BY <1>5, <6>2, <6>3
          <6>4. CASE g = f
            <7>1. g \in Heirs(f, ids)  BY <3>2, <6>1, <6>4
            <7>2. QED  BY <2>1, <6>2, <7>1
          <6>5. QED  BY <6>3, <6>4
        <5>3. QED  BY <5>1, <5>2
      <4>2. QED  BY <4>1, FormedFaceRows
    <3>7. QED  BY <1>1, <3>5, <3>6 DEF Carried
  <2>4. QED  BY <2>2, <2>3
<1>8. QED  BY <1>6, <1>7

\* The map after an edge is gone.
LEMMA FilledCarried ==
  ASSUME RowsTyped, Formed(relation'), NEW col, NowMap(col),
         NEW l \in DOMAIN face, NEW r \in DOMAIN face, NEW fl, NEW gone, NEW col2,
         RowsMerge(l, r, fl), Flood(l, r, fl, gone, face, face'),
         col2 = FilledMap(fl, gone, col), NowMap(col2)'
  PROVE  Carried(col)
<1>1. /\ \A t \in TopoGeoms : FaceRow(t, l) \in relation <=> FaceRow(t, r) \in relation
      /\ relation' = IF l = r THEN relation ELSE updateTopoGeomFaceHeal(r, l, fl)
  BY DEF RowsMerge, FaceRow
<1>2. /\ gone = {l, r} \ {fl} /\ (fl \in {l, r} \/ fl \notin DOMAIN face)
      /\ l = r => fl = l
      /\ DOMAIN face' = (DOMAIN face \ gone) \cup {fl}
  BY DEF Flood
<1>3. \A c \in Cells : col2[c] = IF col[c] \in gone THEN fl ELSE col[c]
  BY DEF FilledMap, Filled
<1>4. col \in [Cells -> DOMAIN face] /\ Universe \in DOMAIN face  BY MapFacts, UniverseIsFace
<1>5. CASE l = r
  <2>1. gone = {} /\ relation' = relation /\ DOMAIN face' = DOMAIN face  BY <1>1, <1>2, <1>5
  <2>2. SharesKept(col, col2)  BY <1>3, <2>1 DEF SharesKept
  <2>3. FaceRowsIn(relation', face')  BY <2>1 DEF RowsTyped, FaceRowsIn
  <2>4. QED  BY <2>2, <2>3 DEF Carried
<1>6. CASE l # r
  <2>1. ASSUME NEW t, NEW x
        PROVE  FaceRow(t, x) \in relation'
                 <=> \/ FaceRow(t, x) \in relation /\ (x \notin {r, l} \/ x = fl)
                     \/ fl \notin {r, l} /\ x = fl /\ FaceRow(t, l) \in relation
    <3>1. Formed(relation)  BY DEF RowsTyped
    <3>2. FaceRow(t, x) \in updateTopoGeomFaceHeal(r, l, fl)
            <=> \/ FaceRow(t, x) \in relation /\ (x \notin {r, l} \/ x = fl)
                \/ fl \notin {r, l} /\ x = fl /\ FaceRow(t, l) \in relation
      BY <3>1, HealShares
    <3>3. QED  BY <1>1, <1>6, <3>2
  <2>2. ASSUME NEW t \in TopoGeoms
        PROVE  FaceRow(t, fl) \in relation' <=> FaceRow(t, l) \in relation
    <3>1. CASE fl \in {l, r}
      <4>1. FaceRow(t, fl) \in relation' <=> FaceRow(t, fl) \in relation  BY <2>1, <3>1
      <4>2. QED  BY <1>1, <3>1, <4>1
    <3>2. CASE fl \notin {l, r}
      <4>1. fl \notin DOMAIN face  BY <1>2, <3>2
      <4>2. FaceRow(t, fl) \notin relation  BY <4>1, NamedFace
      <4>3. QED  BY <2>1, <3>2, <4>2
    <3>3. QED  BY <3>1, <3>2
  <2>3. SharesKept(col, col2)
    <3>1. SUFFICES ASSUME NEW t \in TopoGeoms, NEW c \in Cells
                   PROVE  FaceRow(t, col2[c]) \in relation' <=> FaceRow(t, col[c]) \in relation
      BY DEF SharesKept
    <3>2. PICK g : g = col[c]  OBVIOUS
    <3>3. CASE g \in {l, r}
      <4>1. col2[c] = fl  BY <1>2, <1>3, <3>2, <3>3
      <4>2. FaceRow(t, g) \in relation <=> FaceRow(t, l) \in relation  BY <1>1, <3>3
      <4>3. QED  BY <2>2, <3>2, <4>1, <4>2
    <3>4. CASE g \notin {l, r}
      <4>1. col2[c] = g  BY <1>2, <1>3, <3>2, <3>4
      <4>2. g # fl  BY <1>2, <1>4, <3>2, <3>4
      <4>3. FaceRow(t, g) \in relation' <=> FaceRow(t, g) \in relation  BY <2>1, <3>4, <4>2
      <4>4. QED  BY <3>2, <4>1, <4>3
    <3>5. QED  BY <3>3, <3>4
  <2>4. FaceRowsIn(relation', face')
    <3>1. ASSUME NEW t \in TopoGeoms, NEW x, FaceRow(t, x) \in relation'
          PROVE  x \in DOMAIN face' \ {Universe}
      <4>1. CASE FaceRow(t, x) \in relation /\ (x \notin {r, l} \/ x = fl)
        <5>1. x \in DOMAIN face /\ x # Universe  BY <4>1, NamedFace
        <5>2. x \notin gone  BY <1>2, <4>1
        <5>3. QED  BY <1>2, <5>1, <5>2
      <4>2. CASE fl \notin {r, l} /\ x = fl
        <5>1. fl \notin DOMAIN face  BY <1>2, <4>2
        <5>2. QED  BY <1>2, <1>4, <4>2, <5>1
      <4>3. QED  BY <2>1, <3>1, <4>1, <4>2
    <3>2. QED  BY <3>1, FormedFaceRows
  <2>5. QED  BY <2>3, <2>4 DEF Carried
<1>7. QED  BY <1>5, <1>6

-----------------------------------------------------------------------------
(* Types, and shapes of TopoGeometries. *)

\* What a call makes of the faces that a TopoGeometry has.
LEMMA StepCarried ==
  ASSUME TopoInv, Planar, TopoInv', Planar', RowsTyped, NEW col, NowMap(col),
         [Next /\ ~ChangeOps]_vars, ~RelationOps
  PROVE  Carried(col)
<1>1. Formed(relation')
  <2>1. Formed(relation) /\ [Next]_vars  BY DEF RowsTyped
  <2>2. QED  BY <2>1, FormedStep
<1>2. ASSUME NodeOps \/ SplitOps \/ HealOps \/ UNCHANGED vars, NowMap(col)'  PROVE Carried(col)
  <2>1. \A row : row[2] = FaceType => (row \in relation' <=> row \in relation)
    BY <1>2, SameFaceRows
  <2>2. QED  BY <1>1, <1>2, <2>1, SameMapCarried
<1>3. CASE NodeOps
  <2>1. NowMap(col)'  BY <1>3, NodeOpsFaces
  <2>2. QED  BY <1>2, <1>3, <2>1
<1>4. CASE SplitOps
  <2>1. NowMap(col)'  BY <1>4, SplitOpsFaces
  <2>2. QED  BY <1>2, <1>4, <2>1
<1>5. CASE HealOps
  <2>1. NowMap(col)'  BY <1>5, HealOpsFaces
  <2>2. QED  BY <1>2, <1>5, <2>1
<1>6. CASE UNCHANGED vars
  <2>1. NowMap(col)'  BY <1>6, RelationOpsFaces
  <2>2. QED  BY <1>2, <1>6, <2>1
<1>7. CASE AddOps
  <2>1. NewFaces(col)  BY <1>7, AddOpsFaces
  <2>2. QED  BY <1>1, <2>1, NewFacesCarried
<1>8. CASE RemOps
  <2>1. PICK e \in Edges : \E fl, gone, col2 :
          RemCall(e, fl, gone) /\ col2 = FilledMap(fl, gone, col) /\ NowMap(col2)'
    BY <1>8, RemOpsFaces
  <2>2. PICK fl, gone, col2 :
          RemCall(e, fl, gone) /\ col2 = FilledMap(fl, gone, col) /\ NowMap(col2)'
    BY <2>1
  <2>3. PICK l, r : l = side[e] /\ r = side[-e]  OBVIOUS
  <2>4. l \in DOMAIN face /\ r \in DOMAIN face
    <3>1. e \in Darts /\ -e \in Darts  BY InvFacts
    <3>2. Net(at, geom, org, next) /\ Darts = DOMAIN next  BY NetHolds DEF Darts
    <3>3. LeftOf(geom, e) \in Cells /\ LeftOf(geom, -e) \in Cells  BY <3>1, <3>2, LeftIsCell
    <3>4. QED  BY <2>3, <3>1, <3>3, MapFacts
  <2>5. RowsMerge(l, r, fl) /\ Flood(l, r, fl, gone, face, face')
    BY <2>2, <2>3 DEF RemCall
  <2>6. QED  BY <1>1, <2>2, <2>4, <2>5, FilledCarried
<1>9. QED  BY <1>3, <1>4, <1>5, <1>6, <1>7, <1>8 DEF Next

\* Rows stay right in every step.
LEMMA RowsTypedStep ==
  ASSUME TopoInv, Planar, FaceInv, TopoInv', Planar', RowsTyped, [Next /\ ~ChangeOps]_vars
  PROVE  RowsTyped'
<1>1. Formed(relation')
  <2>1. Formed(relation) /\ [Next]_vars  BY DEF RowsTyped
  <2>2. QED  BY <2>1, FormedStep
<1>2. CASE RelationOps
  <2>1. face' = face  BY <1>2 DEF RelationOps, TopoGeom_addElement, TopoGeom_remElement, clearTopoGeom
  <2>2. FaceType # NodeType /\ FaceType # EdgeType  BY DEF FaceType, NodeType, EdgeType
  <2>3. \/ \A row \in relation' : row \in relation
        \/ \E t, type, x : /\ relation' = relation \cup {<<t, type, x>>}
                           /\ type = FaceType => x \in DOMAIN face \ {Universe}
    BY <1>2, <2>2
       DEF RelationOps, TopoGeom_addElement, TopoGeom_remElement, clearTopoGeom, ElementExists
  <2>4. FaceRowsIn(relation', face')
    <3>1. SUFFICES ASSUME NEW row \in relation', row[2] = FaceType
                   PROVE  row[3] \in DOMAIN face \ {Universe}
      BY <2>1 DEF FaceRowsIn
    <3>2. CASE row \in relation  BY <3>1, <3>2 DEF RowsTyped, FaceRowsIn
    <3>3. CASE row \notin relation
      <4>1. PICK t, type, x : /\ row = <<t, type, x>>
                              /\ type = FaceType => x \in DOMAIN face \ {Universe}
        BY <2>3, <3>3
      <4>2. row[2] = type /\ row[3] = x  BY <4>1, RowParts
      <4>3. QED  BY <3>1, <4>1, <4>2
    <3>4. QED  BY <3>2, <3>3
  <2>5. QED  BY <1>1, <2>4 DEF RowsTyped
<1>3. CASE ~RelationOps
  <2>1. PICK col : NowMap(col)  BY DEF FaceInv, NowMap
  <2>2. Carried(col)  BY <1>3, <2>1, StepCarried
  <2>3. QED  BY <1>1, <2>2 DEF Carried, RowsTyped
<1>4. QED  BY <1>2, <1>3

\* The invariants imply the types that the runs check.
LEMMA TypesHold ==
  ASSUME TopoInv, Planar, FaceInv, RowsNamed, RowsTyped
  PROVE  TopoTypeOK
<1>1. PICK col : NowMap(col)  BY DEF FaceInv, NowMap
<1>2. /\ at \in [DOMAIN at -> Vertices] /\ DOMAIN at \subseteq Nodes /\ DOMAIN inface = DOMAIN at
      /\ \A n \in DOMAIN at : inface[n] \in Nat \cup {None}
      /\ side \in [Darts -> Nat] /\ DOMAIN face \subseteq 0 .. MaxFace
  BY InvFacts DEF TopoInv
<1>3. /\ Edges \subseteq L!EdgeIds /\ Darts = Edges \cup {-e : e \in Edges}
      /\ org \in [Darts -> DOMAIN at] /\ next \in [Darts -> Darts]
  <2>1. LP!LinkTypeOK  BY Linking, LP!InvTypes DEF TopoInv
  <2>2. LP!Darts = Darts /\ LP!Edges = Edges /\ LP!EdgeIds = L!EdgeIds
    BY SameEdges DEF LP!Darts, Darts, LP!Edges, L!Edges, L!Darts, LP!EdgeIds, L!EdgeIds
  <2>3. QED  BY <2>1, <2>2 DEF LP!LinkTypeOK
<1>4. Universe \in DOMAIN face  BY <1>1, UniverseIsFace
<1>5. side \in [Darts -> DOMAIN face]
  <2>1. Net(at, geom, org, next) /\ Darts = DOMAIN next  BY NetHolds DEF Darts
  <2>2. ASSUME NEW d \in Darts  PROVE side[d] \in DOMAIN face
    <3>1. LeftOf(geom, d) \in Cells  BY <2>1, LeftIsCell
    <3>2. QED  BY <1>1, <3>1, MapFacts
  <2>3. QED  BY <1>2, <2>2
<1>6. \A n \in DOMAIN at : inface[n] \in DOMAIN face \cup {None}
  <2>1. SUFFICES ASSUME NEW n \in DOMAIN at, inface[n] # None  PROVE inface[n] \in DOMAIN face
    OBVIOUS
  <2>2. at[n] \in Vertices  BY <1>2
  <2>3. CellAt(at[n][1], at[n][2]) \in Cells  BY <2>2, NodeCell
  <2>4. QED  BY <1>1, <2>1, <2>3, MapFacts
<1>7. ASSUME NEW row \in relation
      PROVE  row[1] \in TopoGeoms /\ ElementExists(row[2], row[3])
  <2>1. row[1] \in TopoGeoms /\ row[2] \in {NodeType, EdgeType, FaceType}
    BY DEF RowsTyped, Formed, ElementTypes
  <2>2. row[2] = FaceType => row[3] \in DOMAIN face \ {Universe}  BY DEF RowsTyped, FaceRowsIn
  <2>3. /\ row[2] = NodeType => row[3] \in DOMAIN at
        /\ row[2] = EdgeType => row[3] \in Darts
    BY DEF RowsNamed, Names
  <2>4. QED  BY <2>1, <2>2, <2>3 DEF ElementExists
<1>8. QED  BY <1>2, <1>3, <1>4, <1>5, <1>6, <1>7 DEF TopoTypeOK

-----------------------------------------------------------------------------
\* The cells of a TopoGeometry's faces.
Areas(R, claims, t) ==
  UNION {UNION {a[2] : a \in {b \in claims : b[1] = f}} :
           f \in {row[3] : row \in {r \in R : r[1] = t /\ r[2] = FaceType}}}

\* They are the cells whose face it has.
LEMMA AreasAre ==
  ASSUME TopoInv, Planar, RowsTyped, NEW col, NowMap(col), NEW t
  PROVE  Areas(relation, Claims, t) = {c \in Cells : FaceRow(t, col[c]) \in relation}
<1>1. \A q \in Claims : \E c \in Cells : q = Claimed(col, c)  BY ClaimsAre
<1>2. \A f \in DOMAIN face : \E q \in Claims : q[1] = f  BY ClaimsAll
<1>3. col \in [Cells -> DOMAIN face]  BY MapFacts
<1>4. ASSUME NEW q \in Claims
      PROVE  q[1] \in DOMAIN face /\ q[2] = {c \in Cells : col[c] = q[1]}
  <2>1. PICK d \in Cells : q = Claimed(col, d)  BY <1>1
  <2>2. q[1] = col[d] /\ q[2] = Part(col, col[d])  BY <2>1 DEF Claimed
  <2>3. QED  BY <1>3, <2>2 DEF Part
<1>5. ASSUME NEW row \in relation, row[1] = t, row[2] = FaceType
      PROVE  FaceRow(t, row[3]) = row
  BY <1>5 DEF RowsTyped, Formed, FaceRow
<1>6. ASSUME NEW c \in Areas(relation, Claims, t)
      PROVE  c \in Cells /\ FaceRow(t, col[c]) \in relation
  <2>1. PICK row \in relation, q \in Claims :
          row[1] = t /\ row[2] = FaceType /\ q[1] = row[3] /\ c \in q[2]
    BY <1>6 DEF Areas
  <2>2. c \in Cells /\ col[c] = row[3]  BY <1>4, <2>1
  <2>3. QED  BY <1>5, <2>1, <2>2
<1>7. ASSUME NEW c \in Cells, FaceRow(t, col[c]) \in relation
      PROVE  c \in Areas(relation, Claims, t)
  <2>1. PICK row : row = FaceRow(t, col[c])  OBVIOUS
  <2>2. row \in relation /\ row[1] = t /\ row[2] = FaceType /\ row[3] = col[c]
    BY <1>7, <2>1, FaceRowParts
  <2>3. col[c] \in DOMAIN face  BY <1>3
  <2>4. PICK q \in Claims : q[1] = col[c]  BY <1>2, <2>3
  <2>5. c \in q[2]  BY <1>4, <2>4
  <2>6. QED  BY <2>2, <2>4, <2>5 DEF Areas
<1>8. QED  BY <1>6, <1>7

\* The third part of Shape.
LEMMA ShapeIs ==
  ASSUME NEW t
  PROVE  /\ Shape(t) = <<Shape(t)[1], Shape(t)[2], Areas(relation, Claims, t)>>
         /\ Shape(t)' = <<Shape(t)'[1], Shape(t)'[2], Areas(relation', Claims', t)>>
  BY DEF Shape, Areas

-----------------------------------------------------------------------------
(* Types and shapes after any sequence of calls. *)

\* The same for all maps, ...
AreasHeld ==
  \A col, t : NowMap(col) =>
    Areas(relation, Claims, t) = {c \in Cells : FaceRow(t, col[c]) \in relation}

\* ... in every state ...
LEMMA AreasHold == TopoInv /\ Planar /\ RowsTyped => AreasHeld
  BY AreasAre DEF AreasHeld

\* ... and so in the next one.
LEMMA AreasNext == TopoInv' /\ Planar' /\ RowsTyped' => AreasHeld'
  BY AreasHold, PTL

\* A step that adds or removes nodes or edges changes no shape.
LEMMA ShapesStep ==
  ASSUME AnySplit = FALSE, TopoInv, Planar, FaceInv, RowsNamed, RowsTyped,
         TopoInv', Planar', RowsTyped', [Next /\ ~ChangeOps]_vars,
         DOMAIN at' # DOMAIN at \/ DOMAIN geom' # DOMAIN geom, NEW t \in TopoGeoms
  PROVE  Shape(t)' = Shape(t)
<1>1. PICK col : NowMap(col)  BY DEF FaceInv, NowMap
<1>2. ~RelationOps
  <2>1. SUFFICES ASSUME RelationOps  PROVE FALSE  OBVIOUS
  <2>2. at' = at /\ geom' = geom
    BY <2>1 DEF RelationOps, TopoGeom_addElement, TopoGeom_remElement, clearTopoGeom
  <2>3. QED  BY <2>2
<1>3. PICK col2 : NowMap(col2)' /\ SharesKept(col, col2)
  <2>1. Carried(col)  BY <1>1, <1>2, StepCarried
  <2>2. QED  BY <2>1 DEF Carried
<1>4. Areas(relation, Claims, t) = {c \in Cells : FaceRow(t, col[c]) \in relation}
  BY <1>1, AreasAre
<1>5. Areas(relation', Claims', t) = {c \in Cells : FaceRow(t, col2[c]) \in relation'}
  <2>1. AreasHeld'  BY AreasNext
  <2>2. QED  BY <1>3, <2>1 DEF AreasHeld
<1>6. Areas(relation', Claims', t) = Areas(relation, Claims, t)
  BY <1>3, <1>4, <1>5 DEF SharesKept
<1>7. Shape(t)'[1] = Shape(t)[1] /\ Shape(t)'[2] = Shape(t)[2]
  <2>1. [Next]_vars  OBVIOUS
  <2>2. PointsAndLinesKept  BY <2>1, KeptStep
  <2>3. QED  BY <2>2 DEF PointsAndLinesKept
<1>8. /\ Shape(t) = <<Shape(t)[1], Shape(t)[2], Areas(relation, Claims, t)>>
      /\ Shape(t)' = <<Shape(t)'[1], Shape(t)'[2], Areas(relation', Claims', t)>>
  BY ShapeIs
<1>9. QED  BY <1>6, <1>7, <1>8

\* All these invariants hold after any calls but those that move lines.
LEMMA RowsReached ==
  ASSUME AnySplit = FALSE
  PROVE  Spec /\ NoLineChanges => [](TopoInv /\ Planar /\ FaceInv /\ RowsNamed /\ RowsTyped)
<1>1. Init => RowsNamed /\ RowsTyped
  BY DEF Init, RowsNamed, Names, RowsTyped, Formed, FaceRowsIn
<1>2. TopoInv /\ RowsNamed /\ [Next]_vars => RowsNamed'  BY RowsInductive, Zenon
<1>3. TopoInv /\ Planar /\ FaceInv /\ TopoInv' /\ Planar' /\ RowsTyped /\ [Next /\ ~ChangeOps]_vars
        => RowsTyped'
  BY RowsTypedStep
<1>4. [Next]_vars /\ [~ChangeOps]_vars => [Next /\ ~ChangeOps]_vars  OBVIOUS
<1>5. QED  BY <1>1, <1>2, <1>3, <1>4, FacesReached, PTL DEF Spec, NoLineChanges

\* All tables refer to what there is: edges to nodes, faces and edges, nodes to
\* faces, TopoGeometries to primitives that are not the universe.  A face that a
\* split replaces or a removal merges is left by all that named it.
THEOREM TablesAlwaysTyped ==
  ASSUME AnySplit = FALSE
  PROVE  Spec /\ NoLineChanges => []TopoTypeOK
<1>1. TopoInv /\ Planar /\ FaceInv /\ RowsNamed /\ RowsTyped => TopoTypeOK  BY TypesHold
<1>2. QED  BY <1>1, RowsReached, PTL

\* Adding, splitting, healing and removing nodes and edges never changes what a
\* TopoGeometry covers, points, lines and areas: the rows that the split of a
\* face and the merge of two rewrite, and the check before a merge that each
\* TopoGeometry has both faces or none, are enough for any layer.
THEOREM TopoGeomsKeepShapes ==
  ASSUME AnySplit = FALSE
  PROVE  Spec /\ NoLineChanges => ShapesKept
<1> DEFINE Kept == DOMAIN at' # DOMAIN at \/ DOMAIN geom' # DOMAIN geom
                     => \A t \in TopoGeoms : Shape(t)' = Shape(t)
<1>1. ASSUME TopoInv, Planar, FaceInv, RowsNamed, RowsTyped,
             TopoInv', Planar', RowsTyped', [Next /\ ~ChangeOps]_vars
      PROVE  Kept
  BY <1>1, ShapesStep
<1>2. /\ TopoInv /\ Planar /\ FaceInv /\ RowsNamed /\ RowsTyped
      /\ TopoInv' /\ Planar' /\ RowsTyped' /\ [Next /\ ~ChangeOps]_vars
      => [Kept]_vars
  BY <1>1
<1> HIDE DEF Kept
<1>3. [Next]_vars /\ [~ChangeOps]_vars => [Next /\ ~ChangeOps]_vars  OBVIOUS
<1>4. Spec /\ NoLineChanges => [][Kept]_vars
  BY <1>2, <1>3, RowsReached, PTL DEF Spec, NoLineChanges
<1>5. QED  BY <1>4 DEF ShapesKept, Kept

-----------------------------------------------------------------------------
(* Rings and regions. *)

\* A set of darts that neither links nor turning back leaves.
Linked(nx, X) == \A x \in X : nx[x] \in X /\ -x \in X

\* Of two darts of a node it has both or none.
LEMMA NodeLinked ==
  ASSUME NEW a, NEW G, NEW o, NEW nx, Net(a, G, o, nx), NEW X \in SUBSET DOMAIN nx, Linked(nx, X),
         NEW y \in X, NEW t \in DOMAIN nx, o[t] = o[y]
  PROVE  t \in X
<1> DEFINE z == Turning(G, DOMAIN nx)
           T == {LP!turn(z[u], z[t]) : u \in {v \in X : o[v] = o[t]}}
<1>0. LP!LinksAssumption  BY TopologyAssumption DEF LP!LinksAssumption
<1>1. LP!Good(DOMAIN a, o, z, nx)  BY DEF Net
<1> HIDE DEF z
<1>2. /\ DOMAIN o = DOMAIN nx
      /\ \A d \in DOMAIN nx : /\ d \in Int /\ -d \in DOMAIN nx /\ -(-d) = d
                              /\ z[d] \in LP!Azimuths /\ nx[d] \in DOMAIN nx
                              /\ LP!Follows(o, z, d, nx[d])
  BY <1>0, <1>1, LP!GoodFacts
<1>3. \A u, v \in DOMAIN nx : LP!turn(z[u], z[v]) \in Nat /\ LP!turn(z[u], z[v]) <= 8 /\ z[u] \in 0 .. 7
  BY <1>2 DEF LP!turn, LP!Azimuths
<1>4. T \in SUBSET Nat /\ T # {}  BY <1>3
<1>5. PICK m \in T : \A i \in T : m <= i  BY <1>0, <1>4, LP!LeastNat
<1>6. PICK u \in X : o[u] = o[t] /\ m = LP!turn(z[u], z[t])  BY <1>5
<1> DEFINE c == nx[-u]
<1>7. c \in X /\ LP!Follows(o, z, -u, c) /\ -(-u) = u  BY <1>2, <1>6 DEF Linked
<1> HIDE DEF c
<1>8. o[c] = o[t] /\ (c # t => LP!turn(z[u], z[c]) < LP!turn(z[u], z[t]))
  BY <1>2, <1>6, <1>7 DEF LP!Follows
<1>9. ASSUME c # t  PROVE FALSE
  <2>1. LP!turn(z[c], z[t]) \in T  BY <1>7, <1>8
  <2>2. LP!turn(z[u], z[t]) <= LP!turn(z[c], z[t])  BY <2>1, <1>5, <1>6
  <2>3. LP!turn(z[u], z[c]) < LP!turn(z[u], z[t])  BY <1>8, <1>9
  <2>4. z[u] \in 0 .. 7 /\ z[c] \in 0 .. 7 /\ z[t] \in 0 .. 7  BY <1>3, <1>6, <1>7
  <2>5. ASSUME NEW i \in 0 .. 7, NEW j \in 0 .. 7, NEW l \in 0 .. 7,
               LP!turn(i, l) <= LP!turn(j, l), LP!turn(i, j) < LP!turn(i, l)
        PROVE  FALSE
    <3>1. i \in Int /\ j \in Int /\ l \in Int  OBVIOUS
    <3>2. LP!turn(i, l) = (IF l <= i THEN l - i + 8 ELSE l - i)
          /\ LP!turn(j, l) = (IF l <= j THEN l - j + 8 ELSE l - j)
          /\ LP!turn(i, j) = (IF j <= i THEN j - i + 8 ELSE j - i)
      BY DEF LP!turn
    <3>3. QED  BY <2>5, <3>1, <3>2
  <2>6. QED  BY <2>2, <2>3, <2>4, <2>5
<1>10. QED  BY <1>7, <1>9

\* The region of each cell, as a colour of it.
RegionMap(walls) == [c \in Cells |-> Region(walls, c)]

\* It changes only at walls.
LEMMA RegionSmooth ==
  ASSUME NEW walls
  PROVE  Smooth(walls, RegionMap(walls))
<1>1. SUFFICES ASSUME NEW b \in Borders, b.step \notin walls, NEW x \in b.cells, NEW y \in b.cells
               PROVE  RegionMap(walls)[x] = RegionMap(walls)[y]
  BY DEF Smooth
<1>2. x \in Cells /\ y \in Cells  BY BorderCells
<1>3. Connected(walls, x, y)  BY <1>1, Zenon DEF Connected, Enclosed
<1>4. Region(walls, x) = Region(walls, y)  BY <1>2, <1>3, SameRegion
<1>5. QED  BY <1>2, <1>4 DEF RegionMap

\* A ring that takes all its steps back winds around nothing.
LEMMA BackNothing ==
  ASSUME NEW S, Balanced(S), \A s \in S : Back(s) \in S, NEW c \in Cells
  PROVE  Winding(S, c) = 0 /\ Area(S) = 0
<1> DEFINE k == WindingOf(S)
<1>1. S \in SUBSET UnitSteps /\ IsFiniteSet(S)  BY DEF Balanced
<1>2. Smooth({}, k)
  <2>1. ASSUME NEW s \in UnitSteps  PROVE k[LeftCell(s)] = k[RightCell(s)]
    <3>1. Winding(S, LeftCell(s)) = Winding(S, RightCell(s)) + Has(S, s) - Has(S, Back(s))
          /\ Winding(S, LeftCell(s)) \in Int /\ Winding(S, RightCell(s)) \in Int
      BY WindingAcross
    <3>2. Back(Back(s)) = s /\ LeftCell(s) \in Cells /\ RightCell(s) \in Cells  BY StepCells
    <3>3. s \in S <=> Back(s) \in S  BY <3>2
    <3>4. Has(S, s) = Has(S, Back(s)) /\ Has(S, s) \in Int  BY <3>3 DEF Has
    <3>5. Winding(S, LeftCell(s)) = Winding(S, RightCell(s))  BY <3>1, <3>4
    <3>6. QED  BY <3>2, <3>5 DEF WindingOf
  <2>2. QED  BY <2>1, SmoothIntro
<1>3. k[c] = k[Outer]  BY <1>2, SmoothNowhere
<1>4. \A s \in S : {s[1], s[2]} \in {{t[1], t[2]} : t \in S}  OBVIOUS
<1>5. k[Outer] = 0  BY <1>4, WindingSmooth
<1>6. Winding(S, c) = 0  BY <1>3, <1>5 DEF WindingOf
<1>7. Wests(S) = Easts(S)
  <2>1. ASSUME NEW p \in Vertices  PROVE West(p[1], p[2]) \in S <=> East(p[1], p[2]) \in S
    <3>1. p[1] \in Int /\ p[2] \in Int  BY VertexParts
    <3>2. Back(East(p[1], p[2])) = West(p[1], p[2]) /\ Back(West(p[1], p[2])) = East(p[1], p[2])
      BY <3>1, EastStep
    <3>3. QED  BY <3>2
  <2>2. QED  BY <2>1 DEF Wests, Easts
<1>8. Wests(S) \in SUBSET Vertices  BY DEF Wests
<1>9. Cardinality(Under(Wests(S))) \in Nat  BY <1>8, UnderFinite
<1>10. Area(S) = Balance(S)  BY <1>1, AreaIs
<1>11. Balance(S) = 0  BY <1>7, <1>9 DEF Balance
<1>12. QED  BY <1>6, <1>10, <1>11

\* The area of a ring tells whether it has winding number 1 on its left, as
\* shells do, or 0.
LEMMA ShellWinds ==
  ASSUME NEW a, NEW G, NEW o, NEW nx, Net(a, G, o, nx), NEW d \in DOMAIN nx,
         NEW S, S = RingOfSteps(G, nx, d), NEW w, w = Winding(S, LeftOf(G, d))
  PROVE  /\ w \in {0, 1} /\ (Area(S) > 0 <=> w = 1)
         /\ w = 1 => \A c \in Cells : Winding(S, c) \in {0, 1}
<1>1. Balanced(S) /\ S \in SUBSET UnitSteps /\ IsFiniteSet(S)  BY RingWalls DEF Balanced
<1>2. LeftOf(G, d) \in Cells  BY LeftIsCell
<1>3. CASE \A s \in S : Back(s) \in S
  <2>1. w = 0 /\ Area(S) = 0  BY <1>1, <1>2, <1>3, BackNothing
  <2>2. QED  BY <2>1
<1>4. CASE ~ \A s \in S : Back(s) \in S
  <2>1. PICK s \in S : Back(s) \notin S  BY <1>4
  <2>2. Ringed(S, w)  BY RingRinged
  <2>3. w \in {0, 1} /\ \A c \in Cells : Winding(S, c) \in {w, w - 1}  BY <2>1, <2>2, RingWinds
  <2>4. ptarray_isccw(S) <=> w = 1  BY <2>1, <2>2, RingTurns
  <2>5. w = 1 => Area(S) > 0  BY <2>1, <2>2, RingTurns
  <2>6. Area(S) \in Int
    <3>1. Wests(S) \in SUBSET Vertices /\ Easts(S) \in SUBSET Vertices  BY DEF Wests, Easts
    <3>2. Cardinality(Under(Wests(S))) \in Nat  BY <3>1, UnderFinite
    <3>3. Cardinality(Under(Easts(S))) \in Nat  BY <3>1, UnderFinite
    <3>4. Area(S) = Balance(S)  BY <1>1, AreaIs
    <3>5. QED  BY <3>2, <3>3, <3>4 DEF Balance
  <2>7. Area(S) > 0 => w = 1  BY <2>4, <2>6 DEF ptarray_isccw
  <2>8. w = 1 => \A c \in Cells : Winding(S, c) \in {0, 1}  BY <2>3
  <2>9. QED  BY <2>3, <2>5, <2>7, <2>8
<1>5. QED  BY <1>3, <1>4

\* The steps of a ring have the region on the left of it on their left.
LEMMA RingRegion ==
  ASSUME NEW a, NEW G, NEW o, NEW nx, Net(a, G, o, nx), NEW d \in DOMAIN nx,
         NEW k, Smooth(WallsOf(G), k), NEW S, S = RingOfSteps(G, nx, d), NEW s \in S
  PROVE  k[LeftCell(s)] = k[LeftOf(G, d)] /\ LeftCell(s) \in Cells
<1>1. PICK x \in RingOf(nx, d) : \E i \in 1 .. Len(Path(G, x)) - 1 : s = StepOf(G, x, i)
  BY RingWalls
<1>2. x \in DOMAIN nx /\ k[LeftOf(G, x)] = k[LeftOf(G, d)]  BY RingSide
<1>3. s \in Steps(Path(G, x))  BY <1>1, PathSteps DEF StepOf
<1>4. k[LeftCell(s)] = k[LeftOf(G, x)]  BY <1>2, <1>3, Sides
<1>5. LeftCell(s) \in Cells  BY <1>2, <1>3, LeftIsCell
<1>6. QED  BY <1>2, <1>4, <1>5

\* What cells have one region.
LEMMA InRegion ==
  ASSUME NEW walls, NEW c \in Cells, NEW e \in Cells
  PROVE  /\ e \in Region(walls, c) <=> RegionMap(walls)[e] = RegionMap(walls)[c]
         /\ RegionMap(walls)[c] = Region(walls, c)
         /\ \A k : Smooth(walls, k) /\ e \in Region(walls, c) => k[e] = k[c]
<1>1. e \in Region(walls, c) <=> Region(walls, e) = Region(walls, c)  BY SameRegion
<1>2. ASSUME NEW k, Smooth(walls, k), e \in Region(walls, c)  PROVE k[e] = k[c]
  <2>1. Connected(walls, c, e)  BY <1>2 DEF Region
  <2>2. QED  BY <1>2, <2>1, SmoothConnected
<1>3. QED  BY <1>1, <1>2 DEF RegionMap

\* <<x, y>> is the first cell of its region in its row.
FirstInRow(walls, x, y) ==
  /\ <<x, y>> \in Cells /\ x \in 0 .. Width - 1 /\ y \in 0 .. Height - 1
  /\ Outer \notin Region(walls, <<x, y>>)
  /\ \A i \in 0 .. x - 1 : <<i, y>> \notin Region(walls, <<x, y>>)

\* A ring around the region of such a cell takes the step down its west side just
\* if it is a shell: no other step of it is further west.
LEMMA FirstCell ==
  ASSUME NEW a, NEW G, NEW o, NEW nx, Net(a, G, o, nx), NEW x \in Int, NEW y \in Int,
         FirstInRow(WallsOf(G), x, y), NEW d \in DOMAIN nx,
         LeftOf(G, d) \in Region(WallsOf(G), <<x, y>>), NEW S, S = RingOfSteps(G, nx, d)
  PROVE  Winding(S, LeftOf(G, d)) = Has(S, South(x, y))
<1> DEFINE r == Region(WallsOf(G), <<x, y>>)
           k == RegionMap(WallsOf(G))
<1>1. /\ <<x, y>> \in Cells /\ 0 <= x /\ x < Width /\ 0 <= y /\ y < Height
      /\ Outer \notin r /\ \A i \in 0 .. x - 1 : <<i, y>> \notin r
  <2>1. x \in 0 .. Width - 1 /\ y \in 0 .. Height - 1  BY DEF FirstInRow
  <2>2. 0 <= x /\ x < Width /\ 0 <= y /\ y < Height  BY <2>1, GridSize
  <2>3. QED  BY <2>2 DEF FirstInRow
<1>2. Balanced(S) /\ S \in SUBSET UnitSteps /\ IsFiniteSet(S)
      /\ Smooth(WallsOf(G), WindingOf(S))
  BY RingWalls DEF Balanced
<1>3. LeftOf(G, d) \in Cells  BY LeftIsCell
<1>4. ASSUME NEW s \in S  PROVE LeftCell(s) \in r
  <2>1. Smooth(WallsOf(G), k)  BY RegionSmooth
  <2>2. k[LeftCell(s)] = k[LeftOf(G, d)] /\ LeftCell(s) \in Cells  BY <2>1, RingRegion
  <2>3. k[LeftOf(G, d)] = k[<<x, y>>]  BY <1>1, <1>3, InRegion
  <2>4. QED  BY <1>1, <2>2, <2>3, InRegion
<1>5. ASSUME NEW i \in Int, i < x  PROVE CellAt(i, y) \notin r
  <2>1. CellAt(i, y) = <<i, y>> \/ CellAt(i, y) = Outer  BY DEF CellAt
  <2>2. CellAt(i, y) = <<i, y>> => i \in 0 .. x - 1 \/ CellAt(i, y) = Outer
    BY <1>1, <1>5, CellFacts, GridSize
  <2>3. QED  BY <1>1, <2>1, <2>2
<1>6. ASSUME NEW i \in Int, i < x  PROVE North(i, y) \notin S /\ South(i, y) \notin S
  <2>1. LeftCell(North(i, y)) = CellAt(i - 1, y) /\ LeftCell(South(i, y)) = CellAt(i, y)
    BY NorthStep
  <2>2. i - 1 \in Int /\ i - 1 < x  BY <1>6
  <2>3. CellAt(i - 1, y) \notin r  BY <1>5, <2>2
  <2>4. CellAt(i, y) \notin r  BY <1>5, <1>6
  <2>5. QED  BY <1>4, <2>1, <2>3, <2>4
<1>7. North(x, y) \notin S
  <2>1. LeftCell(North(x, y)) = CellAt(x - 1, y)  BY NorthStep
  <2>2. CellAt(x - 1, y) \notin r  BY <1>5
  <2>3. QED  BY <1>4, <2>1, <2>2
<1> DEFINE P == {i \in Nat : Wind(S, i - 1, y) = 0}
<1>8. 0 \in P
  <2>1. Wind(S, -1, y) = 0  BY <1>2, WindBefore
  <2>2. 0 - 1 = -1  OBVIOUS
  <2>3. QED  BY <2>1, <2>2
<1>9. ASSUME NEW i \in 0 .. x, i > 0, i - 1 \in P  PROVE i \in P
  <2> DEFINE j == i - 1
  <2>1. j \in Int /\ j < x /\ i \in Nat /\ j - 1 = (i - 1) - 1  BY <1>1, <1>9
  <2>2. Wind(S, j, y) \in Int
        /\ Wind(S, j - 1, y) = Wind(S, j, y) + Has(S, North(j, y)) - Has(S, South(j, y))
    BY <1>2, <2>1, WindEast
  <2>3. Has(S, North(j, y)) = 0 /\ Has(S, South(j, y)) = 0  BY <1>6, <2>1 DEF Has
  <2>4. Wind(S, j - 1, y) = 0  BY <1>9
  <2>5. Wind(S, j, y) = 0  BY <2>2, <2>3, <2>4
  <2>6. QED  BY <2>1, <2>5
<1>10. x \in P
  <2> HIDE DEF P
  <2>1. x \in Nat /\ x \in 0 .. x  BY <1>1
  <2>2. 0 .. x \subseteq P  BY <1>8, <1>9, <2>1, Downward
  <2>3. QED  BY <2>1, <2>2
<1>11. Wind(S, x - 1, y) = 0  BY <1>10
<1>12. Wind(S, x, y) \in Int
       /\ Wind(S, x - 1, y) = Wind(S, x, y) + Has(S, North(x, y)) - Has(S, South(x, y))
  BY <1>2, WindEast
<1>13. Has(S, North(x, y)) = 0 /\ Has(S, South(x, y)) \in Int  BY <1>7, HasIs DEF Has
<1>14. Wind(S, x, y) = Has(S, South(x, y))  BY <1>11, <1>12, <1>13
<1>15. CellAt(x, y) = <<x, y>> /\ x >= -1  BY <1>1 DEF CellAt
<1>16. Winding(S, <<x, y>>) = Wind(S, x, y)  BY <1>2, <1>15, WindCell
<1>17. WindingOf(S)[LeftOf(G, d)] = WindingOf(S)[<<x, y>>]  BY <1>1, <1>2, <1>3, InRegion
<1>18. QED  BY <1>1, <1>3, <1>14, <1>16, <1>17 DEF WindingOf

\* In each region but the outer one there is such a cell.
LEMMA FirstExists ==
  ASSUME NEW walls, NEW c \in Cells, Outer \notin Region(walls, c)
  PROVE  \E x, y \in Int : FirstInRow(walls, x, y) /\ Region(walls, <<x, y>>) = Region(walls, c)
<1> DEFINE r == Region(walls, c)
           X == {e[1] : e \in r}
<1>1. c \in r /\ r \in SUBSET Cells  BY EnclosedRegion DEF Region
<1>2. \A e \in r : e \in (0 .. Width - 1) \X (0 .. Height - 1)  BY <1>1 DEF Cells, Outer
<1>3. \A e \in r : e[1] \in 0 .. Width - 1 /\ e[2] \in 0 .. Height - 1 /\ e = <<e[1], e[2]>>
  BY <1>2
<1>4. X \in SUBSET Nat /\ X # {}
  <2>1. 0 .. Width - 1 \subseteq Nat  BY GridSize
  <2>2. QED  BY <1>1, <1>3, <2>1
<1>5. LP!LinksAssumption  BY TopologyAssumption DEF LP!LinksAssumption
<1>6. PICK x \in X : \A i \in X : x <= i  BY <1>4, <1>5, LP!LeastNat
<1>7. PICK e \in r : x = e[1]  BY <1>6
<1> DEFINE y == e[2]
<1>8. e = <<x, y>> /\ x \in 0 .. Width - 1 /\ y \in 0 .. Height - 1 /\ e \in Cells
  BY <1>1, <1>3, <1>7
<1>9. Region(walls, e) = r  BY <1>7, <1>8, SameRegion
<1>10. \A i \in 0 .. x - 1 : <<i, y>> \notin r
  <2>1. SUFFICES ASSUME NEW i \in 0 .. x - 1, <<i, y>> \in r  PROVE FALSE  OBVIOUS
  <2>2. i \in X
    <3>1. <<i, y>>[1] = i  OBVIOUS
    <3>2. QED  BY <2>1, <3>1
  <2>3. x <= i  BY <1>6, <2>2
  <2>4. x \in Int  BY <1>8
  <2>5. QED  BY <2>1, <2>3, <2>4
<1>11. x \in Int /\ y \in Int  BY <1>8
<1>12. FirstInRow(walls, x, y)  BY <1>8, <1>9, <1>10 DEF FirstInRow
<1>13. QED  BY <1>8, <1>9, <1>11, <1>12

\* A wall is a step of some dart in each direction.
LEMMA WallTaken ==
  ASSUME NEW a, NEW G, NEW o, NEW nx, Net(a, G, o, nx), NEW s \in UnitSteps,
         {s[1], s[2]} \in WallsOf(G)
  PROVE  \E d \in DOMAIN nx : s \in Steps(Path(G, d))
<1>1. PICK e \in DOMAIN G : \E i \in Places(G[e]) : {s[1], s[2]} = StepAt(G[e], i)  BY WallIs
<1>2. PICK i \in Places(G[e]) : {s[1], s[2]} = StepAt(G[e], i)  BY <1>1
<1>3. /\ e \in DOMAIN nx /\ IsLine(G[e]) /\ Path(G, e) = G[e] /\ -e \in DOMAIN nx
      /\ Path(G, -e) = Reverse(G[e])
  BY NetFacts
<1> DEFINE t == <<G[e][i], G[e][i + 1]>>
<1>4. t \in Steps(G[e])  BY <1>2 DEF Steps, Places
<1>5. Back(t) \in Steps(Reverse(G[e]))  BY <1>3, <1>4, StepsBack
<1>6. {s[1], s[2]} = {t[1], t[2]}  BY <1>2 DEF StepAt
<1>7. s = <<s[1], s[2]>>  BY UnitPoints
<1>8. s = t \/ s = Back(t)  BY <1>6, <1>7 DEF Back
<1>9. QED  BY <1>3, <1>4, <1>5, <1>8

\* Some step tells of all rings around the region of c whether they are shells,
\* and there is a dart that takes it.
TellsShells(G, nx, c, s) ==
  /\ \A d \in DOMAIN nx : LeftOf(G, d) \in Region(WallsOf(G), c)
       => Winding(RingOfSteps(G, nx, d), LeftOf(G, d)) = Has(RingOfSteps(G, nx, d), s)
  /\ \E d \in DOMAIN nx : LeftOf(G, d) \in Region(WallsOf(G), c) /\ s \in Steps(Path(G, d))

\* There is one in each region but the outer one: the west side of its first cell
\* in some row.
LEMMA TellingStep ==
  ASSUME NEW a, NEW G, NEW o, NEW nx, Net(a, G, o, nx), NEW c \in Cells,
         Outer \notin Region(WallsOf(G), c)
  PROVE  \E s \in UnitSteps : TellsShells(G, nx, c, s)
<1> DEFINE W == WallsOf(G)
           r == Region(W, c)
           k == RegionMap(W)
<1>1. PICK x \in Int, y \in Int : FirstInRow(W, x, y) /\ Region(W, <<x, y>>) = r
  BY FirstExists
<1> DEFINE s == South(x, y)
           e == <<x, y>>
<1>2. e \in Cells /\ 0 <= x /\ x < Width /\ 0 <= y /\ y < Height /\ Outer \notin r
      /\ \A i \in 0 .. x - 1 : <<i, y>> \notin r
  <2>1. x \in 0 .. Width - 1 /\ y \in 0 .. Height - 1  BY <1>1 DEF FirstInRow
  <2>2. 0 <= x /\ x < Width /\ 0 <= y /\ y < Height  BY <2>1, GridSize
  <2>3. QED  BY <1>1, <2>2 DEF FirstInRow
<1>3. s \in UnitSteps  BY <1>2, GridSize DEF UnitSteps
<1>4. LeftCell(s) = e /\ RightCell(s) = CellAt(x - 1, y)
  <2>1. LeftCell(s) = CellAt(x, y) /\ RightCell(s) = CellAt(x - 1, y)  BY NorthStep
  <2>2. QED  BY <1>2, <2>1 DEF CellAt
<1>5. CellAt(x - 1, y) \notin r
  <2>1. CellAt(x - 1, y) = <<x - 1, y>> \/ CellAt(x - 1, y) = Outer  BY DEF CellAt
  <2>2. x - 1 \in 0 .. x - 1 \/ x = 0  BY <1>2
  <2>3. x = 0 => CellAt(x - 1, y) = Outer  BY CellFacts, GridSize
  <2>4. QED  BY <1>2, <2>1, <2>2, <2>3
<1>6. LeftCell(s) \in Cells /\ RightCell(s) \in Cells  BY <1>3, StepCells
<1>7. e \in r  BY <1>1, <1>2, EnclosedRegion
<1>8. Smooth(W, k)  BY RegionSmooth
<1>9. {s[1], s[2]} \in W
  <2>1. ASSUME {s[1], s[2]} \notin W  PROVE FALSE
    <3>1. k[LeftCell(s)] = k[RightCell(s)]  BY <1>3, <1>8, <2>1, SmoothAcross
    <3>2. RightCell(s) \in Region(W, LeftCell(s))  BY <1>6, <3>1, InRegion
    <3>3. QED  BY <1>1, <1>4, <1>5, <3>2
  <2>2. QED  BY <2>1
<1>10. PICK d0 \in DOMAIN nx : s \in Steps(Path(G, d0))  BY <1>3, <1>9, WallTaken
<1>11. LeftOf(G, d0) \in r
  <2>1. k[LeftCell(s)] = k[LeftOf(G, d0)]  BY <1>8, <1>10, Sides
  <2>2. LeftOf(G, d0) \in Cells  BY LeftIsCell
  <2>3. k[e] = k[LeftOf(G, d0)]  BY <1>4, <2>1
  <2>4. LeftOf(G, d0) \in Region(W, e)  BY <1>2, <2>2, <2>3, InRegion
  <2>5. QED  BY <1>1, <2>4
<1>12. ASSUME NEW d \in DOMAIN nx, LeftOf(G, d) \in r
       PROVE  Winding(RingOfSteps(G, nx, d), LeftOf(G, d)) = Has(RingOfSteps(G, nx, d), s)
  <2>1. LeftOf(G, d) \in Region(W, e)  BY <1>1, <1>12
  <2>2. QED  BY <1>1, <2>1, FirstCell
<1> HIDE DEF s
<1>13. TellsShells(G, nx, c, s)  BY <1>10, <1>11, <1>12 DEF TellsShells
<1>14. QED  BY <1>3, <1>13

\* Darts of one ring have the same ring.
LEMMA SameRing ==
  ASSUME NEW a, NEW G, NEW o, NEW nx, Net(a, G, o, nx), NEW d \in DOMAIN nx, NEW e \in DOMAIN nx,
         NEW x \in RingOf(nx, d), x \in RingOf(nx, e)
  PROVE  RingOf(nx, d) = RingOf(nx, e)
<1>1. ASSUME NEW f \in DOMAIN nx, NEW g \in RingOf(nx, f)  PROVE RingOf(nx, g) = RingOf(nx, f)
  <2>1. g \in DOMAIN nx /\ f \in RingOf(nx, g)  BY <1>1, RingBack
  <2>2. \A y \in RingOf(nx, f) : nx[y] \in RingOf(nx, f)  BY RingFacts
  <2>3. \A y \in RingOf(nx, g) : nx[y] \in RingOf(nx, g)  BY <2>1, RingFacts
  <2>4. RingOf(nx, g) \subseteq RingOf(nx, f)  BY <1>1, <2>1, <2>2, RingFacts
  <2>5. RingOf(nx, f) \subseteq RingOf(nx, g)  BY <1>1, <2>1, <2>3, RingFacts
  <2>6. QED  BY <2>4, <2>5
<1>2. RingOf(nx, x) = RingOf(nx, d)  BY <1>1
<1>3. RingOf(nx, x) = RingOf(nx, e)  BY <1>1
<1>4. QED  BY <1>2, <1>3

\* A region other than the outer one has one shell.
LEMMA ShellExists ==
  ASSUME NEW a, NEW G, NEW o, NEW nx, Net(a, G, o, nx), NEW c \in Cells,
         Outer \notin Region(WallsOf(G), c)
  PROVE  \E d \in DOMAIN nx : /\ LeftOf(G, d) \in Region(WallsOf(G), c)
                              /\ Winding(RingOfSteps(G, nx, d), LeftOf(G, d)) = 1
<1>1. PICK s \in UnitSteps : TellsShells(G, nx, c, s)  BY TellingStep
<1>2. PICK d \in DOMAIN nx : LeftOf(G, d) \in Region(WallsOf(G), c) /\ s \in Steps(Path(G, d))
  BY <1>1 DEF TellsShells
<1>3. d \in RingOf(nx, d)  BY RingFacts
<1>4. s \in RingOfSteps(G, nx, d)
  <2>1. \E i \in 1 .. Len(Path(G, d)) - 1 : s = StepOf(G, d, i)  BY <1>2, PathSteps DEF StepOf
  <2>2. QED  BY <1>3, <2>1, RingWalls
<1>5. Has(RingOfSteps(G, nx, d), s) = 1  BY <1>4 DEF Has
<1>6. QED  BY <1>1, <1>2, <1>5 DEF TellsShells

\* No two rings are shells of one region.
LEMMA ShellUnique ==
  ASSUME NEW a, NEW G, NEW o, NEW nx, Net(a, G, o, nx), NEW c \in Cells,
         Outer \notin Region(WallsOf(G), c),
         NEW d \in DOMAIN nx, LeftOf(G, d) \in Region(WallsOf(G), c),
         Winding(RingOfSteps(G, nx, d), LeftOf(G, d)) = 1,
         NEW e \in DOMAIN nx, LeftOf(G, e) \in Region(WallsOf(G), c),
         Winding(RingOfSteps(G, nx, e), LeftOf(G, e)) = 1
  PROVE  RingOf(nx, d) = RingOf(nx, e)
<1>1. PICK s \in UnitSteps : TellsShells(G, nx, c, s)  BY TellingStep
<1>2. Has(RingOfSteps(G, nx, d), s) = 1 /\ Has(RingOfSteps(G, nx, e), s) = 1
  BY <1>1 DEF TellsShells
<1>3. s \in RingOfSteps(G, nx, d) /\ s \in RingOfSteps(G, nx, e)  BY <1>2 DEF Has
<1>4. PICK x \in RingOf(nx, d) : \E i \in 1 .. Len(Path(G, x)) - 1 : s = StepOf(G, x, i)
  BY <1>3, RingWalls
<1>5. PICK y \in RingOf(nx, e) : \E i \in 1 .. Len(Path(G, y)) - 1 : s = StepOf(G, y, i)
  BY <1>3, RingWalls
<1>6. x \in DOMAIN nx /\ y \in DOMAIN nx  BY RingBack
<1>7. x = y
  <2>1. PICK i \in 1 .. Len(Path(G, x)) - 1 : s = StepOf(G, x, i)  BY <1>4
  <2>2. PICK j \in 1 .. Len(Path(G, y)) - 1 : s = StepOf(G, y, j)  BY <1>5
  <2>3. StepOf(G, x, i) = StepOf(G, y, j)  BY <2>1, <2>2
  <2>4. QED  BY <1>6, <2>3, StepOnce
<1>8. QED  BY <1>7, SameRing

\* A vertex of the line of dart d is an inner vertex of the line of its edge, or
\* where a node is that the dart or the dart back leaves.
LEMMA VertexKinds ==
  ASSUME NEW a, NEW G, NEW o, NEW nx, Net(a, G, o, nx), NEW d \in DOMAIN nx,
         NEW s \in Steps(Path(G, d)), NEW v \in {s[1], s[2]}
  PROVE  \/ v \in InteriorPoints(G[EdgeOf(d)])
         \/ v = a[o[d]]
         \/ v = a[o[-d]]
<1> DEFINE p == Path(G, d)
<1>1. /\ IsLine(p) /\ p[1] = a[o[d]] /\ Last(p) = a[o[-d]] /\ EdgeOf(d) \in DOMAIN G
      /\ p \in {G[EdgeOf(d)], Reverse(G[EdgeOf(d)])}
  BY NetFacts
<1>2. IsLine(G[EdgeOf(d)])  BY <1>1, NetFacts
<1>3. InteriorPoints(p) = InteriorPoints(G[EdgeOf(d)])  BY <1>1, <1>2, PlainReverse
<1>4. PICK i \in 1 .. Len(p) - 1 : s = <<p[i], p[i + 1]>>  BY PathSteps
<1>5. Len(p) \in Nat /\ Len(p) > 1 /\ Last(p) = p[Len(p)]  BY <1>1, LineFacts DEF Last
<1>6. PICK j \in 1 .. Len(p) : v = p[j]  BY <1>4, <1>5
<1>7. j = 1 \/ j = Len(p) \/ j \in 2 .. Len(p) - 1  BY <1>5
<1>8. j \in 2 .. Len(p) - 1 => v \in InteriorPoints(p)  BY <1>6, InteriorIs
<1>9. QED  BY <1>1, <1>3, <1>5, <1>6, <1>7, <1>8

\* A ring that meets a node has a dart that leaves it.
LEMMA RingLeaves ==
  ASSUME NEW a, NEW G, NEW o, NEW nx, Net(a, G, o, nx), NEW d \in DOMAIN nx,
         NEW S, S = RingOfSteps(G, nx, d), NEW n \in DOMAIN a, Meets(S, a[n])
  PROVE  \E y \in RingOf(nx, d) : o[y] = n
<1>1. PICK s \in S : a[n] \in {s[1], s[2]}  BY DEF Meets
<1>2. PICK x \in RingOf(nx, d) : \E i \in 1 .. Len(Path(G, x)) - 1 : s = StepOf(G, x, i)
  BY RingWalls
<1>3. x \in DOMAIN nx /\ nx[x] \in RingOf(nx, d)  BY RingFacts
<1>4. s \in Steps(Path(G, x))  BY <1>2, PathSteps DEF StepOf
<1>5. /\ EdgeOf(x) \in DOMAIN G /\ o[x] \in DOMAIN a /\ -x \in DOMAIN nx /\ o[nx[x]] = o[-x]
  BY <1>3, NetFacts
<1>6. o[-x] \in DOMAIN a  BY <1>5, NetFacts
<1>7. \/ a[n] \in InteriorPoints(G[EdgeOf(x)])
      \/ a[n] = a[o[x]]
      \/ a[n] = a[o[-x]]
  BY <1>1, <1>3, <1>4, VertexKinds
<1>8. a[n] \notin InteriorPoints(G[EdgeOf(x)]) /\ \A m \in DOMAIN a : a[n] = a[m] => n = m
  BY <1>5 DEF Net, Meeting
<1>9. n = o[x] \/ n = o[nx[x]]  BY <1>5, <1>6, <1>7, <1>8
<1>10. QED  BY <1>3, <1>9

\* The darts other than those of the ring of d on whose left it winds as often as
\* on its own.
Beyond(G, nx, d) ==
  {x \in DOMAIN nx \ RingOf(nx, d) :
     Winding(RingOfSteps(G, nx, d), LeftOf(G, x)) = Winding(RingOfSteps(G, nx, d), LeftOf(G, d))}

\* No way along the edges leads from them to the ring.
LEMMA BeyondLinked ==
  ASSUME NEW a, NEW G, NEW o, NEW nx, Net(a, G, o, nx), NEW d \in DOMAIN nx
  PROVE  /\ Linked(nx, Beyond(G, nx, d)) /\ Beyond(G, nx, d) \in SUBSET DOMAIN nx
         /\ \A x \in Beyond(G, nx, d) : -x \notin RingOf(nx, d) /\ RingOf(nx, x) \subseteq Beyond(G, nx, d)
<1> DEFINE S == RingOfSteps(G, nx, d)
           w == Winding(S, LeftOf(G, d))
           Z == Beyond(G, nx, d)
<1>1. Z \in SUBSET DOMAIN nx
      /\ \A x : x \in Z <=> x \in DOMAIN nx /\ x \notin RingOf(nx, d) /\ Winding(S, LeftOf(G, x)) = w
  BY DEF Beyond
<1> HIDE DEF S, w, Z
<1>2. ASSUME NEW x \in Z  PROVE -x \notin RingOf(nx, d) /\ -x \in Z /\ nx[x] \in Z
  <2>1. x \in DOMAIN nx /\ -x \in DOMAIN nx /\ -(-x) = x /\ nx[x] \in DOMAIN nx /\ x \notin RingOf(nx, d)
        /\ Winding(S, LeftOf(G, x)) = w
    BY <1>1, NetFacts
  <2>2. Winding(S, LeftOf(G, d)) = w  BY DEF w
  <2>3. w \in Int  BY <2>2, Windings DEF S
  <2>4. -x \notin RingOf(nx, d)
    <3>1. ASSUME -x \in RingOf(nx, d)  PROVE FALSE
      <4>1. PICK y : y = -x  OBVIOUS
      <4>2. y \in DOMAIN nx /\ y \in RingOf(nx, d) /\ -y = x  BY <2>1, <3>1, <4>1
      <4>3. Winding(S, LeftOf(G, -y)) = Winding(S, LeftOf(G, d)) - 1
        BY <2>1, <4>2, Windings DEF S
      <4>4. QED  BY <2>1, <2>2, <2>3, <4>2, <4>3
    <3>2. QED  BY <3>1
  <2>5. Winding(S, LeftOf(G, -x)) = w  BY <2>1, <2>4, Windings DEF S
  <2>6. Winding(S, LeftOf(G, nx[x])) = w  BY <2>1, Windings DEF S
  <2>7. nx[x] \notin RingOf(nx, d)
    <3>1. ASSUME nx[x] \in RingOf(nx, d)  PROVE FALSE
      <4>1. RingOf(nx, d) \in SUBSET DOMAIN nx /\ \A y \in RingOf(nx, d) : nx[y] \in RingOf(nx, d)
        BY RingFacts
      <4>2. PICK y \in RingOf(nx, d) : nx[y] = nx[x]  BY <3>1, <4>1, RingOnto
      <4>3. y = x  BY <2>1, <4>1, <4>2, OneBefore
      <4>4. QED  BY <2>1, <4>2, <4>3
    <3>2. QED  BY <3>1
  <2>8. QED  BY <1>1, <2>1, <2>4, <2>5, <2>6, <2>7
<1>3. ASSUME NEW x \in Z  PROVE RingOf(nx, x) \subseteq Z
  <2>1. x \in DOMAIN nx /\ \A y \in Z : nx[y] \in Z  BY <1>1, <1>2
  <2>2. QED  BY <2>1, RingFacts
<1>4. QED  BY <1>1, <1>2, <1>3 DEF Linked, Z

\* Nor does the ring meet their lines.
LEMMA BeyondApart ==
  ASSUME NEW a, NEW G, NEW o, NEW nx, Net(a, G, o, nx), NEW d \in DOMAIN nx,
         NEW x \in Beyond(G, nx, d), NEW s \in Steps(Path(G, x)), NEW v \in {s[1], s[2]}
  PROVE  ~Meets(RingOfSteps(G, nx, d), v)
<1> DEFINE S == RingOfSteps(G, nx, d)
           Z == Beyond(G, nx, d)
<1>1. Linked(nx, Z) /\ Z \in SUBSET DOMAIN nx /\ -x \notin RingOf(nx, d) /\ x \in DOMAIN nx
      /\ x \notin RingOf(nx, d) /\ -x \in Z
  BY BeyondLinked DEF Beyond, Linked
<1>2. SUFFICES ASSUME Meets(S, v)  PROVE FALSE  OBVIOUS
<1>3. EdgeOf(x) \in DOMAIN G /\ o[x] \in DOMAIN a /\ -x \in DOMAIN nx /\ -(-x) = x /\ x \in Int
  BY <1>1, NetFacts
<1>4. o[-x] \in DOMAIN a  BY <1>3, NetFacts
<1>5. ASSUME v \in InteriorPoints(G[EdgeOf(x)])  PROVE FALSE
  <2>1. EdgeOf(x) \in RingOf(nx, d) \/ -EdgeOf(x) \in RingOf(nx, d)  BY <1>2, <1>3, <1>5, RingMeets
  <2>2. QED  BY <1>1, <1>3, <2>1 DEF EdgeOf
<1>6. ASSUME NEW u \in Z, v = a[o[u]], o[u] \in DOMAIN a  PROVE FALSE
  <2>1. PICK y \in RingOf(nx, d) : o[y] = o[u]  BY <1>2, <1>6, RingLeaves
  <2>2. y \in DOMAIN nx  BY RingFacts
  <2>3. y \in Z  BY <1>1, <1>6, <2>1, <2>2, NodeLinked
  <2>4. QED  BY <2>1, <2>3 DEF Beyond
<1>7. QED  BY <1>1, <1>3, <1>4, <1>5, <1>6, VertexKinds

\* Steps with something on their left that a ring winds around are in its box.
LEMMA BoxInside ==
  ASSUME NEW S, Balanced(S), NEW T \in SUBSET UnitSteps, T # {},
         \A s \in T : Winding(S, LeftCell(s)) # 0
  PROVE  gbox_contains_2d(StepsBox(S), StepsBox(T))
<1>1. PICK b : b = StepsBox(S)  OBVIOUS
<1>2. PICK c : c = StepsBox(T)  OBVIOUS
<1>3. ASSUME NEW p \in StepPoints(T)
      PROVE  b.xmin <= p[1] /\ p[1] <= b.xmax /\ b.ymin <= p[2] /\ p[2] <= b.ymax
  <2>1. PICK s \in T : p = s[1] \/ p = s[2]  BY DEF StepPoints
  <2>2. s \in UnitSteps /\ Winding(S, LeftCell(s)) # 0  BY <2>1
  <2>3. /\ b.xmin <= s[1][1] /\ s[1][1] <= b.xmax /\ b.ymin <= s[1][2] /\ s[1][2] <= b.ymax
        /\ b.xmin <= s[2][1] /\ s[2][1] <= b.xmax /\ b.ymin <= s[2][2] /\ s[2][2] <= b.ymax
    BY <1>1, <2>2, BesideBoxed
  <2>4. QED  BY <2>1, <2>3
<1>4. c = BoxOf(StepPoints(T)) /\ StepPoints(T) \in SUBSET Vertices /\ StepPoints(T) # {}
  BY <1>2, StepsBoxHolds
<1>5. /\ \E p \in StepPoints(T) : c.xmin = p[1]
      /\ \E p \in StepPoints(T) : c.xmax = p[1]
      /\ \E p \in StepPoints(T) : c.ymin = p[2]
      /\ \E p \in StepPoints(T) : c.ymax = p[2]
  BY <1>4, BoxHolds
<1>6. b.xmin <= c.xmin /\ c.xmax <= b.xmax /\ b.ymin <= c.ymin /\ c.ymax <= b.ymax
  BY <1>3, <1>5
<1>7. QED  BY <1>1, <1>2, <1>6 DEF gbox_contains_2d

\* Around a vertex of the line of dart x that a ring does not meet it winds as
\* often as around what is on the left of the dart.
LEMMA FreeVertex ==
  ASSUME NEW a, NEW G, NEW o, NEW nx, Net(a, G, o, nx), NEW d \in DOMAIN nx,
         NEW S, S = RingOfSteps(G, nx, d), NEW x \in DOMAIN nx,
         NEW s \in Steps(Path(G, x)), NEW v \in {s[1], s[2]}, ~Meets(S, v)
  PROVE  /\ v \in Vertices /\ Winding(S, v) = Winding(S, LeftOf(G, x))
         /\ Winding(S, CellAt(v[1] - 1, v[2])) = Winding(S, LeftOf(G, x))
<1> DEFINE k == WindingOf(S)
           W == {{t[1], t[2]} : t \in S}
<1>1. Balanced(S) /\ Smooth(WallsOf(G), k)  BY RingWalls
<1>2. IsLine(Path(G, x)) /\ LeftOf(G, x) \in Cells  BY NetFacts, LeftIsCell
<1>3. s \in UnitSteps /\ s[1] \in Vertices /\ s[2] \in Vertices /\ s = <<s[1], s[2]>>
      /\ Adjacent(s[1], s[2])
  BY <1>2, StepsBack
<1>4. Adjacent(s[2], s[1])  BY <1>3, AdjacentSymmetric
<1>5. LeftCell(s) \in Cells  BY <1>3, StepCells
<1>6. k[LeftCell(s)] = k[LeftOf(G, x)]  BY <1>1, Sides
<1>7. Winding(S, LeftCell(s)) = Winding(S, LeftOf(G, x))  BY <1>2, <1>5, <1>6 DEF WindingOf
<1>8. v \in Vertices  BY <1>3
<1>9. \A u \in Vertices : Adjacent(v, u) =>
        /\ Winding(S, LeftCell(<<u, v>>)) = Winding(S, v)
        /\ Winding(S, LeftCell(<<v, u>>)) = Winding(S, v)
  BY <1>1, <1>8, WindFree
<1>10. Winding(S, LeftCell(s)) = Winding(S, v)
  <2>1. CASE v = s[1]
    <3>1. Winding(S, LeftCell(<<v, s[2]>>)) = Winding(S, v)  BY <1>3, <1>9, <2>1
    <3>2. QED  BY <1>3, <2>1, <3>1
  <2>2. CASE v = s[2]
    <3>1. Winding(S, LeftCell(<<s[1], v>>)) = Winding(S, v)  BY <1>3, <1>4, <1>9, <2>2
    <3>2. QED  BY <1>3, <2>2, <3>1
  <2>3. QED  BY <2>1, <2>2
<1>11. Winding(S, v) = Winding(S, CellAt(v[1], v[2]))  BY <1>1, <1>8, WindFree
<1>12. Smooth(W, k)  BY <1>1, WindingSmooth
<1>13. \A w \in W : v \notin w  BY DEF Meets
<1>14. k[Quad(v, 7)] = k[CellAt(v[1], v[2])]  BY <1>8, <1>12, <1>13, AroundFree
<1>15. v[1] \in Int /\ v[2] \in Int /\ v = <<v[1], v[2]>>  BY <1>8, VertexParts
<1>16. Quad(v, 7) = CellAt(v[1] - 1, v[2])  BY <1>15, Quads
<1>17. CellAt(v[1] - 1, v[2]) \in Cells /\ CellAt(v[1], v[2]) \in Cells  BY <1>15, CellFacts
<1>18. Winding(S, CellAt(v[1] - 1, v[2])) = Winding(S, CellAt(v[1], v[2]))
  BY <1>14, <1>16, <1>17 DEF WindingOf
<1>19. QED  BY <1>7, <1>8, <1>10, <1>11, <1>18

\* A ring with steps has points.
LEMMA RingSome ==
  ASSUME NEW a, NEW G, NEW o, NEW nx, Net(a, G, o, nx), NEW d \in DOMAIN nx
  PROVE  RingOfSteps(G, nx, d) # {}
<1>1. d \in RingOf(nx, d)  BY RingFacts
<1>2. 1 \in 1 .. Len(Path(G, d)) - 1  BY PathLength
<1>3. StepOf(G, d, 1) \in RingOfSteps(G, nx, d)  BY <1>1, <1>2, RingWalls
<1>4. QED  BY <1>3

\* A shell that winds around what is on the left of another ring is around it: its
\* box is larger.
LEMMA ShellAround ==
  ASSUME NEW a, NEW G, NEW o, NEW nx, Net(a, G, o, nx), NEW d \in DOMAIN nx,
         NEW S, S = RingOfSteps(G, nx, d), Winding(S, LeftOf(G, d)) = 1,
         NEW x \in Beyond(G, nx, d), NEW T, T = RingOfSteps(G, nx, x)
  PROVE  gbox_contains_2d(StepsBox(S), StepsBox(T)) /\ StepsBox(S) # StepsBox(T)
<1>1. RingOf(nx, x) \subseteq Beyond(G, nx, d) /\ x \in DOMAIN nx  BY BeyondLinked
<1>2. Balanced(S) /\ Smooth(WallsOf(G), WindingOf(S))  BY RingWalls
<1>3. T \in SUBSET UnitSteps
      /\ \A s : s \in T <=> \E y \in RingOf(nx, x) : \E i \in 1 .. Len(Path(G, y)) - 1 : s = StepOf(G, y, i)
  BY <1>1, RingWalls
<1>4. ASSUME NEW s \in T
      PROVE  \E y \in Beyond(G, nx, d) : /\ s \in Steps(Path(G, y)) /\ y \in DOMAIN nx
                                         /\ Winding(S, LeftOf(G, y)) = 1
  <2>1. PICK y \in RingOf(nx, x) : \E i \in 1 .. Len(Path(G, y)) - 1 : s = StepOf(G, y, i)
    BY <1>3, <1>4
  <2>2. y \in Beyond(G, nx, d) /\ s \in Steps(Path(G, y))  BY <1>1, <2>1, PathSteps DEF StepOf
  <2>3. y \in DOMAIN nx /\ Winding(S, LeftOf(G, y)) = 1  BY <2>2 DEF Beyond
  <2>4. QED  BY <2>2, <2>3
<1>5. ASSUME NEW s \in T  PROVE Winding(S, LeftCell(s)) # 0
  <2>1. PICK y \in Beyond(G, nx, d) : s \in Steps(Path(G, y)) /\ y \in DOMAIN nx
                                      /\ Winding(S, LeftOf(G, y)) = 1
    BY <1>4
  <2>2. WindingOf(S)[LeftCell(s)] = WindingOf(S)[LeftOf(G, y)]  BY <1>2, <2>1, Sides
  <2>3. LeftCell(s) \in Cells /\ LeftOf(G, y) \in Cells  BY <2>1, LeftIsCell
  <2>4. Winding(S, LeftCell(s)) = 1  BY <2>1, <2>2, <2>3 DEF WindingOf
  <2>5. QED  BY <2>4
<1>6. T # {}  BY <1>1, RingSome
<1>7. gbox_contains_2d(StepsBox(S), StepsBox(T))  BY <1>2, <1>3, <1>5, <1>6, BoxInside
<1>8. ASSUME StepsBox(S) = StepsBox(T)  PROVE FALSE
  <2>1. PICK b : b = StepsBox(S)  OBVIOUS
  <2>2. b = BoxOf(StepPoints(T)) /\ StepPoints(T) \in SUBSET Vertices /\ StepPoints(T) # {}
    BY <1>3, <1>6, <1>8, <2>1, StepsBoxHolds
  <2>3. PICK v \in StepPoints(T) : b.xmin = v[1]  BY <2>2, BoxHolds
  <2>4. PICK s \in T : v \in {s[1], s[2]}  BY DEF StepPoints
  <2>5. PICK y \in Beyond(G, nx, d) : s \in Steps(Path(G, y)) /\ y \in DOMAIN nx
                                      /\ Winding(S, LeftOf(G, y)) = 1
    BY <1>4
  <2>6. ~Meets(S, v)  BY <2>4, <2>5, BeyondApart
  <2>7. v \in Vertices /\ Winding(S, CellAt(v[1] - 1, v[2])) = 1  BY <2>4, <2>5, <2>6, FreeVertex
  <2>8. v[1] - 1 \in Int /\ v[1] - 1 >= -1 /\ v[2] \in Int /\ v[1] \in Int
    <3>1. v[1] \in 0 .. Width /\ v[2] \in Int  BY <2>7, VertexParts
    <3>2. QED  BY <3>1, GridSize
  <2>9. Wind(S, v[1] - 1, v[2]) = 1  BY <1>2, <2>7, <2>8, WindCell
  <2>10. b.xmin <= v[1] - 1
    <3>1. PICK i \in Int : i = v[1] - 1  BY <2>8
    <3>2. i >= -1 /\ Wind(S, i, v[2]) # 0  BY <2>8, <2>9, <3>1
    <3>3. b.xmin <= i  BY <1>2, <2>1, <2>8, <3>1, <3>2, Boxed
    <3>4. QED  BY <3>1, <3>3
  <2>11. QED  BY <2>3, <2>8, <2>10
<1>9. QED  BY <1>7, <1>8

\* Boxes of rings that contain each other are one.
LEMMA MutualBoxes ==
  ASSUME NEW S \in SUBSET UnitSteps, S # {}, NEW T \in SUBSET UnitSteps, T # {},
         gbox_contains_2d(StepsBox(S), StepsBox(T)), gbox_contains_2d(StepsBox(T), StepsBox(S))
  PROVE  StepsBox(S) = StepsBox(T)
<1>1. PICK b : b = StepsBox(S)  OBVIOUS
<1>2. PICK c : c = StepsBox(T)  OBVIOUS
<1>3. b = BoxOf(StepPoints(S)) /\ StepPoints(S) \in SUBSET Vertices /\ StepPoints(S) # {}
  BY <1>1, StepsBoxHolds
<1>4. c = BoxOf(StepPoints(T)) /\ StepPoints(T) \in SUBSET Vertices /\ StepPoints(T) # {}
  BY <1>2, StepsBoxHolds
<1>5. /\ b = [xmin |-> b.xmin, xmax |-> b.xmax, ymin |-> b.ymin, ymax |-> b.ymax]
      /\ b.xmin \in Nat /\ b.xmax \in Nat /\ b.ymin \in Nat /\ b.ymax \in Nat
  BY <1>3, BoxHolds
<1>6. /\ c = [xmin |-> c.xmin, xmax |-> c.xmax, ymin |-> c.ymin, ymax |-> c.ymax]
      /\ c.xmin \in Nat /\ c.xmax \in Nat /\ c.ymin \in Nat /\ c.ymax \in Nat
  BY <1>4, BoxHolds
<1>7. gbox_contains_2d(b, c) /\ gbox_contains_2d(c, b)  BY <1>1, <1>2
<1>8. b.xmin = c.xmin /\ b.xmax = c.xmax /\ b.ymin = c.ymin /\ b.ymax = c.ymax
  BY <1>5, <1>6, <1>7 DEF gbox_contains_2d
<1>9. QED  BY <1>1, <1>2, <1>5, <1>6, <1>8

\* The first point of the edge of a dart is a point of its line, and where the node
\* is that one of the darts of the edge leaves.
LEMMA FirstPoint ==
  ASSUME NEW a, NEW G, NEW o, NEW nx, Net(a, G, o, nx), NEW r \in DOMAIN nx
  PROVE  /\ \E s \in Steps(Path(G, r)) : G[EdgeOf(r)][1] \in {s[1], s[2]}
         /\ \E e \in {r, -r} : /\ e \in DOMAIN nx /\ o[e] \in DOMAIN a
                               /\ a[o[e]] = G[EdgeOf(r)][1] /\ -e \in {r, -r}
<1> DEFINE p == Path(G, r)
<1>1. /\ r \in Int /\ r # 0 /\ -r \in DOMAIN nx /\ -(-r) = r /\ o[r] \in DOMAIN a /\ o[-r] \in DOMAIN a
      /\ IsLine(p) /\ p[1] = a[o[r]] /\ Last(p) = a[o[-r]] /\ EdgeOf(r) \in DOMAIN G
  BY NetFacts
<1>2. a[o[EdgeOf(r)]] = G[EdgeOf(r)][1]  BY <1>1, NetFacts
<1>3. EdgeOf(r) \in {r, -r}  BY DEF EdgeOf
<1>4. \E e \in {r, -r} : /\ e \in DOMAIN nx /\ o[e] \in DOMAIN a
                         /\ a[o[e]] = G[EdgeOf(r)][1] /\ -e \in {r, -r}
  BY <1>1, <1>2, <1>3
<1>5. Len(p) \in Nat /\ Len(p) > 1  BY <1>1, LineFacts
<1>6. Last(p) = p[Len(p)]  BY DEF Last
<1>7. G[EdgeOf(r)][1] = p[1] \/ G[EdgeOf(r)][1] = p[Len(p)]  BY <1>1, <1>2, <1>3, <1>6
<1>8. CASE G[EdgeOf(r)][1] = p[1]
  <2>1. <<p[1], p[1 + 1]>> \in Steps(p)  BY <1>5, PathSteps
  <2>2. QED  BY <1>4, <1>8, <2>1
<1>9. CASE G[EdgeOf(r)][1] = p[Len(p)]
  <2>1. PICK i \in 1 .. Len(p) - 1 : i + 1 = Len(p)  BY <1>5
  <2>2. <<p[i], p[i + 1]>> \in Steps(p)  BY PathSteps
  <2>3. QED  BY <1>4, <1>9, <2>1, <2>2
<1>10. QED  BY <1>7, <1>8, <1>9

\* A ring that does not wind around another, which is no shell, does not wind
\* around the first point of an edge of that one or is in its box.
LEMMA NotInside ==
  ASSUME NEW a, NEW G, NEW o, NEW nx, Net(a, G, o, nx), NEW t \in DOMAIN nx,
         NEW S, S = RingOfSteps(G, nx, t),
         NEW r \in DOMAIN nx, r \notin RingOf(nx, t), NEW T, T = RingOfSteps(G, nx, r),
         Winding(S, LeftOf(G, r)) = 0, Winding(T, LeftOf(G, r)) = 0
  PROVE  Winding(S, G[EdgeOf(r)][1]) = 0 \/ gbox_contains_2d(StepsBox(T), StepsBox(S))
<1>1. PICK p : p = G[EdgeOf(r)][1]  OBVIOUS
<1>2. CASE ~Meets(S, p)
  <2>1. PICK s \in Steps(Path(G, r)) : p \in {s[1], s[2]}  BY <1>1, FirstPoint
  <2>2. Winding(S, p) = Winding(S, LeftOf(G, r))  BY <1>2, <2>1, FreeVertex
  <2>3. QED  BY <1>1, <2>2
<1>3. CASE Meets(S, p)
  <2>1. PICK e \in {r, -r} : e \in DOMAIN nx /\ o[e] \in DOMAIN a /\ a[o[e]] = p /\ -e \in {r, -r}
    BY <1>1, FirstPoint
  <2>2. r \in Int /\ -(-r) = r  BY NetFacts
  <2>3. Meets(S, a[o[e]])  BY <1>3, <2>1
  <2>4. PICK y \in RingOf(nx, t) : o[y] = o[e]  BY <2>1, <2>3, RingLeaves
  <2>5. ASSUME Winding(T, LeftOf(G, t)) = 0  PROVE FALSE
    <3>1. t \notin RingOf(nx, r)
      <4>1. ASSUME t \in RingOf(nx, r)  PROVE FALSE
        <5>1. r \in RingOf(nx, t)  BY <4>1, RingBack
        <5>2. QED  BY <5>1
      <4>2. QED  BY <4>1
    <3>2. t \in Beyond(G, nx, r)  BY <2>5, <3>1 DEF Beyond
    <3>3. Linked(nx, Beyond(G, nx, r)) /\ Beyond(G, nx, r) \in SUBSET DOMAIN nx
          /\ RingOf(nx, t) \subseteq Beyond(G, nx, r)
      BY <3>2, BeyondLinked
    <3>4. y \in Beyond(G, nx, r)  BY <3>3
    <3>5. e \in Beyond(G, nx, r)
      <4>1. PICK X \in SUBSET DOMAIN nx : X = Beyond(G, nx, r)  BY <3>3
      <4>2. Linked(nx, X) /\ y \in X  BY <3>3, <3>4, <4>1
      <4>3. e \in X  BY <2>1, <2>4, <4>2, NodeLinked
      <4>4. QED  BY <4>1, <4>3
    <3>6. -e \in Beyond(G, nx, r)  BY <3>3, <3>5 DEF Linked
    <3>7. r \in Beyond(G, nx, r)  BY <2>1, <2>2, <3>5, <3>6
    <3>8. r \in RingOf(nx, r)  BY RingFacts
    <3>9. QED  BY <3>7, <3>8 DEF Beyond
  <2>6. Balanced(T) /\ Smooth(WallsOf(G), WindingOf(T))  BY RingWalls
  <2>7. S \in SUBSET UnitSteps  BY RingWalls
  <2>8. S # {}  BY RingSome
  <2>9. ASSUME NEW s \in S  PROVE Winding(T, LeftCell(s)) # 0
    <3>1. PICK k : k = WindingOf(T)  OBVIOUS
    <3>2. k[LeftCell(s)] = k[LeftOf(G, t)] /\ LeftCell(s) \in Cells  BY <2>6, <3>1, RingRegion
    <3>3. LeftOf(G, t) \in Cells  BY LeftIsCell
    <3>4. QED  BY <2>5, <3>1, <3>2, <3>3 DEF WindingOf
  <2>10. gbox_contains_2d(StepsBox(T), StepsBox(S))  BY <2>6, <2>7, <2>8, <2>9, BoxInside
  <2>11. QED  BY <2>10
<1>4. QED  BY <1>2, <1>3

\* The test by boxes and a point tells whether a shell is around another ring, if
\* that is no shell.
LEMMA AroundTest ==
  ASSUME NEW a, NEW G, NEW o, NEW nx, Net(a, G, o, nx), NEW t \in DOMAIN nx,
         NEW S, S = RingOfSteps(G, nx, t), Winding(S, LeftOf(G, t)) = 1,
         NEW r \in DOMAIN nx, r \notin RingOf(nx, t), NEW T, T = RingOfSteps(G, nx, r),
         Winding(T, LeftOf(G, r)) = 0
  PROVE  Winding(S, LeftOf(G, r)) = 1 <=>
           /\ t # -r
           /\ StepsBox(S) # StepsBox(T)
           /\ gbox_contains_2d(StepsBox(S), StepsBox(T))
           /\ Winding(S, G[EdgeOf(r)][1]) % 2 = 1
<1>1. ASSUME Winding(S, LeftOf(G, r)) = 1
      PROVE  /\ t # -r
             /\ StepsBox(S) # StepsBox(T)
             /\ gbox_contains_2d(StepsBox(S), StepsBox(T))
             /\ Winding(S, G[EdgeOf(r)][1]) % 2 = 1
  <2>1. r \in Beyond(G, nx, t)  BY <1>1 DEF Beyond
  <2>2. gbox_contains_2d(StepsBox(S), StepsBox(T)) /\ StepsBox(S) # StepsBox(T)  BY <2>1, ShellAround
  <2>3. t # -r
    <3>1. -r \notin RingOf(nx, t)  BY <2>1, BeyondLinked
    <3>2. t \in RingOf(nx, t)  BY RingFacts
    <3>3. QED  BY <3>1, <3>2
  <2>4. PICK s \in Steps(Path(G, r)) : G[EdgeOf(r)][1] \in {s[1], s[2]}  BY FirstPoint
  <2>5. PICK v : v = G[EdgeOf(r)][1]  OBVIOUS
  <2>6. v \in {s[1], s[2]}  BY <2>4, <2>5
  <2>7. ~Meets(S, v)  BY <2>1, <2>4, <2>6, BeyondApart
  <2>8. Winding(S, v) = Winding(S, LeftOf(G, r))  BY <2>4, <2>6, <2>7, FreeVertex
  <2>9. Winding(S, v) % 2 = 1  BY <1>1, <2>8
  <2>10. QED  BY <2>2, <2>3, <2>5, <2>9
<1>2. ASSUME Winding(S, LeftOf(G, r)) # 1,
             StepsBox(S) # StepsBox(T),
             gbox_contains_2d(StepsBox(S), StepsBox(T)),
             Winding(S, G[EdgeOf(r)][1]) % 2 = 1
      PROVE  FALSE
  <2>1. \A c \in Cells : Winding(S, c) \in {0, 1}  BY ShellWinds
  <2>2. LeftOf(G, r) \in Cells  BY LeftIsCell
  <2>3. Winding(S, LeftOf(G, r)) = 0  BY <1>2, <2>1, <2>2
  <2>4. Winding(S, G[EdgeOf(r)][1]) = 0 \/ gbox_contains_2d(StepsBox(T), StepsBox(S))
    BY <2>3, NotInside
  <2>5. S \in SUBSET UnitSteps /\ T \in SUBSET UnitSteps  BY RingWalls
  <2>6. S # {}  BY RingSome
  <2>7. T # {}  BY RingSome
  <2>8. CASE Winding(S, G[EdgeOf(r)][1]) = 0
    <3>1. 0 % 2 = 0  OBVIOUS
    <3>2. QED  BY <1>2, <2>8, <3>1
  <2>9. CASE gbox_contains_2d(StepsBox(T), StepsBox(S))
    <3>1. StepsBox(S) = StepsBox(T)  BY <1>2, <2>5, <2>6, <2>7, <2>9, MutualBoxes
    <3>2. QED  BY <1>2, <3>1
  <2>10. QED  BY <2>4, <2>8, <2>9
<1>3. QED  BY <1>1, <1>2

-----------------------------------------------------------------------------
(* How _lwt_FindFaceContainingRing goes through the shells. *)

\* The shell found is s from now on.
Takes(found, s, d) ==
  /\ found = Universe \/ gbox_contains_2d(RingBox(found), RingBox(s))
  /\ Surrounds(s, d)

\* What is found among the first of n shells, and among others.
Finding(shells, d, n, g) ==
  g = [T \in SUBSET (1 .. n) |->
         IF T = {} THEN Universe
         ELSE IF Takes(g[T \ {Max(T)}], shells[Max(T)], d) THEN shells[Max(T)]
              ELSE g[T \ {Max(T)}]]

\* The same of one set T, when it is found among the sets F.
FoundOf(shells, d, T, g) ==
  IF T = {} THEN Universe
  ELSE IF Takes(g[T \ {Max(T)}], shells[Max(T)], d) THEN shells[Max(T)]
       ELSE g[T \ {Max(T)}]

\* The function in terms of one step of it.
LEMMA FindingIs ==
  ASSUME NEW shells, NEW d, NEW n \in Nat, NEW g
  PROVE  Finding(shells, d, n, g)
           <=> g = [T \in SUBSET (1 .. n) |-> FoundOf(shells, d, T, g)]
  BY DEF Finding, FoundOf

\* What it has for each set.
LEMMA FindingAt ==
  ASSUME NEW shells, NEW d, NEW n \in Nat, NEW g, Finding(shells, d, n, g)
  PROVE  \A T \in SUBSET (1 .. n) : g[T] = FoundOf(shells, d, T, g)
<1>1. PICK h : h = [T \in SUBSET (1 .. n) |-> FoundOf(shells, d, T, g)]  OBVIOUS
<1>2. g = h
  <2>1. g = [T \in SUBSET (1 .. n) |-> FoundOf(shells, d, T, g)]
    BY DEF Finding, FoundOf
  <2>2. QED  BY <1>1, <2>1, Zenon
<1>3. \A T \in SUBSET (1 .. n) : h[T] = FoundOf(shells, d, T, g)  BY <1>1
<1>4. QED  BY <1>2, <1>3

\* A largest number is what Max returns.
LEMMA LargestOf ==
  ASSUME NEW T, NEW n \in T, n \in Int, \A i \in T : i \in Int /\ i <= n
  PROVE  Max(T) = n
<1>1. \E x \in T : \A y \in T : x >= y  OBVIOUS
<1>2. Max(T) \in T /\ \A y \in T : Max(T) >= y  BY <1>1, Zenon DEF Max
<1>3. PICK m \in T : m = Max(T) /\ m >= n  BY <1>2
<1>4. m \in Int /\ m <= n  OBVIOUS
<1>5. QED  BY <1>3, <1>4

\* What holds of 0 and passes from each number to the next holds up to n.
LEMMA CountUp ==
  ASSUME NEW n \in Nat, NEW T, 0 \in T, \A k \in 0 .. n - 1 : k \in T => k + 1 \in T
  PROVE  n \in T
<1> DEFINE B == {k \in Nat : k <= n /\ k \notin T}
<1>1. ASSUME B # {}  PROVE FALSE
  <2> HIDE DEF B
  <2>1. B \in SUBSET Nat  BY DEF B
  <2>2. LP!LinksAssumption  BY TopologyAssumption DEF LP!LinksAssumption
  <2>3. PICK x \in B : \A y \in B : x <= y  BY <1>1, <2>1, <2>2, LP!LeastNat
  <2>4. x \in Nat /\ x <= n /\ x \notin T /\ x # 0  BY <2>3 DEF B
  <2>5. PICK k \in 0 .. n - 1 : x = k + 1
    <3>1. x - 1 \in 0 .. n - 1 /\ x = (x - 1) + 1  BY <2>4
    <3>2. QED  BY <3>1
  <2>6. k \in T
    <3>1. ~(x <= k) /\ k \in Nat /\ k <= n  BY <2>5
    <3>2. k \notin B  BY <2>3, <3>1
    <3>3. QED  BY <3>1, <3>2 DEF B
  <2>7. QED  BY <2>4, <2>5, <2>6
<1>2. QED  BY <1>1

\* There is such a function.
LEMMA FindingExists ==
  ASSUME NEW shells, NEW d, NEW n \in Nat
  PROVE  \E g : Finding(shells, d, n, g)
<1> DEFINE B == {k \in Nat : \E g : Finding(shells, d, k, g)}
<1>1. 0 \in B
  <2> DEFINE g == [T \in SUBSET (1 .. 0) |-> Universe]
  <2>1. \A T \in SUBSET (1 .. 0) : T = {}  OBVIOUS
  <2>2. g = [T \in SUBSET (1 .. 0) |-> FoundOf(shells, d, T, g)]  BY <2>1 DEF FoundOf
  <2>3. Finding(shells, d, 0, g)  BY <2>2, FindingIs
  <2>4. QED  BY <2>3
<1>2. ASSUME NEW k \in Nat, k \in B  PROVE k + 1 \in B
  <2>1. PICK g : Finding(shells, d, k, g)  BY <1>2
  <2> DEFINE h == [T \in SUBSET (1 .. k + 1) |->
                     IF k + 1 \in T
                     THEN IF Takes(g[T \ {k + 1}], shells[k + 1], d) THEN shells[k + 1]
                          ELSE g[T \ {k + 1}]
                     ELSE g[T]]
  <2>2. \A T \in SUBSET (1 .. k) : g[T] = FoundOf(shells, d, T, g)  BY <2>1, FindingAt
  <2>3. ASSUME NEW T \in SUBSET (1 .. k + 1)  PROVE h[T] = FoundOf(shells, d, T, h)
    <3>1. \A X \in SUBSET (1 .. k) : X \in SUBSET (1 .. k + 1) /\ k + 1 \notin X /\ h[X] = g[X]
      BY <1>2
    <3>2. CASE k + 1 \in T
      <4>1. Max(T) = k + 1
        <5>1. k + 1 \in Int /\ \A i \in T : i \in Int /\ i <= k + 1  BY <1>2, <2>3
        <5>2. QED  BY <3>2, <5>1, LargestOf
      <4>2. T \ {k + 1} \in SUBSET (1 .. k)  BY <1>2, <2>3
      <4>3. h[T \ {k + 1}] = g[T \ {k + 1}]  BY <3>1, <4>2
      <4>4. h[T] = IF Takes(g[T \ {k + 1}], shells[k + 1], d) THEN shells[k + 1] ELSE g[T \ {k + 1}]
        BY <3>2
      <4>5. T # {}  BY <3>2
      <4> HIDE DEF h
      <4>6. QED  BY <4>1, <4>3, <4>4, <4>5 DEF FoundOf
    <3>3. CASE k + 1 \notin T
      <4>1. T \in SUBSET (1 .. k)  BY <1>2, <3>3
      <4>2. T \ {Max(T)} \in SUBSET (1 .. k)  BY <4>1
      <4>3. h[T] = g[T] /\ h[T \ {Max(T)}] = g[T \ {Max(T)}]  BY <3>1, <4>1, <4>2
      <4>4. g[T] = FoundOf(shells, d, T, g)  BY <2>2, <4>1
      <4> HIDE DEF h
      <4>5. FoundOf(shells, d, T, h) = FoundOf(shells, d, T, g)  BY <4>3 DEF FoundOf
      <4>6. QED  BY <4>3, <4>4, <4>5
    <3>4. QED  BY <3>2, <3>3
  <2>4. h = [T \in SUBSET (1 .. k + 1) |-> FoundOf(shells, d, T, h)]
    <3>1. DOMAIN h = SUBSET (1 .. k + 1) /\ h = [T \in DOMAIN h |-> h[T]]  OBVIOUS
    <3> HIDE DEF h
    <3>2. QED  BY <2>3, <3>1
  <2> HIDE DEF h
  <2>5. k + 1 \in Nat  BY <1>2
  <2>6. Finding(shells, d, k + 1, h)  BY <2>4, <2>5, FindingIs
  <2>7. QED  BY <2>6
<1>3. n \in B
  <2> HIDE DEF B
  <2>1. \A k \in 0 .. n - 1 : k \in B => k + 1 \in B  BY <1>2
  <2>2. QED  BY <1>1, <2>1, CountUp
<1>4. QED  BY <1>3

\* What is found is what such a function has for all shells, and it is found shell
\* by shell.
LEMMA FindsBySteps ==
  ASSUME NEW n \in Nat, NEW shells, DOMAIN shells = 1 .. n, NEW d
  PROVE  \E g : /\ _lwt_FindFaceContainingRing(shells, d) = g[1 .. n]
                /\ g[1 .. 0] = Universe
                /\ \A k \in 0 .. n - 1 :
                     g[1 .. k + 1] = IF Takes(g[1 .. k], shells[k + 1], d) THEN shells[k + 1]
                                     ELSE g[1 .. k]
<1>1. PICK g : g = CHOOSE h : Finding(shells, d, n, h)  OBVIOUS
<1>2. Finding(shells, d, n, g)  BY <1>1, FindingExists
<1>3. _lwt_FindFaceContainingRing(shells, d) = g[1 .. n]
  BY <1>1 DEF _lwt_FindFaceContainingRing, FoldLeft, MapThenFoldSet, Finding, Takes
<1>4. \A T \in SUBSET (1 .. n) : g[T] = FoundOf(shells, d, T, g)  BY <1>2, FindingAt
<1>5. g[1 .. 0] = Universe
  <2>1. 1 .. 0 = {} /\ {} \in SUBSET (1 .. n)  OBVIOUS
  <2>2. QED  BY <1>4, <2>1 DEF FoundOf
<1>6. ASSUME NEW k \in 0 .. n - 1
      PROVE  g[1 .. k + 1] = IF Takes(g[1 .. k], shells[k + 1], d) THEN shells[k + 1]
                             ELSE g[1 .. k]
  <2>1. PICK T : T = 1 .. k + 1  OBVIOUS
  <2>2. T \in SUBSET (1 .. n) /\ k + 1 \in T /\ k + 1 \in Int /\ \A i \in T : i \in Int /\ i <= k + 1
    BY <2>1
  <2>3. Max(T) = k + 1  BY <2>2, LargestOf
  <2>4. T \ {k + 1} = 1 .. k  BY <2>1
  <2>5. T # {}  BY <2>2
  <2>6. g[T] = FoundOf(shells, d, T, g)  BY <1>4, <2>2
  <2>7. QED  BY <2>1, <2>3, <2>4, <2>5, <2>6 DEF FoundOf
<1>7. QED  BY <1>3, <1>5, <1>6

\* Of the shells around a ring the one found is one whose box is within those of
\* all others, which are not within it; the universe is found where there is none.
LEMMA FindsClosest ==
  ASSUME NEW n \in Nat, NEW shells, DOMAIN shells = 1 .. n, NEW d
  PROVE  /\ (\A i \in 1 .. n : ~Surrounds(shells[i], d))
              => _lwt_FindFaceContainingRing(shells, d) = Universe
         /\ \A m \in 1 .. n :
              /\ Surrounds(shells[m], d)
              /\ \A i \in 1 .. n : shells[i] # Universe
              /\ \A i \in 1 .. n \ {m} : Surrounds(shells[i], d) =>
                   /\ gbox_contains_2d(RingBox(shells[i]), RingBox(shells[m]))
                   /\ ~gbox_contains_2d(RingBox(shells[m]), RingBox(shells[i]))
              => _lwt_FindFaceContainingRing(shells, d) = shells[m]
<1>1. PICK g : /\ _lwt_FindFaceContainingRing(shells, d) = g[1 .. n]
               /\ g[1 .. 0] = Universe
               /\ \A k \in 0 .. n - 1 :
                    g[1 .. k + 1] = IF Takes(g[1 .. k], shells[k + 1], d) THEN shells[k + 1]
                                    ELSE g[1 .. k]
  BY FindsBySteps
<1>2. ASSUME \A i \in 1 .. n : ~Surrounds(shells[i], d)
      PROVE  g[1 .. n] = Universe
  <2> DEFINE P(k) == g[1 .. k] = Universe
  <2>1. P(0)  BY <1>1
  <2>2. ASSUME NEW k \in 0 .. n - 1, P(k)  PROVE P(k + 1)
    <3>1. k + 1 \in 1 .. n  OBVIOUS
    <3>2. ~Takes(g[1 .. k], shells[k + 1], d)  BY <1>2, <3>1 DEF Takes
    <3>3. QED  BY <1>1, <2>2, <3>2
  <2> HIDE DEF P
  <2>3. PICK T : T = {k \in 0 .. n : P(k)}  OBVIOUS
  <2>4. 0 \in T /\ \A k \in 0 .. n - 1 : k \in T => k + 1 \in T  BY <2>1, <2>2, <2>3
  <2>5. n \in T  BY <2>4, CountUp
  <2>6. P(n)  BY <2>3, <2>5
  <2>7. QED  BY <2>6 DEF P
<1>3. ASSUME NEW m \in 1 .. n,
             Surrounds(shells[m], d),
             \A i \in 1 .. n : shells[i] # Universe,
             \A i \in 1 .. n \ {m} : Surrounds(shells[i], d) =>
               /\ gbox_contains_2d(RingBox(shells[i]), RingBox(shells[m]))
               /\ ~gbox_contains_2d(RingBox(shells[m]), RingBox(shells[i]))
      PROVE  g[1 .. n] = shells[m]
  <2> DEFINE P(k) == IF k < m
                     THEN \/ g[1 .. k] = Universe
                          \/ \E i \in 1 .. n \ {m} : Surrounds(shells[i], d) /\ g[1 .. k] = shells[i]
                     ELSE g[1 .. k] = shells[m]
  <2>1. P(0)  BY <1>1
  <2>2. ASSUME NEW k \in 0 .. n - 1, P(k)  PROVE P(k + 1)
    <3>1. k + 1 \in 1 .. n /\ k \in Int /\ m \in Int  OBVIOUS
    <3>2. g[1 .. k + 1] = IF Takes(g[1 .. k], shells[k + 1], d) THEN shells[k + 1] ELSE g[1 .. k]
      BY <1>1
    <3>3. CASE k + 1 < m
      <4>1. /\ k < m /\ k + 1 \in 1 .. n \ {m}
        BY <3>1, <3>3
      <4>2. CASE Takes(g[1 .. k], shells[k + 1], d)
        <5>1. Surrounds(shells[k + 1], d) /\ g[1 .. k + 1] = shells[k + 1]  BY <3>2, <4>2 DEF Takes
        <5>2. QED  BY <3>3, <4>1, <5>1
      <4>3. CASE ~Takes(g[1 .. k], shells[k + 1], d)  BY <2>2, <3>2, <3>3, <4>1, <4>3
      <4>4. QED  BY <4>2, <4>3
    <3>4. CASE k + 1 = m
      <4>1. k < m  BY <3>1, <3>4
      <4>2. Takes(g[1 .. k], shells[m], d)
        <5>1. CASE g[1 .. k] = Universe  BY <1>3, <5>1 DEF Takes
        <5>2. CASE \E i \in 1 .. n \ {m} : Surrounds(shells[i], d) /\ g[1 .. k] = shells[i]
          BY <1>3, <5>2 DEF Takes
        <5>3. QED  BY <2>2, <4>1, <5>1, <5>2
      <4>3. g[1 .. k + 1] = shells[m]  BY <3>2, <3>4, <4>2
      <4>4. ~(k + 1 < m)  BY <3>1, <3>4
      <4>5. QED  BY <4>3, <4>4
    <3>5. CASE k + 1 > m
      <4>1. ~(k < m) /\ ~(k + 1 < m) /\ k + 1 \in 1 .. n \ {m}  BY <3>1, <3>5
      <4>2. g[1 .. k] = shells[m]  BY <2>2, <4>1
      <4>3. ~Takes(shells[m], shells[k + 1], d)
        <5>1. shells[m] # Universe  BY <1>3
        <5>2. QED  BY <1>3, <4>1, <5>1 DEF Takes
      <4>4. g[1 .. k + 1] = shells[m]  BY <3>2, <4>2, <4>3
      <4>5. QED  BY <4>1, <4>4
    <3>6. QED  BY <3>1, <3>3, <3>4, <3>5
  <2>3. P(n) => g[1 .. n] = shells[m]
    <3>1. ~(n < m)  OBVIOUS
    <3>2. QED  BY <3>1
  <2> HIDE DEF P
  <2>4. PICK T : T = {k \in 0 .. n : P(k)}  OBVIOUS
  <2>5. 0 \in T /\ \A k \in 0 .. n - 1 : k \in T => k + 1 \in T  BY <2>1, <2>2, <2>4
  <2>6. n \in T  BY <2>5, CountUp
  <2>7. P(n)  BY <2>4, <2>6
  <2>8. QED  BY <2>3, <2>7
<1>4. QED  BY <1>1, <1>2, <1>3

-----------------------------------------------------------------------------
(* The names of rings, and the shells of regions. *)

\* The rings of the tables as rings of a net.
LEMMA RingsOfNet ==
  ASSUME NEW d
  PROVE  EdgeRing(d) = RingOfSteps(geom, next, d) /\ RingBox(d) = StepsBox(RingOfSteps(geom, next, d))
  BY DEF EdgeRing, RingBox, RingOfSteps, RingOf

\* A ring has one name, a dart of it.
LEMMA Named ==
  ASSUME Net(at, geom, org, next), NEW d \in Darts
  PROVE  /\ RingName(d) \in Darts /\ RingName(d) \in RingOf(next, d)
         /\ RingOf(next, RingName(d)) = RingOf(next, d)
         /\ RingOfSteps(geom, next, RingName(d)) = RingOfSteps(geom, next, d)
         /\ \A e : RingOf(next, e) = RingOf(next, d) => RingName(e) = RingName(d)
<1> DEFINE R == RingOf(next, d)
           Ranks == {Rank(x) : x \in R}
<1>1. d \in R /\ R \subseteq Darts  BY RingFacts DEF Darts
<1>2. \A x \in Darts : Rank(x) \in Nat
  <2> SUFFICES ASSUME NEW x \in Darts PROVE Rank(x) \in Nat  OBVIOUS
  <2>1. x \in Int  BY NetFacts DEF Darts
  <2>2. QED  BY <2>1 DEF Rank
<1>3. Ranks \in SUBSET Nat /\ Ranks # {}  BY <1>1, <1>2
<1>4. LP!LinksAssumption  BY TopologyAssumption DEF LP!LinksAssumption
<1>5. \E m \in Ranks : \A i \in Ranks : m <= i
  <2> HIDE DEF Ranks
  <2>1. QED  BY <1>3, <1>4, LP!LeastNat
<1>6. \E x \in R : \A y \in R : Rank(x) <= Rank(y)  BY <1>5
<1>7. \A e : RingName(e) = CHOOSE x \in RingOf(next, e) : \A y \in RingOf(next, e) : Rank(x) <= Rank(y)
  BY DEF RingName, RingOf
<1> HIDE DEF R
<1>8. RingName(d) \in R  BY <1>6, <1>7 DEF R
<1>9. RingName(d) \in Darts  BY <1>1, <1>8
<1>10. RingName(d) \in RingOf(next, RingName(d))  BY <1>9, RingFacts DEF Darts
<1>11. RingOf(next, RingName(d)) = RingOf(next, d)  BY <1>8, <1>9, <1>10, SameRing DEF R, Darts
<1>12. \A e : RingOf(next, e) = RingOf(next, d) => RingName(e) = RingName(d)  BY <1>7
<1>13. RingOfSteps(geom, next, RingName(d)) = RingOfSteps(geom, next, d)  BY <1>11 DEF RingOfSteps
<1>14. QED  BY <1>8, <1>9, <1>11, <1>12, <1>13 DEF R

\* How often the ring of a dart winds around what is on its left.
OwnWinding(d) == Winding(RingOfSteps(geom, next, d), LeftOf(geom, d))

\* The shells are the names of the rings that wind around what is on their left.
LEMMA ShellsAre ==
  ASSUME Net(at, geom, org, next)
  PROVE  /\ \A d \in Darts : OwnWinding(d) \in {0, 1} /\ (OwnWinding(d) = 1 <=> RingName(d) \in Shells)
         /\ \A s : s \in Shells <=> s \in Darts /\ RingName(s) = s /\ OwnWinding(s) = 1
<1>1. ASSUME NEW d \in Darts
      PROVE  /\ OwnWinding(d) \in {0, 1}
             /\ _lwt_EdgeRingIsCCW(EdgeRing(RingName(d))) <=> OwnWinding(d) = 1
             /\ RingName(d) \in Darts /\ RingName(RingName(d)) = RingName(d)
  <2>1. PICK S : S = RingOfSteps(geom, next, d)  OBVIOUS
  <2>2. PICK w : w = Winding(S, LeftOf(geom, d))  OBVIOUS
  <2>3. w \in {0, 1} /\ (Area(S) > 0 <=> w = 1)  BY <2>1, <2>2, ShellWinds DEF Darts
  <2>4. /\ RingName(d) \in Darts /\ RingOf(next, RingName(d)) = RingOf(next, d)
        /\ RingOfSteps(geom, next, RingName(d)) = RingOfSteps(geom, next, d)
        /\ \A e : RingOf(next, e) = RingOf(next, d) => RingName(e) = RingName(d)
    BY Named
  <2>5. RingName(RingName(d)) = RingName(d)  BY <2>4
  <2>6. EdgeRing(RingName(d)) = S  BY <2>1, <2>4, RingsOfNet
  <2>7. QED  BY <2>1, <2>2, <2>3, <2>4, <2>5, <2>6 DEF _lwt_EdgeRingIsCCW, OwnWinding
<1>2. ASSUME NEW s  PROVE s \in EdgeRings <=> s \in Darts /\ RingName(s) = s
  BY <1>1 DEF EdgeRings
<1>3. \A s : s \in Shells <=> s \in EdgeRings /\ _lwt_EdgeRingIsCCW(EdgeRing(s))  BY DEF Shells
<1>4. ASSUME NEW s  PROVE s \in Shells <=> s \in Darts /\ RingName(s) = s /\ OwnWinding(s) = 1
  <2>1. CASE s \in Darts /\ RingName(s) = s  BY <1>1, <1>2, <1>3, <2>1
  <2>2. CASE ~(s \in Darts /\ RingName(s) = s)  BY <1>2, <1>3, <2>2
  <2>3. QED  BY <2>1, <2>2
<1>5. ASSUME NEW d \in Darts  PROVE OwnWinding(d) = 1 <=> RingName(d) \in Shells
  <2>1. RingName(d) \in EdgeRings  BY <1>1, <1>2
  <2>2. QED  BY <1>1, <1>3, <2>1
<1>6. QED  BY <1>1, <1>4, <1>5

\* The region on the left of a dart.
LeftRegion(d) == Region(Walls, LeftOf(geom, d))

\* A dart and the name of its ring face one region.
LEMMA NameFaces ==
  ASSUME Net(at, geom, org, next), NEW d \in Darts
  PROVE  /\ LeftOf(geom, d) \in Cells /\ LeftRegion(RingName(d)) = LeftRegion(d)
         /\ OwnWinding(RingName(d)) = OwnWinding(d)
<1>1. PICK k : k = RegionMap(WallsOf(geom))  OBVIOUS
<1>2. Smooth(WallsOf(geom), k)  BY <1>1, RegionSmooth
<1>3. RingName(d) \in Darts /\ RingName(d) \in RingOf(next, d)
      /\ RingOfSteps(geom, next, RingName(d)) = RingOfSteps(geom, next, d)
  BY Named
<1>4. k[LeftOf(geom, RingName(d))] = k[LeftOf(geom, d)]  BY <1>2, <1>3, RingSide DEF Darts
<1>5. LeftOf(geom, d) \in Cells /\ LeftOf(geom, RingName(d)) \in Cells  BY <1>3, LeftIsCell DEF Darts
<1>6. LeftRegion(RingName(d)) = LeftRegion(d)  BY <1>1, <1>4, <1>5, InRegion, WallsAre DEF LeftRegion
<1>7. PICK S : S = RingOfSteps(geom, next, d)  OBVIOUS
<1>8. Smooth(WallsOf(geom), WindingOf(S))  BY <1>7, RingWalls DEF Darts
<1>9. WindingOf(S)[LeftOf(geom, RingName(d))] = WindingOf(S)[LeftOf(geom, d)]
  <2>1. PICK h : h = WindingOf(S)  OBVIOUS
  <2>2. h[LeftOf(geom, RingName(d))] = h[LeftOf(geom, d)]  BY <1>3, <1>8, <2>1, RingSide DEF Darts
  <2>3. QED  BY <2>1, <2>2
<1>10. Winding(S, LeftOf(geom, RingName(d))) = Winding(S, LeftOf(geom, d))  BY <1>5, <1>9 DEF WindingOf
<1>11. QED  BY <1>3, <1>5, <1>6, <1>7, <1>10 DEF OwnWinding

\* Each region that darts face, other than the outer one, has one shell.
LEMMA RegionShell ==
  ASSUME Net(at, geom, org, next), NEW d \in Darts, Outer \notin LeftRegion(d)
  PROVE  \E s \in Shells : LeftRegion(s) = LeftRegion(d) /\ \A t \in Shells : LeftRegion(t) = LeftRegion(d) => t = s
<1>1. PICK c \in Cells : c = LeftOf(geom, d)  BY NameFaces
<1>2. PICK W : W = WallsOf(geom)  OBVIOUS
<1>3. LeftRegion(d) = Region(W, c) /\ Outer \notin Region(W, c) /\ W = Walls
  BY <1>1, <1>2, WallsAre DEF LeftRegion
<1>4. PICK e \in Darts : LeftOf(geom, e) \in Region(W, c)
                         /\ Winding(RingOfSteps(geom, next, e), LeftOf(geom, e)) = 1
  BY <1>2, <1>3, ShellExists DEF Darts
<1>5. \A t \in Darts : LeftOf(geom, t) \in Region(W, c) <=> LeftRegion(t) = LeftRegion(d)
  <2> SUFFICES ASSUME NEW t \in Darts
               PROVE  LeftOf(geom, t) \in Region(W, c) <=> LeftRegion(t) = LeftRegion(d)
    OBVIOUS
  <2>1. LeftOf(geom, t) \in Cells  BY NameFaces
  <2>2. QED  BY <1>3, <2>1, SameRegion DEF LeftRegion
<1>6. PICK s : s = RingName(e)  OBVIOUS
<1>7. s \in Darts /\ RingName(s) = s /\ LeftRegion(s) = LeftRegion(e) /\ s \in Shells
  <2>1. OwnWinding(e) = 1  BY <1>4 DEF OwnWinding
  <2>2. s \in Shells  BY <1>6, <2>1, ShellsAre
  <2>3. s \in Darts /\ RingName(s) = s  BY <2>2, ShellsAre
  <2>4. QED  BY <1>6, <2>2, <2>3, NameFaces
<1>8. LeftRegion(s) = LeftRegion(d)  BY <1>4, <1>5, <1>7
<1>9. ASSUME NEW t \in Shells, LeftRegion(t) = LeftRegion(d)  PROVE t = s
  <2>1. t \in Darts /\ RingName(t) = t /\ OwnWinding(t) = 1  BY ShellsAre
  <2>2. OwnWinding(s) = 1  BY <1>7, ShellsAre
  <2>3. LeftOf(geom, t) \in Region(W, c) /\ LeftOf(geom, s) \in Region(W, c)
    BY <1>5, <1>7, <1>8, <1>9, <2>1
  <2>4. /\ Winding(RingOfSteps(geom, next, t), LeftOf(geom, t)) = 1
        /\ Winding(RingOfSteps(geom, next, s), LeftOf(geom, s)) = 1
    BY <2>1, <2>2 DEF OwnWinding
  <2>5. RingOf(next, t) = RingOf(next, s)
    <3>1. /\ Outer \notin Region(WallsOf(geom), c) /\ t \in DOMAIN next /\ s \in DOMAIN next
          /\ LeftOf(geom, t) \in Region(WallsOf(geom), c) /\ LeftOf(geom, s) \in Region(WallsOf(geom), c)
      BY <1>2, <1>3, <1>7, <2>1, <2>3 DEF Darts
    <3>2. QED  BY <2>4, <3>1, ShellUnique
  <2>6. RingName(t) = RingName(s)  BY <1>7, <2>5, Named
  <2>7. QED  BY <1>7, <2>1, <2>6
<1>10. QED  BY <1>7, <1>8, <1>9

\* A dart whose ring is named otherwise is not in the ring of a shell.
LEMMA ShellApart ==
  ASSUME Net(at, geom, org, next), NEW s \in Shells, NEW r \in Darts, RingName(r) # s
  PROVE  s \in Darts /\ r \notin RingOf(next, s)
<1>1. s \in Darts /\ RingName(s) = s  BY ShellsAre
<1>2. ASSUME r \in RingOf(next, s)  PROVE FALSE
  <2>1. r \in RingOf(next, r)  BY RingFacts DEF Darts
  <2>2. RingOf(next, r) = RingOf(next, s)  BY <1>1, <1>2, <2>1, SameRing DEF Darts
  <2>3. RingName(r) = RingName(s)  BY <1>1, <2>2, Named
  <2>4. QED  BY <1>1, <2>3
<1>3. QED  BY <1>1, <1>2

\* Surrounds tells of a shell whether it is around a ring that is no shell.
LEMMA SurroundsIs ==
  ASSUME Net(at, geom, org, next), NEW s \in Shells, NEW r \in Darts, RingName(r) = r, r \notin Shells
  PROVE  Surrounds(s, r) <=> Winding(RingOfSteps(geom, next, s), LeftOf(geom, r)) = 1
<1>1. s \in Darts /\ OwnWinding(s) = 1  BY ShellsAre
<1>2. OwnWinding(r) = 0  BY ShellsAre
<1>3. r \notin RingOf(next, s)  BY ShellApart
<1>4. PICK S : S = RingOfSteps(geom, next, s)  OBVIOUS
<1>5. PICK T : T = RingOfSteps(geom, next, r)  OBVIOUS
<1>6. Winding(S, LeftOf(geom, s)) = 1 /\ Winding(T, LeftOf(geom, r)) = 0
  BY <1>1, <1>2, <1>4, <1>5 DEF OwnWinding
<1>7. Winding(S, LeftOf(geom, r)) = 1 <=>
        /\ s # -r
        /\ StepsBox(S) # StepsBox(T)
        /\ gbox_contains_2d(StepsBox(S), StepsBox(T))
        /\ Winding(S, geom[EdgeOf(r)][1]) % 2 = 1
  BY <1>1, <1>3, <1>4, <1>5, <1>6, AroundTest DEF Darts
<1>8. EdgeRing(s) = S /\ RingBox(s) = StepsBox(S) /\ RingBox(r) = StepsBox(T)
  BY <1>4, <1>5, RingsOfNet
<1>9. EdgeOf(r) = IF r > 0 THEN r ELSE -r  BY DEF EdgeOf
<1>10. Surrounds(s, r) <=>
        /\ s # -r
        /\ StepsBox(S) # StepsBox(T)
        /\ gbox_contains_2d(StepsBox(S), StepsBox(T))
        /\ Winding(S, geom[EdgeOf(r)][1]) % 2 = 1
  BY <1>8, <1>9 DEF Surrounds, _lwt_EdgeRingContainsPoint
<1>11. QED  BY <1>4, <1>7, <1>10

\* A ring winds alike around the cells of a region, and not around the outer one.
LEMMA WindsRegion ==
  ASSUME Net(at, geom, org, next), NEW s \in Darts, NEW r \in Darts
  PROVE  /\ \A t \in Darts : LeftRegion(t) = LeftRegion(r) =>
              Winding(RingOfSteps(geom, next, s), LeftOf(geom, t))
                = Winding(RingOfSteps(geom, next, s), LeftOf(geom, r))
         /\ Outer \in LeftRegion(r) => Winding(RingOfSteps(geom, next, s), LeftOf(geom, r)) = 0
<1>1. PICK S : S = RingOfSteps(geom, next, s)  OBVIOUS
<1>2. PICK k : k = WindingOf(S)  OBVIOUS
<1>3. Smooth(WallsOf(geom), k) /\ k[Outer] = 0
      /\ \A x \in Darts : k[LeftOf(geom, x)] = Winding(S, LeftOf(geom, x))
  BY <1>1, <1>2, RingWalls DEF Darts
<1>4. PICK c \in Cells : c = LeftOf(geom, r)  BY NameFaces
<1>5. LeftRegion(r) = Region(WallsOf(geom), c)  BY <1>4, WallsAre DEF LeftRegion
<1>6. ASSUME NEW e \in Region(WallsOf(geom), c)  PROVE k[e] = k[c]
  <2>1. e \in Cells  BY DEF Region
  <2>2. QED  BY <1>3, <1>6, <2>1, InRegion
<1>7. ASSUME NEW t \in Darts, LeftRegion(t) = LeftRegion(r)
      PROVE  Winding(S, LeftOf(geom, t)) = Winding(S, LeftOf(geom, r))
  <2>1. LeftOf(geom, t) \in Cells  BY NameFaces
  <2>2. LeftOf(geom, t) \in LeftRegion(t)  BY <2>1, EnclosedRegion DEF LeftRegion
  <2>3. k[LeftOf(geom, t)] = k[c]  BY <1>5, <1>6, <1>7, <2>2
  <2>4. QED  BY <1>3, <1>4, <2>3
<1>8. ASSUME Outer \in LeftRegion(r)  PROVE Winding(S, LeftOf(geom, r)) = 0
  <2>1. k[Outer] = k[c]  BY <1>5, <1>6, <1>8
  <2>2. QED  BY <1>3, <1>4, <2>1
<1>9. QED  BY <1>1, <1>7, <1>8

-----------------------------------------------------------------------------
(* What lwt_Polygonize finds is what the plane has. *)

\* The sequences of shells: each is at one index.
LEMMA ShellSequence ==
  ASSUME Net(at, geom, org, next), NEW shells \in SetToSeqs(Shells)
  PROVE  \E n \in Nat : /\ DOMAIN shells = 1 .. n
                        /\ \A i \in 1 .. n : shells[i] \in Shells
                        /\ \A s \in Shells : \E i \in 1 .. n : shells[i] = s
                        /\ \A i \in 1 .. n : \A j \in 1 .. n : shells[i] = shells[j] => i = j
<1>1. Shells \subseteq Darts  BY ShellsAre
<1>2. IsFiniteSet(Shells)  BY <1>1, DartsFinite, FS_Subset DEF Darts
<1>3. PICK n \in Nat : n = Cardinality(Shells)  BY <1>2, FS_CardinalityType
<1>4. PICK I : I = 1 .. n  OBVIOUS
<1>5. shells \in [I -> Shells] /\ \A i, j \in I : i # j => shells[i] # shells[j]
  BY <1>3, <1>4 DEF SetToSeqs
<1>6. IsFiniteSet(I) /\ Cardinality(I) = n
  <2>1. 1 \in Int /\ n \in Int  OBVIOUS
  <2>2. IsFiniteSet(1 .. n) /\ Cardinality(1 .. n) = IF 1 > n THEN 0 ELSE n - 1 + 1  BY <2>1, FS_Interval
  <2>3. (IF 1 > n THEN 0 ELSE n - 1 + 1) = n  OBVIOUS
  <2>4. QED  BY <1>4, <2>2, <2>3
<1>7. shells \in Injection(I, Shells)  BY <1>5 DEF Injection, IsInjective
<1>8. shells \in Surjection(I, Shells)  BY <1>2, <1>3, <1>6, <1>7, FS_Injection
<1>9. \A s \in Shells : \E i \in I : shells[i] = s  BY <1>8 DEF Surjection
<1>10. QED  BY <1>4, <1>5, <1>9

\* The universe is no shell.
LEMMA NoShell ==
  ASSUME Net(at, geom, org, next)
  PROVE  Universe \notin Shells
<1>1. \A d \in Darts : d # 0  BY NetFacts DEF Darts
<1>2. QED  BY <1>1, ShellsAre DEF Universe

\* A ring that is no shell gets the shell of the region that it faces, or the
\* universe.
LEMMA HoleFound ==
  ASSUME Net(at, geom, org, next), NEW shells \in SetToSeqs(Shells),
         NEW r \in Darts, RingName(r) = r, r \notin Shells
  PROVE  /\ Outer \in LeftRegion(r) => _lwt_FindFaceContainingRing(shells, r) = Universe
         /\ \A s \in Shells : /\ LeftRegion(s) = LeftRegion(r) /\ Outer \notin LeftRegion(r)
                              => _lwt_FindFaceContainingRing(shells, r) = s
<1>1. PICK n \in Nat : /\ DOMAIN shells = 1 .. n
                       /\ \A i \in 1 .. n : shells[i] \in Shells
                       /\ \A s \in Shells : \E i \in 1 .. n : shells[i] = s
                       /\ \A i \in 1 .. n : \A j \in 1 .. n : shells[i] = shells[j] => i = j
  BY ShellSequence
<1>2. \A s \in Shells : Surrounds(s, r) <=> Winding(RingOfSteps(geom, next, s), LeftOf(geom, r)) = 1
  BY SurroundsIs
<1>3. ASSUME Outer \in LeftRegion(r)  PROVE _lwt_FindFaceContainingRing(shells, r) = Universe
  <2>1. ASSUME NEW s \in Shells  PROVE ~Surrounds(s, r)
    <3>1. s \in Darts  BY ShellsAre
    <3>2. Winding(RingOfSteps(geom, next, s), LeftOf(geom, r)) = 0  BY <1>3, <3>1, WindsRegion
    <3>3. QED  BY <1>2, <3>2
  <2>2. \A i \in 1 .. n : ~Surrounds(shells[i], r)  BY <1>1, <2>1
  <2>3. QED  BY <1>1, <2>2, FindsClosest
<1>4. ASSUME NEW s \in Shells, LeftRegion(s) = LeftRegion(r)
      PROVE  _lwt_FindFaceContainingRing(shells, r) = s
  <2>1. PICK m \in 1 .. n : shells[m] = s  BY <1>1
  <2>2. s \in Darts /\ RingName(s) = s /\ OwnWinding(s) = 1  BY ShellsAre
  <2>3. Surrounds(shells[m], r)
    <3>1. Winding(RingOfSteps(geom, next, s), LeftOf(geom, s))
            = Winding(RingOfSteps(geom, next, s), LeftOf(geom, r))
      BY <1>4, <2>2, WindsRegion
    <3>2. QED  BY <1>2, <2>1, <2>2, <3>1 DEF OwnWinding
  <2>4. \A i \in 1 .. n : shells[i] # Universe  BY <1>1, NoShell
  <2>5. ASSUME NEW t \in Shells, t # s, Surrounds(t, r)
        PROVE  gbox_contains_2d(RingBox(t), RingBox(s)) /\ ~gbox_contains_2d(RingBox(s), RingBox(t))
    <3>1. t \in Darts /\ OwnWinding(t) = 1  BY ShellsAre
    <3>2. s \notin RingOf(next, t)  BY <2>2, <2>5, ShellApart
    <3>3. PICK T : T = RingOfSteps(geom, next, t)  OBVIOUS
    <3>4. PICK S : S = RingOfSteps(geom, next, s)  OBVIOUS
    <3>5. Winding(T, LeftOf(geom, s)) = Winding(T, LeftOf(geom, r))
      BY <1>4, <2>2, <3>1, <3>3, WindsRegion
    <3>6. Winding(T, LeftOf(geom, r)) = 1 /\ Winding(T, LeftOf(geom, t)) = 1
      BY <1>2, <2>5, <3>1, <3>3 DEF OwnWinding
    <3>7. s \in Beyond(geom, next, t)  BY <2>2, <3>2, <3>3, <3>5, <3>6 DEF Beyond, Darts
    <3>8. gbox_contains_2d(StepsBox(T), StepsBox(S)) /\ StepsBox(T) # StepsBox(S)
      BY <3>1, <3>3, <3>4, <3>6, <3>7, ShellAround DEF Darts
    <3>9. S \in SUBSET UnitSteps /\ S # {}  BY <2>2, <3>4, RingWalls, RingSome DEF Darts
    <3>10. T \in SUBSET UnitSteps /\ T # {}  BY <3>1, <3>3, RingWalls, RingSome DEF Darts
    <3>11. ~gbox_contains_2d(StepsBox(S), StepsBox(T))
      <4>1. ASSUME gbox_contains_2d(StepsBox(S), StepsBox(T))  PROVE FALSE
        <5>1. StepsBox(S) = StepsBox(T)  BY <3>8, <3>9, <3>10, <4>1, MutualBoxes
        <5>2. QED  BY <3>8, <5>1
      <4>2. QED  BY <4>1
    <3>12. RingBox(t) = StepsBox(T) /\ RingBox(s) = StepsBox(S)  BY <3>3, <3>4, RingsOfNet
    <3>13. QED  BY <3>8, <3>11, <3>12
  <2>6. \A i \in (1 .. n) \ {m} : Surrounds(shells[i], r) =>
          /\ gbox_contains_2d(RingBox(shells[i]), RingBox(shells[m]))
          /\ ~gbox_contains_2d(RingBox(shells[m]), RingBox(shells[i]))
    <3> SUFFICES ASSUME NEW i \in 1 .. n \ {m}, Surrounds(shells[i], r)
                 PROVE  /\ gbox_contains_2d(RingBox(shells[i]), RingBox(shells[m]))
                        /\ ~gbox_contains_2d(RingBox(shells[m]), RingBox(shells[i]))
      OBVIOUS
    <3>1. i \in 1 .. n /\ i # m  OBVIOUS
    <3>2. shells[i] \in Shells /\ shells[i] # s  BY <1>1, <2>1, <3>1
    <3>3. QED  BY <2>1, <2>5, <3>2
  <2>7. _lwt_FindFaceContainingRing(shells, r) = shells[m]
    BY <1>1, <2>3, <2>4, <2>6, FindsClosest
  <2>8. QED  BY <2>1, <2>7
<1>5. QED  BY <1>3, <1>4

\* The face of a side is the shell of the region that it faces, or the universe.
LEMMA SideFound ==
  ASSUME Net(at, geom, org, next), NEW shells \in SetToSeqs(Shells), NEW d \in Darts,
         NEW f, f = lwt_Polygonize(shells).side[d]
  PROVE  /\ Outer \in LeftRegion(d) => f = Universe
         /\ Outer \notin LeftRegion(d) => f \in Shells /\ LeftRegion(f) = LeftRegion(d)
<1>1. PICK r : r = RingName(d)  OBVIOUS
<1>2. f = IF r \in Shells THEN r ELSE _lwt_FindFaceContainingRing(shells, r)
  BY <1>1 DEF lwt_Polygonize
<1>3. r \in Darts /\ RingName(r) = r
  <2>1. /\ RingName(d) \in Darts /\ RingOf(next, RingName(d)) = RingOf(next, d)
        /\ \A e : RingOf(next, e) = RingOf(next, d) => RingName(e) = RingName(d)
    BY Named
  <2>2. QED  BY <1>1, <2>1
<1>4. LeftRegion(r) = LeftRegion(d)  BY <1>1, NameFaces
<1>5. CASE r \in Shells
  <2>1. OwnWinding(r) = 1  BY <1>5, ShellsAre
  <2>2. Outer \notin LeftRegion(r)
    <3>1. ASSUME Outer \in LeftRegion(r)  PROVE FALSE
      <4>1. Winding(RingOfSteps(geom, next, r), LeftOf(geom, r)) = 0  BY <1>3, <3>1, WindsRegion
      <4>2. QED  BY <2>1, <4>1 DEF OwnWinding
    <3>2. QED  BY <3>1
  <2>3. QED  BY <1>2, <1>4, <1>5, <2>2
<1>6. CASE r \notin Shells
  <2>1. f = _lwt_FindFaceContainingRing(shells, r)  BY <1>2, <1>6
  <2>2. CASE Outer \in LeftRegion(d)
    <3>1. _lwt_FindFaceContainingRing(shells, r) = Universe  BY <1>3, <1>4, <1>6, <2>2, HoleFound
    <3>2. QED  BY <2>1, <2>2, <3>1
  <2>3. CASE Outer \notin LeftRegion(d)
    <3>1. PICK s \in Shells : LeftRegion(s) = LeftRegion(d)  BY <2>3, RegionShell
    <3>2. _lwt_FindFaceContainingRing(shells, r) = s  BY <1>3, <1>4, <1>6, <2>3, <3>1, HoleFound
    <3>3. QED  BY <2>1, <2>3, <3>1, <3>2
  <2>4. QED  BY <2>2, <2>3
<1>7. QED  BY <1>5, <1>6

\* The box of a shell is that of its region.
LEMMA ShellBox ==
  ASSUME Net(at, geom, org, next), NEW s \in Shells, Outer \notin LeftRegion(s)
  PROVE  RingBox(s) = RegionBox(LeftRegion(s))
<1>1. s \in Darts /\ OwnWinding(s) = 1  BY ShellsAre
<1>2. PICK S : S = RingOfSteps(geom, next, s)  OBVIOUS
<1>3. PICK c \in Cells : c = LeftOf(geom, s)  BY <1>1, NameFaces
<1>4. PICK P : P = LeftRegion(s)  OBVIOUS
<1>5. P = Region(WallsOf(geom), c)  BY <1>3, <1>4, WallsAre DEF LeftRegion
<1>6. Balanced(S) /\ Smooth(WallsOf(geom), WindingOf(S))  BY <1>1, <1>2, RingWalls DEF Darts
<1>7. P \in SUBSET Cells /\ c \in P /\ Outer \notin P
  <2>1. c \in P  BY <1>5, EnclosedRegion
  <2>2. P \in SUBSET Cells  BY <1>5 DEF Region
  <2>3. QED  BY <1>4, <2>1, <2>2
<1>8. ASSUME NEW t \in S  PROVE LeftCell(t) \in P
  <2>1. PICK k : k = RegionMap(WallsOf(geom))  OBVIOUS
  <2>2. Smooth(WallsOf(geom), k)  BY <2>1, RegionSmooth
  <2>3. k[LeftCell(t)] = k[c] /\ LeftCell(t) \in Cells  BY <1>1, <1>2, <1>3, <2>2, RingRegion DEF Darts
  <2>4. QED  BY <1>5, <2>1, <2>3, InRegion
<1>9. ASSUME NEW e \in P  PROVE Winding(S, e) # 0
  <2>1. PICK k : k = WindingOf(S)  OBVIOUS
  <2>2. e \in Cells /\ e \in Region(WallsOf(geom), c)  BY <1>5, <1>7
  <2>3. k[e] = k[c]  BY <1>6, <2>1, <2>2, InRegion
  <2>4. Winding(S, e) = Winding(S, c)  BY <2>1, <2>2, <2>3 DEF WindingOf
  <2>5. QED  BY <1>1, <1>2, <1>3, <2>4 DEF OwnWinding
<1>10. RegionBox(P) = StepsBox(S)  BY <1>6, <1>7, <1>8, <1>9, PartBox
<1>11. RingBox(s) = StepsBox(S)  BY <1>2, RingsOfNet
<1>12. QED  BY <1>4, <1>10, <1>11

\* The regions that the property names.
LEMMA FacedRegion ==
  ASSUME Net(at, geom, org, next)
  PROVE  /\ \A c \in Cells : (CHOOSE r \in Regions(Walls) : c \in r) = Region(Walls, c)
         /\ \A d \in Darts : LET c == LeftCell(CHOOSE s \in Steps(Path(geom, d)) : TRUE)
                             IN  c \in Cells /\ Region(Walls, c) = LeftRegion(d)
<1>1. Regions(Walls) = {Region(Walls, c) : c \in Cells}  BY RegionsAre
<1>2. ASSUME NEW c \in Cells
      PROVE  (CHOOSE r \in Regions(Walls) : c \in r) = Region(Walls, c)
  <2>1. c \in Region(Walls, c)  BY EnclosedRegion
  <2>2. ASSUME NEW r \in Regions(Walls), c \in r  PROVE r = Region(Walls, c)
    <3>1. PICK e \in Cells : r = Region(Walls, e)  BY <1>1, <2>2
    <3>2. QED  BY <2>2, <3>1, SameRegion
  <2>3. Region(Walls, c) \in Regions(Walls)  BY <1>1
  <2>4. QED  BY <2>1, <2>2, <2>3
<1>3. ASSUME NEW d \in Darts, NEW c, c = LeftCell(CHOOSE s \in Steps(Path(geom, d)) : TRUE)
      PROVE  c \in Cells /\ Region(Walls, c) = LeftRegion(d)
  <2>1. PICK s : s = CHOOSE t \in Steps(Path(geom, d)) : TRUE  OBVIOUS
  <2>2. LeftOf(geom, d) \in Cells /\ <<Path(geom, d)[1], Path(geom, d)[2]>> \in Steps(Path(geom, d))
        /\ \A t \in Steps(Path(geom, d)) : LeftCell(t) \in Cells
    BY LeftIsCell DEF Darts
  <2>3. s \in Steps(Path(geom, d))  BY <2>1, <2>2
  <2>4. PICK k : k = RegionMap(WallsOf(geom))  OBVIOUS
  <2>5. Smooth(WallsOf(geom), k)  BY <2>4, RegionSmooth
  <2>6. k[LeftCell(s)] = k[LeftOf(geom, d)]  BY <2>3, <2>5, Sides DEF Darts
  <2>7. c = LeftCell(s) /\ c \in Cells  BY <1>3, <2>1, <2>2, <2>3
  <2>8. Region(WallsOf(geom), c) = Region(WallsOf(geom), LeftOf(geom, d))
    BY <2>2, <2>4, <2>6, <2>7, InRegion
  <2>9. QED  BY <2>7, <2>8, WallsAre DEF LeftRegion
<1>4. QED  BY <1>2, <1>3

\* A face that a side has, or the universe, with the region that has it.
Fits(a) ==
  \/ a[1] = Universe /\ a[2] = Region(Walls, Outer)
  \/ a[1] \in Shells /\ a[2] = LeftRegion(a[1]) /\ Outer \notin LeftRegion(a[1])

\* Those name faces as regions are.
LEMMA FitsAgree ==
  ASSUME Net(at, geom, org, next), NEW a, Fits(a), NEW b, Fits(b)
  PROVE  /\ a[1] = b[1] <=> a[2] = b[2]
         /\ a[1] # Universe => a[1] \in Shells /\ RingBox(a[1]) = RegionBox(a[2])
<1>1. Universe \notin Shells  BY NoShell
<1>2. Outer \in Region(Walls, Outer)
  <2>1. Outer \in Cells  BY DEF Cells
  <2>2. QED  BY <2>1, EnclosedRegion
<1>3. a[1] = b[1] => a[2] = b[2]  BY <1>1 DEF Fits
<1>4. ASSUME a[2] = b[2]  PROVE a[1] = b[1]
  <2>1. CASE a[1] = Universe \/ b[1] = Universe  BY <1>1, <1>2, <1>4, <2>1 DEF Fits
  <2>2. CASE a[1] # Universe /\ b[1] # Universe
    <3>1. PICK s \in Shells : s = a[1] /\ a[2] = LeftRegion(s) /\ Outer \notin LeftRegion(s)
      BY <2>2 DEF Fits
    <3>2. PICK t \in Shells : t = b[1] /\ b[2] = LeftRegion(t)
      BY <2>2 DEF Fits
    <3>3. s \in Darts  BY ShellsAre
    <3>4. PICK r \in Shells : \A q \in Shells : LeftRegion(q) = LeftRegion(s) => q = r
      BY <3>1, <3>3, RegionShell
    <3>5. LeftRegion(t) = LeftRegion(s)  BY <1>4, <3>1, <3>2
    <3>6. QED  BY <3>1, <3>2, <3>4, <3>5
  <2>3. QED  BY <2>1, <2>2
<1>5. ASSUME a[1] # Universe  PROVE a[1] \in Shells /\ RingBox(a[1]) = RegionBox(a[2])
  <2>1. PICK s \in Shells : s = a[1] /\ a[2] = LeftRegion(s) /\ Outer \notin LeftRegion(s)
    BY <1>5 DEF Fits
  <2>2. RingBox(s) = RegionBox(LeftRegion(s))  BY <2>1, ShellBox
  <2>3. QED  BY <2>1, <2>2
<1>6. QED  BY <1>3, <1>4, <1>5

\* It holds in each state where the edges meet at nodes.
LEMMA PolygonizeHolds ==
  ASSUME TopoInv, Planar
  PROVE  PolygonizeExact
<1> DEFINE region(c) == CHOOSE r \in Regions(Walls) : c \in r
           facing == [d \in Darts |-> region(LeftCell(CHOOSE s \in Steps(Path(geom, d)) : TRUE))]
           claims(shells) == {<<lwt_Polygonize(shells).side[d], facing[d]>> : d \in Darts}
                               \cup {<<Universe, region(Outer)>>}
<1>1. Net(at, geom, org, next)  BY NetHolds
<1>2. Outer \in Cells  BY DEF Cells
<1>3. region(Outer) = Region(Walls, Outer)  BY <1>1, <1>2, FacedRegion
<1>4. ASSUME NEW d \in Darts  PROVE facing[d] = LeftRegion(d)
  <2>1. PICK c : c = LeftCell(CHOOSE s \in Steps(Path(geom, d)) : TRUE)  OBVIOUS
  <2>2. facing[d] = region(c)  BY <2>1
  <2>3. c \in Cells /\ Region(Walls, c) = LeftRegion(d)  BY <1>1, <2>1, FacedRegion
  <2>4. region(c) = Region(Walls, c)  BY <1>1, <2>3, FacedRegion
  <2> HIDE DEF region, facing
  <2>5. QED  BY <2>2, <2>3, <2>4
<1> HIDE DEF region, facing
<1>5. ASSUME NEW shells \in SetToSeqs(Shells), NEW a \in claims(shells)
      PROVE  Fits(a)
  <2>1. CASE a = <<Universe, region(Outer)>>  BY <1>3, <2>1 DEF Fits
  <2>2. ASSUME NEW d \in Darts, a = <<lwt_Polygonize(shells).side[d], facing[d]>>
        PROVE  Fits(a)
    <3>1. PICK f : f = lwt_Polygonize(shells).side[d]  OBVIOUS
    <3>2. /\ Outer \in LeftRegion(d) => f = Universe
          /\ Outer \notin LeftRegion(d) => f \in Shells /\ LeftRegion(f) = LeftRegion(d)
      BY <1>1, <3>1, SideFound
    <3>3. a[1] = f /\ a[2] = LeftRegion(d)  BY <1>4, <2>2, <3>1
    <3>4. CASE Outer \in LeftRegion(d)
      <4>1. LeftOf(geom, d) \in Cells  BY <1>1, NameFaces
      <4>2. LeftRegion(d) = Region(Walls, Outer)  BY <1>2, <3>4, <4>1, SameRegion DEF LeftRegion
      <4>3. QED  BY <3>2, <3>3, <3>4, <4>2 DEF Fits
    <3>5. CASE Outer \notin LeftRegion(d)  BY <3>2, <3>3, <3>5 DEF Fits
    <3>6. QED  BY <3>4, <3>5
  <2>3. QED  BY <2>1, <2>2
<1>6. ASSUME NEW shells \in SetToSeqs(Shells)
      PROVE  /\ \A a, b \in claims(shells) : a[1] = b[1] <=> a[2] = b[2]
             /\ \A a \in claims(shells) :
                  a[1] # Universe => lwt_Polygonize(shells).face[a[1]] = RegionBox(a[2])
  <2> HIDE DEF claims
  <2>1. \A a, b \in claims(shells) : a[1] = b[1] <=> a[2] = b[2]  BY <1>1, <1>5, FitsAgree
  <2>2. ASSUME NEW a \in claims(shells), a[1] # Universe
        PROVE  lwt_Polygonize(shells).face[a[1]] = RegionBox(a[2])
    <3>1. Fits(a)  BY <1>5
    <3>2. a[1] \in Shells /\ RingBox(a[1]) = RegionBox(a[2])  BY <1>1, <2>2, <3>1, FitsAgree
    <3>3. lwt_Polygonize(shells).face = [r \in Shells |-> RingBox(r)]  BY DEF lwt_Polygonize
    <3>4. QED  BY <3>2, <3>3
  <2>3. QED  BY <2>1, <2>2
<1>7. QED  BY <1>6 DEF PolygonizeExact, region, facing

\* Building all faces at once finds just those of the plane: after any sequence of
\* calls two sides get the same face from lwt_Polygonize just if one region is on
\* both, whatever the order of the shells in the tree of their boxes.
THEOREM PolygonizeAlwaysExact ==
  ASSUME AnySplit = FALSE
  PROVE  Spec => []PolygonizeExact
<1>1. Init => TopoInv /\ Planar  BY Start, PlanarStart
<1>2. TopoInv /\ Planar /\ [Next]_vars => TopoInv' /\ Planar'  BY Inductive, PlanarInductive
<1>3. TopoInv /\ Planar => PolygonizeExact  BY PolygonizeHolds
<1>4. QED  BY <1>1, <1>2, <1>3, PTL DEF Spec
=============================================================================
