--------------------------- MODULE TopologyProofs ---------------------------
(***************************************************************************)
(* A topology with all its tables: its edges are linked as TopoLinks says, *)
(* its lines overlap nowhere, it knows which of its nodes are isolated,    *)
(* and TopoGeometries keep their points and lines, for any grid, lines and *)
(* sites and whatever functions are called.                                *)
(*                                                                         *)
(* The invariant, TopoInv, joins LinkInv of TopoLinksProofs to what the    *)
(* tables say: lines run between the nodes that their darts leave, no unit *)
(* step of the grid is taken twice, and a node has a containing face just  *)
(* if no dart leaves it.  LinkInv alone would not do: that no two edges    *)
(* leave a node at the same azimuth, which the links rest on, comes from   *)
(* the lines, and that a line may be healed or split without overlapping   *)
(* another comes from all of them.                                         *)
(*                                                                         *)
(* That sides are the right faces rests on the topology of the plane: see  *)
(* PlaneProofs, FaceProofs and FindProofs.                                 *)
(***************************************************************************)
EXTENDS Topology, SequenceTheorems, FiniteSetTheorems, TLAPS

LP == INSTANCE TopoLinksProofs WITH nodes <- DOMAIN at, Directions <- 8

-----------------------------------------------------------------------------
(* Numbers and directions. *)

LEMMA LeastOf ==
  ASSUME NEW S \in SUBSET Nat, S # {}
  PROVE  Min(S) \in S /\ \A i \in S : Min(S) <= i
<1>1. LP!LinksAssumption  BY TopologyAssumption DEF LP!LinksAssumption
<1>2. \E x \in S : \A y \in S : x <= y  BY <1>1, LP!LeastNat
<1>3. QED  BY <1>2, Zenon DEF Min

LEMMA SignOf ==
  ASSUME NEW i \in Int
  PROVE  /\ Sign(i) \in {-1, 0, 1}
         /\ Sign(i) = 0 <=> i = 0
         /\ i \in {-1, 0, 1} => Sign(i) = i
  BY DEF Sign

\* The direction from one point to another.
Toward(p, q) == <<Sign(q[1] - p[1]), Sign(q[2] - p[2])>>

LEMMA InCompass ==
  ASSUME NEW s \in {-1, 0, 1}, NEW t \in {-1, 0, 1}, s # 0 \/ t # 0
  PROVE  \E i \in 1 .. 8 : Compass[i] = <<s, t>>
<1>1. Compass[1] = <<0, 1>> /\ Compass[2] = <<1, 1>> /\ Compass[3] = <<1, 0>>
      /\ Compass[4] = <<1, -1>> /\ Compass[5] = <<0, -1>> /\ Compass[6] = <<-1, -1>>
      /\ Compass[7] = <<-1, 0>> /\ Compass[8] = <<-1, 1>>
  BY DEF Compass
<1>2. {1, 2, 3, 4, 5, 6, 7, 8} \subseteq 1 .. 8  OBVIOUS
<1>3. CASE s = 0   BY <1>1, <1>2, <1>3
<1>4. CASE s = 1   BY <1>1, <1>2, <1>4
<1>5. CASE s = -1  BY <1>1, <1>2, <1>5
<1>6. QED  BY <1>3, <1>4, <1>5

LEMMA Azimuth ==
  ASSUME NEW p \in Int \X Int, NEW q \in Int \X Int, p # q
  PROVE  /\ azimuth_pt_pt(p, q) \in 0 .. 7
         /\ Compass[azimuth_pt_pt(p, q) + 1] = Toward(p, q)
<1> DEFINE Points(i) == Compass[i] = Toward(p, q)
           c == CHOOSE i \in 1 .. 8 : Points(i)
<1>1. q[1] - p[1] # 0 \/ q[2] - p[2] # 0  OBVIOUS
<1>2. \E i \in 1 .. 8 : Points(i)
  BY <1>1, SignOf, InCompass DEF Toward
<1>3. azimuth_pt_pt(p, q) = c - 1  BY DEF azimuth_pt_pt, Toward
<1>4. c \in 1 .. 8 /\ Points(c)
  <2> HIDE DEF Points
  <2> QED  BY <1>2
<1>5. \A i \in 1 .. 8 : i - 1 \in 0 .. 7 /\ (i - 1) + 1 = i  OBVIOUS
<1>6. QED
  <2>1. c \in 1 .. 8 /\ Compass[c] = Toward(p, q)  BY <1>4
  <2> HIDE DEF c
  <2>2. c - 1 \in 0 .. 7 /\ (c - 1) + 1 = c  BY <1>5, <2>1
  <2>3. QED  BY <1>3, <2>1, <2>2

Adjacent(p, q) == <<p, q>> \in GridSteps \/ <<q, p>> \in GridSteps

\* One coordinate of two adjacent points is the same, the other differs by 1.
LEMMA AdjacentPoints ==
  ASSUME NEW p \in Vertices, NEW q \in Vertices, Adjacent(p, q)
  PROVE  /\ p \in Int \X Int /\ q \in Int \X Int /\ p # q
         /\ q[1] - p[1] \in {-1, 0, 1} /\ q[2] - p[2] \in {-1, 0, 1}
<1>1. Width \in Nat /\ Height \in Nat  BY GridAssumption
<1>2. p \in Int \X Int /\ q \in Int \X Int  BY <1>1 DEF Vertices
<1>3. ASSUME NEW a \in Int \X Int, NEW b \in Int \X Int, <<a, b>> \in GridSteps
      PROVE  \/ b[1] = a[1] + 1 /\ b[2] = a[2]
             \/ b[1] = a[1] /\ b[2] = a[2] + 1
  <2>1. CASE \E x \in 0 .. Width - 1, y \in 0 .. Height : <<a, b>> = <<<<x, y>>, <<x + 1, y>>>>
    BY <2>1
  <2>2. CASE \E x \in 0 .. Width, y \in 0 .. Height - 1 : <<a, b>> = <<<<x, y>>, <<x, y + 1>>>>
    BY <2>2
  <2>3. QED  BY <1>3, <2>1, <2>2 DEF GridSteps
<1>4. CASE <<p, q>> \in GridSteps  BY <1>2, <1>3, <1>4
<1>5. CASE <<q, p>> \in GridSteps  BY <1>2, <1>3, <1>5
<1>6. QED  BY <1>4, <1>5 DEF Adjacent

\* The azimuth tells the neighbours of a point apart.
LEMMA StepAzimuth ==
  ASSUME NEW p \in Vertices, NEW q \in Vertices, NEW r \in Vertices,
         Adjacent(p, q), Adjacent(p, r)
  PROVE  /\ azimuth_pt_pt(p, q) \in 0 .. 7
         /\ azimuth_pt_pt(p, q) = azimuth_pt_pt(p, r) => q = r
<1>1. /\ p \in Int \X Int /\ q \in Int \X Int /\ r \in Int \X Int /\ p # q /\ p # r
      /\ q[1] - p[1] \in {-1, 0, 1} /\ q[2] - p[2] \in {-1, 0, 1}
      /\ r[1] - p[1] \in {-1, 0, 1} /\ r[2] - p[2] \in {-1, 0, 1}
  BY AdjacentPoints
<1>2. azimuth_pt_pt(p, q) \in 0 .. 7  BY <1>1, Azimuth
<1>3. ASSUME azimuth_pt_pt(p, q) = azimuth_pt_pt(p, r)  PROVE q = r
  <2>1. Toward(p, q) = Toward(p, r)  BY <1>1, <1>3, Azimuth
  <2>2. Toward(p, q) = <<q[1] - p[1], q[2] - p[2]>>  BY <1>1, SignOf DEF Toward
  <2>3. Toward(p, r) = <<r[1] - p[1], r[2] - p[2]>>  BY <1>1, SignOf DEF Toward
  <2> DEFINE a == q[1] - p[1]  b == q[2] - p[2]  c == r[1] - p[1]  d == r[2] - p[2]
  <2>4. a = c /\ b = d
    <3>1. <<a, b>> = <<c, d>>  BY <2>1, <2>2, <2>3
    <3> HIDE DEF a, b, c, d
    <3>2. QED  BY <3>1
  <2>5. q[1] = r[1] /\ q[2] = r[2]  BY <1>1, <2>4
  <2>6. QED  BY <1>1, <2>5
<1>4. QED  BY <1>2, <1>3

-----------------------------------------------------------------------------
(* Lines. *)

IsLine(g) ==
  /\ g \in Seq(Vertices)
  /\ Len(g) > 1
  /\ \A i \in 1 .. Len(g) - 1 : Adjacent(g[i], g[i + 1])

LEMMA LinesAreLines == \A g \in Lines : IsLine(g)
  BY TopologyAssumption DEF IsLine, Adjacent

LEMMA AdjacentSymmetric ==
  ASSUME NEW p, NEW q, Adjacent(p, q)
  PROVE  Adjacent(q, p)
  BY DEF Adjacent

LEMMA LineFacts ==
  ASSUME NEW g, IsLine(g)
  PROVE  /\ Len(g) \in Nat /\ Len(g) > 1 /\ Len(g) - 1 \in Nat
         /\ g \in [1 .. Len(g) -> Vertices]
         /\ \A i \in 1 .. Len(g) : g[i] \in Vertices
         /\ Last(g) = g[Len(g)]
         /\ g[1] \in Vertices /\ g[2] \in Vertices /\ Last(g) \in Vertices
         /\ g[Len(g) - 1] \in Vertices
         /\ Adjacent(g[1], g[2]) /\ Adjacent(Last(g), g[Len(g) - 1])
<1>1. g \in Seq(Vertices) /\ Len(g) > 1  BY DEF IsLine
<1>2. Len(g) \in Nat /\ g \in [1 .. Len(g) -> Vertices]  BY <1>1, LenProperties
<1>3. Last(g) = g[Len(g)]  BY DEF Last
<1>4. 1 \in 1 .. Len(g) /\ 2 \in 1 .. Len(g) /\ Len(g) \in 1 .. Len(g)
      /\ Len(g) - 1 \in 1 .. Len(g) /\ 1 \in 1 .. Len(g) - 1 /\ Len(g) - 1 \in 1 .. Len(g) - 1
      /\ (Len(g) - 1) + 1 = Len(g)
  BY <1>1, <1>2
<1>5. Adjacent(g[1], g[1 + 1]) /\ Adjacent(g[Len(g) - 1], g[(Len(g) - 1) + 1])
  BY <1>4 DEF IsLine
<1>6. Adjacent(g[1], g[2]) /\ Adjacent(Last(g), g[Len(g) - 1])
  BY <1>3, <1>4, <1>5, AdjacentSymmetric
<1>7. QED  BY <1>1, <1>2, <1>3, <1>4, <1>6

\* A function is a line if it has the steps of one.
LEMMA LineIntro ==
  ASSUME NEW n \in Nat, n > 1, NEW g \in [1 .. n -> Vertices],
         \A i \in 1 .. n - 1 : Adjacent(g[i], g[i + 1])
  PROVE  IsLine(g) /\ Len(g) = n
<1>1. g \in Seq(Vertices) /\ Len(g) = n
  <2>1. g \in UNION {[1 .. k -> Vertices] : k \in Nat}  OBVIOUS
  <2>2. g \in Seq(Vertices)  BY <2>1, SeqDef
  <2>3. DOMAIN g = 1 .. Len(g) /\ Len(g) \in Nat  BY <2>2, LenProperties
  <2>4. DOMAIN g = 1 .. n  OBVIOUS
  <2>5. Len(g) = n
    <3>1. \A m \in Nat : 1 .. m = 1 .. n => m = n
      <4> TAKE m \in Nat
      <4> HAVE 1 .. m = 1 .. n
      <4>1. n \in 1 .. m  OBVIOUS
      <4>2. m \in 1 .. m  BY <4>1
      <4>3. QED  BY <4>1, <4>2
    <3>2. QED  BY <2>3, <2>4, <3>1
  <2>6. QED  BY <2>2, <2>5
<1>2. QED  BY <1>1 DEF IsLine

LEMMA ReverseLine ==
  ASSUME NEW g, IsLine(g)
  PROVE  /\ IsLine(Reverse(g)) /\ Len(Reverse(g)) = Len(g)
         /\ \A i \in 1 .. Len(g) : Reverse(g)[i] = g[Len(g) - i + 1]
         /\ Reverse(g)[1] = Last(g) /\ Reverse(g)[2] = g[Len(g) - 1]
         /\ Last(Reverse(g)) = g[1]
         /\ Reverse(Reverse(g)) = g
<1> DEFINE n == Len(g)
           r == Reverse(g)
<1>1. /\ n \in Nat /\ n > 1 /\ g \in [1 .. n -> Vertices]
      /\ \A i \in 1 .. n - 1 : Adjacent(g[i], g[i + 1])
      /\ Last(g) = g[n]
  BY LineFacts DEF IsLine
<1>2. r = [i \in 1 .. n |-> g[(n - i) + 1]]  BY DEF Reverse
<1> HIDE DEF n, r
<1>3. \A i \in 1 .. n : (n - i) + 1 \in 1 .. n  BY <1>1
<1>4. r \in [1 .. n -> Vertices] /\ \A i \in 1 .. n : r[i] = g[(n - i) + 1]
  BY <1>1, <1>2, <1>3
<1>5. ASSUME NEW i \in 1 .. n - 1  PROVE Adjacent(r[i], r[i + 1])
  <2>1. i \in 1 .. n /\ i + 1 \in 1 .. n /\ n - i \in 1 .. n - 1
        /\ (n - (i + 1)) + 1 = n - i /\ (n - i) + 1 \in 1 .. n
    BY <1>1
  <2>2. r[i] = g[(n - i) + 1] /\ r[i + 1] = g[n - i]  BY <1>4, <2>1
  <2>3. Adjacent(g[n - i], g[(n - i) + 1])  BY <1>1, <2>1
  <2>4. QED  BY <2>2, <2>3, AdjacentSymmetric
<1>6. IsLine(r) /\ Len(r) = n  BY <1>1, <1>4, <1>5, LineIntro
<1>7. r[1] = g[n] /\ r[2] = g[n - 1] /\ r[n] = g[1]
  <2>1. 1 \in 1 .. n /\ 2 \in 1 .. n /\ n \in 1 .. n /\ (n - 1) + 1 = n
        /\ (n - 2) + 1 = n - 1 /\ (n - n) + 1 = 1
    BY <1>1
  <2>2. QED  BY <1>4, <2>1
<1>8. Last(r) = g[1]  BY <1>6, <1>7, LineFacts
<1>9. Reverse(r) = g
  <2>1. Reverse(r) = [i \in 1 .. n |-> r[(n - i) + 1]]  BY <1>6 DEF Reverse
  <2>2. ASSUME NEW i \in 1 .. n  PROVE r[(n - i) + 1] = g[i]
    <3>1. (n - i) + 1 \in 1 .. n /\ (n - ((n - i) + 1)) + 1 = i  BY <1>1
    <3>2. QED  BY <1>4, <3>1
  <2>3. g = [i \in 1 .. n |-> g[i]]  BY <1>1
  <2>4. QED  BY <2>1, <2>2, <2>3
<1>10. QED  BY <1>1, <1>4, <1>6, <1>7, <1>8, <1>9 DEF n, r

\* The part of a line from one vertex to another.
LEMMA PartOfLine ==
  ASSUME NEW g, IsLine(g), NEW a \in 1 .. Len(g), NEW b \in 1 .. Len(g), a < b
  PROVE  /\ IsLine(SubSeq(g, a, b)) /\ Len(SubSeq(g, a, b)) = b - a + 1
         /\ \A i \in 1 .. b - a + 1 : SubSeq(g, a, b)[i] = g[a + i - 1]
<1> DEFINE s == SubSeq(g, a, b)
           n == Len(g)
<1>1. /\ n \in Nat /\ \A i \in 1 .. n : g[i] \in Vertices
      /\ \A i \in 1 .. n - 1 : Adjacent(g[i], g[i + 1])
  BY LineFacts DEF IsLine
<1>2. a \in Int /\ b \in Int /\ a \in 1 .. n /\ b \in 1 .. n
      /\ \A i \in a .. b : g[i] \in Vertices
  BY <1>1
<1>3. /\ s \in Seq(Vertices)
      /\ Len(s) = IF a <= b THEN b - a + 1 ELSE 0
      /\ \A i \in 1 .. b - a + 1 : s[i] = g[a + i - 1]
  BY <1>2, SubSeqProperties
<1> HIDE DEF s, n
<1>4. Len(s) = b - a + 1 /\ Len(s) > 1  BY <1>2, <1>3
<1>5. ASSUME NEW i \in 1 .. Len(s) - 1  PROVE Adjacent(s[i], s[i + 1])
  <2>1. i \in 1 .. b - a + 1 /\ i + 1 \in 1 .. b - a + 1 /\ a + i - 1 \in 1 .. n - 1
        /\ a + (i + 1) - 1 = (a + i - 1) + 1
    BY <1>1, <1>2, <1>4
  <2>2. QED  BY <1>1, <1>3, <2>1
<1>6. IsLine(s)  BY <1>3, <1>4, <1>5 DEF IsLine
<1>7. QED  BY <1>3, <1>4, <1>6 DEF s

\* Line j is g and then h, which begins where g ends.
Joins(j, g, h) ==
  /\ Len(j) = Len(g) + Len(h) - 1
  /\ \A i \in 1 .. Len(g) : j[i] = g[i]
  /\ \A i \in 1 .. Len(h) : j[Len(g) + i - 1] = h[i]

LEMMA JoinedLine ==
  ASSUME NEW g, NEW h, IsLine(g), IsLine(h), Last(g) = h[1], NEW j, j = g \o Tail(h)
  PROVE  IsLine(j) /\ Joins(j, g, h) /\ Last(j) = Last(h)
<1> DEFINE t == Tail(h)
           m == Len(g)
           n == Len(h)
<1>1. /\ m \in Nat /\ m > 1 /\ g \in Seq(Vertices) /\ g[m] = h[1]
      /\ \A i \in 1 .. m - 1 : Adjacent(g[i], g[i + 1])
      /\ n \in Nat /\ n > 1 /\ h \in Seq(Vertices) /\ h # <<>>
      /\ \A i \in 1 .. n - 1 : Adjacent(h[i], h[i + 1])
  <2>1. h # <<>>
    <3>1. Len(h) # 0  BY LineFacts
    <3>2. QED  BY <3>1, EmptySeq
  <2>2. QED  BY <2>1, LineFacts DEF IsLine
<1>2. /\ t \in Seq(Vertices) /\ Len(t) = n - 1
      /\ \A i \in 1 .. n - 1 : t[i] = h[i + 1]
  BY <1>1, HeadTailProperties
<1> HIDE DEF t
<1>3. /\ j \in Seq(Vertices) /\ Len(j) = m + (n - 1)
      /\ \A i \in 1 .. m + (n - 1) : j[i] = IF i <= m THEN g[i] ELSE t[i - m]
  <2>1. g \in Seq(Vertices) /\ t \in Seq(Vertices)  BY <1>1, <1>2
  <2>2. /\ g \o t \in Seq(Vertices) /\ Len(g \o t) = Len(g) + Len(t)
        /\ \A i \in 1 .. Len(g) + Len(t) :
             (g \o t)[i] = IF i <= Len(g) THEN g[i] ELSE t[i - Len(g)]
    BY <2>1, ConcatProperties
  <2>3. j = g \o t  BY DEF t
  <2>4. QED  BY ONLY <1>2, <2>2, <2>3 DEF m
<1> HIDE DEF m, n
<1>4. \A i \in 1 .. m : j[i] = g[i]  BY <1>1, <1>3
<1>5. ASSUME NEW i \in 1 .. n  PROVE j[m + i - 1] = h[i]
  <2>1. CASE i = 1
    <3>1. m + i - 1 = m /\ m \in 1 .. m  BY <1>1, <2>1
    <3>2. QED  BY <1>1, <1>4, <2>1, <3>1
  <2>2. CASE i # 1
    <3>1. /\ m + i - 1 \in 1 .. m + (n - 1) /\ ~(m + i - 1 <= m)
          /\ (m + i - 1) - m = i - 1 /\ i - 1 \in 1 .. n - 1 /\ (i - 1) + 1 = i
      BY <1>1, <2>2
    <3>2. QED  BY <1>2, <1>3, <3>1
  <2>3. QED  BY <2>1, <2>2
<1>6. Len(j) = m + n - 1 /\ Len(j) > 1 /\ Len(j) \in Nat  BY <1>1, <1>3
<1>7. ASSUME NEW i \in 1 .. Len(j) - 1  PROVE Adjacent(j[i], j[i + 1])
  <2>1. CASE i < m
    <3>1. i \in 1 .. m /\ i + 1 \in 1 .. m /\ i \in 1 .. m - 1  BY <1>1, <2>1
    <3>2. QED  BY <1>1, <1>4, <3>1
  <2>2. CASE ~(i < m)
    <3> DEFINE k == i - m + 1
    <3>1. /\ k \in 1 .. n /\ k + 1 \in 1 .. n /\ k \in 1 .. n - 1
          /\ m + k - 1 = i /\ m + (k + 1) - 1 = i + 1
      BY <1>1, <1>6, <2>2
    <3> HIDE DEF k
    <3>2. j[m + k - 1] = h[k] /\ j[m + (k + 1) - 1] = h[k + 1]
      BY <1>5, <3>1
    <3>3. j[i] = h[k] /\ j[i + 1] = h[k + 1]  BY <3>1, <3>2
    <3>4. QED  BY <1>1, <3>1, <3>3
  <2>3. QED  BY <2>1, <2>2
<1>8. IsLine(j)  BY <1>3, <1>6, <1>7 DEF IsLine
<1>9. Last(j) = Last(h)
  <2>1. Last(j) = j[Len(j)] /\ Last(h) = h[n]  BY <1>8, LineFacts DEF n
  <2>2. n \in 1 .. n /\ Len(j) = m + n - 1  BY <1>1, <1>6
  <2>3. j[m + n - 1] = h[n]  BY <1>5, <2>2
  <2>4. QED  BY <2>1, <2>2, <2>3
<1>10. QED  BY <1>4, <1>5, <1>6, <1>8, <1>9 DEF m, n, Joins

-----------------------------------------------------------------------------
(* Lines of several edges, no step of which is taken twice.                 *)

Places(g)    == 1 .. Len(g) - 1
StepAt(g, i) == {g[i], g[i + 1]}

OnceIn(G, S) ==
  \A e, f \in S : \A i \in Places(G[e]), j \in Places(G[f]) :
    StepAt(G[e], i) = StepAt(G[f], j) => e = f /\ i = j

TakenOnce(G) == OnceIn(G, DOMAIN G)

LEMMA UndirectedSteps ==
  ASSUME NEW g
  PROVE  Undirected(Steps(g)) = {StepAt(g, i) : i \in Places(g)}
<1>1. ASSUME NEW i \in Places(g)  PROVE StepAt(g, i) \in Undirected(Steps(g))
  <2> DEFINE s == <<g[i], g[i + 1]>>
  <2>1. s \in Steps(g)  BY DEF Steps, Places
  <2>2. StepAt(g, i) = {s[1], s[2]}  BY DEF StepAt
  <2>3. QED  BY <2>1, <2>2 DEF Undirected
<1>2. ASSUME NEW u \in Undirected(Steps(g))  PROVE \E i \in Places(g) : u = StepAt(g, i)
  <2>1. PICK s \in Steps(g) : u = {s[1], s[2]}  BY DEF Undirected
  <2>2. PICK i \in Places(g) : s = <<g[i], g[i + 1]>>  BY DEF Steps, Places
  <2>3. QED  BY <2>1, <2>2 DEF StepAt
<1>3. QED  BY <1>1, <1>2

\* A line that does not meet itself takes no step twice.
LEMMA SimpleOnce ==
  ASSUME NEW g, IsLine(g), lwgeom_is_simple(g),
         NEW i \in Places(g), NEW j \in Places(g), StepAt(g, i) = StepAt(g, j)
  PROVE  i = j
<1> DEFINE T == {StepAt(g, k) : k \in Places(g)}
           f == [k \in Places(g) |-> StepAt(g, k)]
<1>1. Len(g) - 1 \in Nat /\ Places(g) = 1 .. Len(g) - 1  BY LineFacts DEF Places
<1>2. IsFiniteSet(Places(g)) /\ Cardinality(Places(g)) = Len(g) - 1
  <2>1. \A n \in Nat : IsFiniteSet(1 .. n) /\ Cardinality(1 .. n) = n
    <3> TAKE n \in Nat
    <3>1. 1 \in Int /\ n \in Int /\ (IF 1 > n THEN 0 ELSE n - 1 + 1) = n  OBVIOUS
    <3>2. QED  BY <3>1, FS_Interval
  <2>2. QED  BY <1>1, <2>1
<1>3. Cardinality(T) = Len(g) - 1
  <2>1. Cardinality(Undirected(Steps(g))) = Len(g) - 1  BY DEF lwgeom_is_simple
  <2>2. QED  BY <2>1, UndirectedSteps
<1>4. f \in Surjection(Places(g), T)  BY DEF Surjection
<1>5. f \in Injection(Places(g), T)
  <2> HIDE DEF f, T
  <2>1. QED  BY <1>2, <1>3, <1>4, FS_SurjSameCardinalityImpliesInj
<1>6. f[i] = f[j] => i = j
  <2>1. DOMAIN f = Places(g)  OBVIOUS
  <2> HIDE DEF f
  <2>2. QED  BY <1>5, <2>1 DEF Injection, IsInjective
<1>7. QED  BY <1>6

LEMMA ApartSteps ==
  ASSUME NEW g, NEW h, ~InteriorsMeet(g, h), NEW i \in Places(g), NEW j \in Places(h)
  PROVE  StepAt(g, i) # StepAt(h, j)
<1>1. Undirected(Steps(g)) \cap Undirected(Steps(h)) = {}  BY DEF InteriorsMeet
<1>2. StepAt(g, i) \in Undirected(Steps(g)) /\ StepAt(h, j) \in Undirected(Steps(h))
  BY UndirectedSteps
<1>3. QED  BY <1>1, <1>2

\* A line that is added, or takes the place of that of edge e.
LEMMA OnceWith ==
  ASSUME NEW G, NEW H, NEW e, NEW g, IsLine(g), lwgeom_is_simple(g),
         TakenOnce(G), DOMAIN H = DOMAIN G \cup {e}, H[e] = g,
         \A f \in DOMAIN G \ {e} : H[f] = G[f] /\ ~InteriorsMeet(G[f], g)
  PROVE  TakenOnce(H)
<1> SUFFICES ASSUME NEW u \in DOMAIN H, NEW v \in DOMAIN H,
                    NEW i \in Places(H[u]), NEW j \in Places(H[v]),
                    StepAt(H[u], i) = StepAt(H[v], j)
             PROVE  u = v /\ i = j
  BY DEF TakenOnce, OnceIn
<1>1. CASE u = e /\ v = e  BY <1>1, SimpleOnce
<1>2. CASE u # e /\ v = e  BY <1>2, ApartSteps
<1>3. CASE u = e /\ v # e  BY <1>3, ApartSteps
<1>4. CASE u # e /\ v # e  BY <1>4 DEF TakenOnce, OnceIn
<1>5. QED  BY <1>1, <1>2, <1>3, <1>4

LEMMA OnceWithout ==
  ASSUME NEW G, NEW H, TakenOnce(G), DOMAIN H \subseteq DOMAIN G,
         \A f \in DOMAIN H : H[f] = G[f]
  PROVE  TakenOnce(H)
  BY DEF TakenOnce, OnceIn

\* Lines may be turned around.
LEMMA OnceTurned ==
  ASSUME NEW G, NEW H, TakenOnce(G), DOMAIN H = DOMAIN G,
         \A f \in DOMAIN G : IsLine(G[f]) /\ H[f] \in {G[f], Reverse(G[f])}
  PROVE  TakenOnce(H)
<1> DEFINE Was(u, i) == IF H[u] = G[u] THEN i ELSE Len(G[u]) - i
<1>1. ASSUME NEW u \in DOMAIN G, NEW i \in Places(H[u])
      PROVE  /\ Was(u, i) \in Places(G[u]) /\ StepAt(H[u], i) = StepAt(G[u], Was(u, i))
             /\ i \in Int /\ Len(G[u]) \in Int
  <2>1. Len(G[u]) \in Nat /\ Len(G[u]) > 1  BY LineFacts
  <2>2. CASE H[u] = G[u]  BY <2>1, <2>2 DEF Places
  <2>3. CASE H[u] # G[u]
    <3> DEFINE n == Len(G[u])
    <3>1. /\ H[u] = Reverse(G[u]) /\ Len(H[u]) = n
          /\ \A k \in 1 .. n : H[u][k] = G[u][n - k + 1]
      BY <2>3, ReverseLine
    <3> HIDE DEF n
    <3>2. n \in Nat /\ i \in 1 .. n - 1  BY <2>1, <3>1 DEF Places, n
    <3>3. i \in 1 .. n /\ i + 1 \in 1 .. n /\ n - i \in 1 .. n - 1 /\ n - (i + 1) + 1 = n - i
      BY <3>2
    <3>4. H[u][i] = G[u][n - i + 1] /\ H[u][i + 1] = G[u][n - i]  BY <3>1, <3>3
    <3>5. StepAt(H[u], i) = StepAt(G[u], n - i)  BY <3>4 DEF StepAt
    <3>6. n - i \in Places(G[u])  BY <3>3 DEF Places, n
    <3>7. QED  BY <2>3, <3>2, <3>5, <3>6 DEF n
  <2>4. QED  BY <2>2, <2>3
<1> SUFFICES ASSUME NEW u \in DOMAIN H, NEW v \in DOMAIN H,
                    NEW i \in Places(H[u]), NEW j \in Places(H[v]),
                    StepAt(H[u], i) = StepAt(H[v], j)
             PROVE  u = v /\ i = j
  BY DEF TakenOnce, OnceIn
<1>2. u = v /\ Was(u, i) = Was(v, j)
  <2>1. /\ Was(u, i) \in Places(G[u]) /\ Was(v, j) \in Places(G[v])
        /\ StepAt(G[u], Was(u, i)) = StepAt(G[v], Was(v, j))
    BY <1>1
  <2> HIDE DEF Was
  <2>2. QED  BY <2>1 DEF TakenOnce, OnceIn
<1>3. QED  BY <1>1, <1>2

\* Line e is cut at its vertex c: f is the first part, g the second.
LEMMA OnceCut ==
  ASSUME NEW G, NEW H, TakenOnce(G), NEW e \in DOMAIN G, IsLine(G[e]),
         NEW c \in 2 .. Len(G[e]) - 1, NEW f, NEW g, f # g,
         f \notin DOMAIN G \ {e}, g \notin DOMAIN G \ {e},
         DOMAIN H = (DOMAIN G \ {e}) \cup {f, g},
         H[f] = SubSeq(G[e], 1, c), H[g] = SubSeq(G[e], c, Len(G[e])),
         \A u \in DOMAIN G \ {e} : H[u] = G[u]
  PROVE  TakenOnce(H)
<1> DEFINE n == Len(G[e])
           Edge(u) == IF u \in {f, g} THEN e ELSE u
           Was(u, i) == IF u = g THEN c + i - 1 ELSE i
<1>1. /\ n \in Nat /\ c \in 2 .. n - 1 /\ 1 \in 1 .. n /\ c \in 1 .. n /\ n \in 1 .. n
      /\ 1 < c /\ c < n
  BY LineFacts
<1>2. /\ Len(H[f]) = c /\ \A i \in 1 .. c : H[f][i] = G[e][i]
      /\ Len(H[g]) = n - c + 1 /\ \A i \in 1 .. n - c + 1 : H[g][i] = G[e][c + i - 1]
  <2>1. /\ Len(H[f]) = c - 1 + 1 /\ \A i \in 1 .. c - 1 + 1 : H[f][i] = G[e][1 + i - 1]
        /\ Len(H[g]) = n - c + 1 /\ \A i \in 1 .. n - c + 1 : H[g][i] = G[e][c + i - 1]
    BY <1>1, PartOfLine
  <2>2. c - 1 + 1 = c /\ \A i \in 1 .. c : 1 + i - 1 = i  BY <1>1
  <2>3. QED  BY <2>1, <2>2
<1>3. ASSUME NEW u \in DOMAIN H, NEW i \in Places(H[u])
      PROVE  /\ Edge(u) \in DOMAIN G /\ Was(u, i) \in Places(G[Edge(u)])
             /\ StepAt(H[u], i) = StepAt(G[Edge(u)], Was(u, i))
             /\ u = f => Was(u, i) < c
             /\ u = g => Was(u, i) >= c
             /\ i \in Int
  <2>1. CASE u = f
    <3>1. i \in 1 .. c - 1 /\ i \in 1 .. c /\ i + 1 \in 1 .. c /\ i \in 1 .. n - 1 /\ i < c
      BY <1>1, <1>2, <2>1 DEF Places
    <3>2. H[f][i] = G[e][i] /\ H[f][i + 1] = G[e][i + 1]  BY <1>2, <3>1
    <3>3. Edge(u) = e /\ Was(u, i) = i /\ u # g  BY <2>1
    <3>4. StepAt(H[u], i) = StepAt(G[e], i)  BY <2>1, <3>2 DEF StepAt
    <3>5. i \in Places(G[e]) /\ i \in Int  BY <3>1 DEF Places
    <3> HIDE DEF Edge, Was, n
    <3>6. QED  BY <3>1, <3>3, <3>4, <3>5
  <2>2. CASE u = g
    <3>1. /\ i \in 1 .. n - c + 1 /\ i + 1 \in 1 .. n - c + 1
          /\ c + i - 1 \in 1 .. n - 1 /\ c + (i + 1) - 1 = (c + i - 1) + 1
          /\ c + i - 1 >= c
      <4>1. i \in 1 .. (n - c + 1) - 1  BY <1>2, <2>2 DEF Places
      <4>2. n \in Nat /\ c \in 2 .. n - 1  BY <1>1
      <4> HIDE DEF n, Was, Edge
      <4>3. QED  BY ONLY <4>1, <4>2
    <3>2. H[g][i] = G[e][c + i - 1] /\ H[g][i + 1] = G[e][(c + i - 1) + 1]
      BY <1>2, <3>1
    <3>3. Edge(u) = e /\ Was(u, i) = c + i - 1 /\ u # f  BY <2>2
    <3>4. StepAt(H[u], i) = StepAt(G[e], c + i - 1)  BY <2>2, <3>2 DEF StepAt
    <3>5. c + i - 1 \in Places(G[e]) /\ i \in Int  BY <3>1 DEF Places
    <3> HIDE DEF Edge, Was, n
    <3>6. QED  BY <3>1, <3>3, <3>4, <3>5
  <2>3. CASE u \notin {f, g}
    <3>1. u \in DOMAIN G /\ H[u] = G[u]  BY <2>3
    <3>2. QED  BY <2>3, <3>1 DEF Places
  <2>4. QED  BY <2>1, <2>2, <2>3
<1> SUFFICES ASSUME NEW u \in DOMAIN H, NEW v \in DOMAIN H,
                    NEW i \in Places(H[u]), NEW j \in Places(H[v]),
                    StepAt(H[u], i) = StepAt(H[v], j)
             PROVE  u = v /\ i = j
  BY DEF TakenOnce, OnceIn
<1>4. Edge(u) = Edge(v) /\ Was(u, i) = Was(v, j)
  <2> HIDE DEF Was, Edge, n
  <2>1. /\ Edge(u) \in DOMAIN G /\ Was(u, i) \in Places(G[Edge(u)])
        /\ StepAt(H[u], i) = StepAt(G[Edge(u)], Was(u, i))
    BY <1>3
  <2>2. /\ Edge(v) \in DOMAIN G /\ Was(v, j) \in Places(G[Edge(v)])
        /\ StepAt(H[v], j) = StepAt(G[Edge(v)], Was(v, j))
    BY <1>3
  <2>3. StepAt(G[Edge(u)], Was(u, i)) = StepAt(G[Edge(v)], Was(v, j))  BY <2>1, <2>2
  <2>4. QED  BY <2>1, <2>2, <2>3 DEF TakenOnce, OnceIn
<1>5. u = v
  <2>1. CASE u \notin {f, g} /\ v \notin {f, g}  BY <1>4, <2>1
  <2>2. CASE u \in {f, g} /\ v \notin {f, g}  BY <1>4, <2>2
  <2>3. CASE u \notin {f, g} /\ v \in {f, g}  BY <1>4, <2>3
  <2>4. CASE u \in {f, g} /\ v \in {f, g}
    <3>1. /\ Was(u, i) \in Int /\ Was(v, j) \in Int /\ Was(u, i) = Was(v, j)
          /\ u = f => Was(u, i) < c
          /\ u = g => Was(u, i) >= c
          /\ v = f => Was(v, j) < c
          /\ v = g => Was(v, j) >= c
      BY <1>1, <1>3, <1>4
    <3> HIDE DEF Was
    <3>2. QED  BY <1>1, <2>4, <3>1
  <2>5. QED  BY <2>1, <2>2, <2>3, <2>4
<1>6. QED  BY <1>1, <1>3, <1>4, <1>5

\* Lines e and f become one, k.
LEMMA OnceJoined ==
  ASSUME NEW G, NEW H, TakenOnce(G), NEW e \in DOMAIN G, NEW f \in DOMAIN G, e # f,
         IsLine(G[e]), IsLine(G[f]),
         NEW k, k \notin DOMAIN G \ {e, f},
         DOMAIN H = (DOMAIN G \ {e, f}) \cup {k},
         Joins(H[k], G[e], G[f]),
         \A u \in DOMAIN G \ {e, f} : H[u] = G[u]
  PROVE  TakenOnce(H)
<1> DEFINE m == Len(G[e])
           n == Len(G[f])
           Edge(u, i) == IF u = k THEN IF i < m THEN e ELSE f ELSE u
           Was(u, i) == IF u = k /\ ~(i < m) THEN i - m + 1 ELSE i
<1>1. m \in Nat /\ m > 1 /\ n \in Nat /\ n > 1  BY LineFacts
<1>2. /\ Len(H[k]) = m + n - 1
      /\ \A i \in 1 .. m : H[k][i] = G[e][i]
      /\ \A i \in 1 .. n : H[k][m + i - 1] = G[f][i]
  BY DEF Joins
<1>3. ASSUME NEW u \in DOMAIN H, NEW i \in Places(H[u])
      PROVE  /\ Edge(u, i) \in DOMAIN G /\ Was(u, i) \in Places(G[Edge(u, i)])
             /\ StepAt(H[u], i) = StepAt(G[Edge(u, i)], Was(u, i))
             /\ i \in Int
  <2>1. CASE u = k /\ i < m
    <3>1. i \in 1 .. m - 1 /\ i \in 1 .. m /\ i + 1 \in 1 .. m
      BY <1>1, <1>2, <2>1 DEF Places
    <3>2. H[k][i] = G[e][i] /\ H[k][i + 1] = G[e][i + 1]  BY <1>2, <3>1
    <3>3. QED  BY <2>1, <3>1, <3>2 DEF Places, StepAt
  <2>2. CASE u = k /\ ~(i < m)
    <3> DEFINE c == i - m + 1
    <3>1. /\ c \in 1 .. n /\ c + 1 \in 1 .. n /\ c \in 1 .. n - 1
          /\ m + c - 1 = i /\ m + (c + 1) - 1 = i + 1 /\ i \in Int
      BY <1>1, <1>2, <2>2 DEF Places
    <3> HIDE DEF c
    <3>2. H[k][m + c - 1] = G[f][c] /\ H[k][m + (c + 1) - 1] = G[f][c + 1]
      BY <1>2, <3>1
    <3>3. StepAt(H[k], i) = StepAt(G[f], c)  BY <3>1, <3>2 DEF StepAt
    <3>4. c \in Places(G[f])  BY <3>1 DEF Places
    <3>5. QED  BY <2>2, <3>1, <3>3, <3>4 DEF c
  <2>3. CASE u # k
    <3>1. u \in DOMAIN G /\ H[u] = G[u]  BY <2>3
    <3>2. QED  BY <2>3, <3>1 DEF Places
  <2>4. QED  BY <2>1, <2>2, <2>3
<1> SUFFICES ASSUME NEW u \in DOMAIN H, NEW v \in DOMAIN H,
                    NEW i \in Places(H[u]), NEW j \in Places(H[v]),
                    StepAt(H[u], i) = StepAt(H[v], j)
             PROVE  u = v /\ i = j
  BY DEF TakenOnce, OnceIn
<1>4. Edge(u, i) = Edge(v, j) /\ Was(u, i) = Was(v, j)
  <2>1. /\ Edge(u, i) \in DOMAIN G /\ Edge(v, j) \in DOMAIN G
        /\ Was(u, i) \in Places(G[Edge(u, i)]) /\ Was(v, j) \in Places(G[Edge(v, j)])
        /\ StepAt(G[Edge(u, i)], Was(u, i)) = StepAt(G[Edge(v, j)], Was(v, j))
    BY <1>3
  <2> HIDE DEF Was, Edge
  <2>2. QED  BY <2>1 DEF TakenOnce, OnceIn
<1>5. i \in Int /\ j \in Int  BY <1>3
<1>6. CASE u = k /\ v = k
  <2>1. (i < m) <=> (j < m)  BY <1>4, <1>6
  <2>2. QED  BY <1>1, <1>4, <1>5, <1>6, <2>1
<1>7. CASE u = k /\ v # k
  <2>1. v \in DOMAIN G \ {e, f}  BY <1>7
  <2>2. QED  BY <1>4, <1>7, <2>1
<1>8. CASE u # k /\ v = k
  <2>1. u \in DOMAIN G \ {e, f}  BY <1>8
  <2>2. QED  BY <1>4, <1>8, <2>1
<1>9. CASE u # k /\ v # k  BY <1>4, <1>9
<1>10. QED  BY <1>6, <1>7, <1>8, <1>9

-----------------------------------------------------------------------------
(* The lines of the darts.                                                  *)

\* Darts D come in pairs, one for each of the lines G.
Lined(G, D) ==
  /\ \A d \in D : d \in Int /\ d # 0 /\ -d \in D
  /\ DOMAIN G = {d \in D : d > 0}
  /\ \A e \in DOMAIN G : IsLine(G[e])

\* Each line runs between the nodes that its darts leave.
Drawn(G, o, a) ==
  \A e \in DOMAIN G : G[e][1] = a[o[e]] /\ Last(G[e]) = a[o[-e]]

Turning(G, D) == [d \in D |-> Leaving(Path(G, d))]

EdgeOf(d) == IF d > 0 THEN d ELSE -d

\* The azimuths at the ends of a line, and of the line turned around.
LEMMA LineEnds ==
  ASSUME NEW g, IsLine(g)
  PROVE  /\ Leaving(g) \in 0 .. 7 /\ Arriving(g) \in 0 .. 7
         /\ Leaving(Reverse(g)) = Arriving(g) /\ Arriving(Reverse(g)) = Leaving(g)
<1>1. ASSUME NEW h, IsLine(h)  PROVE Leaving(h) \in 0 .. 7
  BY <1>1, LineFacts, StepAzimuth DEF Leaving
<1>2. IsLine(Reverse(g)) /\ Reverse(Reverse(g)) = g  BY ReverseLine
<1>3. ASSUME NEW h, IsLine(h)  PROVE Leaving(Reverse(h)) = Arriving(h)
  <2>1. Reverse(h)[1] = Last(h) /\ Reverse(h)[2] = h[Len(h) - 1]  BY <1>3, ReverseLine
  <2>2. QED  BY <2>1 DEF Leaving, Arriving
<1>4. Leaving(Reverse(Reverse(g))) = Arriving(Reverse(g))  BY <1>2, <1>3
<1>5. Leaving(Reverse(g)) = Arriving(g)  BY <1>3
<1>6. QED  BY <1>1, <1>2, <1>4, <1>5

\* The first step of a line, in either direction, is one of its steps.
LEMMA FirstStep ==
  ASSUME NEW g, IsLine(g), NEW h \in {g, Reverse(g)}
  PROVE  \E i \in Places(g) : StepAt(g, i) = {h[1], h[2]}
<1>1. Len(g) \in Nat /\ Len(g) > 1 /\ Last(g) = g[Len(g)]  BY LineFacts
<1>2. CASE h = g
  <2>1. 1 \in Places(g) /\ StepAt(g, 1) = {g[1], g[2]}  BY <1>1 DEF Places, StepAt
  <2>2. QED  BY <1>2, <2>1
<1>3. CASE h = Reverse(g)
  <2>1. h[1] = g[Len(g)] /\ h[2] = g[Len(g) - 1]  BY <1>1, <1>3, ReverseLine
  <2>2. Len(g) - 1 \in Places(g) /\ (Len(g) - 1) + 1 = Len(g)  BY <1>1 DEF Places
  <2>3. StepAt(g, Len(g) - 1) = {h[1], h[2]}  BY <2>1, <2>2 DEF StepAt
  <2>4. QED  BY <2>2, <2>3
<1>4. QED  BY <1>2, <1>3

\* Two lines that leave a point at the same azimuth have the next point in common.
LEMMA SameStart ==
  ASSUME NEW g, IsLine(g), NEW h, IsLine(h), g[1] = h[1], Leaving(g) = Leaving(h)
  PROVE  g[2] = h[2]
<1>1. /\ g[1] \in Vertices /\ g[2] \in Vertices /\ Adjacent(g[1], g[2])
      /\ h[2] \in Vertices /\ Adjacent(g[1], h[2])
  BY LineFacts
<1>2. azimuth_pt_pt(g[1], g[2]) = azimuth_pt_pt(g[1], h[2])  BY DEF Leaving
<1>3. QED  BY <1>1, <1>2, StepAzimuth

\* Lines whose interiors do not meet leave a common end at different azimuths.
LEMMA ApartEnds ==
  ASSUME NEW g, IsLine(g), NEW h, IsLine(h), ~InteriorsMeet(g, h),
         NEW u \in {g, Reverse(g)}, NEW v \in {h, Reverse(h)}, u[1] = v[1]
  PROVE  Leaving(u) # Leaving(v)
<1> SUFFICES ASSUME Leaving(u) = Leaving(v)  PROVE FALSE  OBVIOUS
<1>1. IsLine(u) /\ IsLine(v)  BY ReverseLine
<1>2. u[2] = v[2]  BY <1>1, SameStart
<1>3. PICK i \in Places(g) : StepAt(g, i) = {u[1], u[2]}  BY FirstStep
<1>4. PICK j \in Places(h) : StepAt(h, j) = {v[1], v[2]}  BY FirstStep
<1>5. QED  BY <1>2, <1>3, <1>4, ApartSteps

\* A line from a point back to it that does not meet itself comes back at
\* another azimuth.
LEMMA LoopEnds ==
  ASSUME NEW g, IsLine(g), lwgeom_is_simple(g), g[1] = Last(g)
  PROVE  Leaving(g) # Arriving(g)
<1> SUFFICES ASSUME Leaving(g) = Arriving(g)  PROVE FALSE  OBVIOUS
<1> DEFINE n == Len(g)
           r == Reverse(g)
<1>1. /\ n \in Nat /\ n > 1 /\ Last(g) = g[n] /\ g[1] \in Vertices /\ g[2] \in Vertices
      /\ Adjacent(g[1], g[2])
  BY LineFacts
<1>2. IsLine(r) /\ r[1] = g[1] /\ r[2] = g[n - 1]  BY ReverseLine
<1>3. Leaving(r) = Leaving(g)  BY LineEnds
<1>4. g[2] = g[n - 1]
  <2>1. g[2] = r[2]  BY <1>2, <1>3, SameStart
  <2>2. QED  BY <1>2, <2>1
<1>5. 1 \in Places(g) /\ n - 1 \in Places(g) /\ (n - 1) + 1 = n  BY <1>1 DEF Places
<1>6. StepAt(g, 1) = StepAt(g, n - 1)  BY <1>1, <1>4, <1>5 DEF StepAt
<1>7. 1 = n - 1  BY <1>5, <1>6, SimpleOnce
<1>8. n = 2  BY <1>1, <1>7
<1>9. g[1] = g[2]  BY <1>1, <1>8
<1>10. g[1] # g[2]  BY <1>1, AdjacentPoints
<1>11. QED  BY <1>9, <1>10

LEMMA PathFacts ==
  ASSUME NEW G, NEW D, Lined(G, D), NEW d \in D
  PROVE  /\ EdgeOf(d) \in DOMAIN G /\ Path(G, d) \in {G[EdgeOf(d)], Reverse(G[EdgeOf(d)])}
         /\ IsLine(Path(G, d)) /\ Path(G, -d) = Reverse(Path(G, d))
         /\ Leaving(Path(G, d)) \in 0 .. 7
         /\ Leaving(Path(G, -d)) = Arriving(Path(G, d))
         /\ Path(G, -d)[1] = Last(Path(G, d))
<1>1. d \in Int /\ d # 0 /\ -d \in D /\ DOMAIN G = {c \in D : c > 0}
      /\ \A e \in DOMAIN G : IsLine(G[e])
  BY DEF Lined
<1>2. CASE d > 0
  <2>1. ~(-d > 0) /\ -(-d) = d /\ EdgeOf(d) = d  BY <1>1, <1>2 DEF EdgeOf
  <2>2. Path(G, d) = G[d] /\ Path(G, -d) = Reverse(G[d])  BY <1>2, <2>1 DEF Path
  <2>3. d \in DOMAIN G /\ IsLine(G[d])  BY <1>1, <1>2
  <2>4. QED  BY <2>1, <2>2, <2>3, LineEnds, ReverseLine
<1>3. CASE ~(d > 0)
  <2>1. -d > 0 /\ EdgeOf(d) = -d  BY <1>1, <1>3 DEF EdgeOf
  <2>2. Path(G, d) = Reverse(G[-d]) /\ Path(G, -d) = G[-d]  BY <1>3, <2>1 DEF Path
  <2>3. -d \in DOMAIN G /\ IsLine(G[-d])  BY <1>1, <2>1
  <2>4. QED  BY <2>1, <2>2, <2>3, LineEnds, ReverseLine
<1>4. QED  BY <1>2, <1>3

\* The azimuths of the two darts of an edge.
LEMMA EdgeTurning ==
  ASSUME NEW G, NEW D, Lined(G, D), NEW e \in DOMAIN G
  PROVE  /\ e \in Int /\ e > 0 /\ e # -e /\ -(-e) = e /\ e \in D /\ -e \in D
         /\ Path(G, e) = G[e] /\ Path(G, -e) = Reverse(G[e])
         /\ Turning(G, D)[e] = Leaving(G[e]) /\ Turning(G, D)[-e] = Arriving(G[e])
<1>1. /\ e \in Int /\ e > 0 /\ e # -e /\ ~(-e > 0) /\ -(-e) = e /\ e \in D /\ -e \in D
      /\ IsLine(G[e])
  BY DEF Lined
<1>2. Path(G, e) = G[e] /\ Path(G, -e) = Reverse(G[e])  BY <1>1 DEF Path
<1>3. QED  BY <1>1, <1>2, LineEnds DEF Turning

\* The path of a dart depends on the line of its edge only.
LEMMA SamePath ==
  ASSUME NEW G, NEW H, NEW d, G[EdgeOf(d)] = H[EdgeOf(d)]
  PROVE  Path(G, d) = Path(H, d)
  BY DEF Path, EdgeOf

\* Lines and azimuths with one more edge,
LEMMA TurningWith ==
  ASSUME NEW G, NEW D, Lined(G, D), NEW e \in Int, e > 0, e \notin D, -e \notin D,
         NEW g, IsLine(g), NEW H, H = WithEdge(G, e, g)
  PROVE  /\ Lined(H, D \cup {e, -e})
         /\ Turning(H, D \cup {e, -e}) = L!With(Turning(G, D), e, Leaving(g), Arriving(g))
<1>1. /\ \A d \in D : d \in Int /\ d # 0 /\ -d \in D /\ -(-d) = d
      /\ DOMAIN G = {d \in D : d > 0}
      /\ \A d \in DOMAIN G : IsLine(G[d])
  BY DEF Lined
<1>2. /\ DOMAIN H = DOMAIN G \cup {e} /\ H[e] = g
      /\ \A d \in DOMAIN G : d # e /\ H[d] = G[d]
  BY <1>1 DEF WithEdge
<1>3. e # 0 /\ -e # 0 /\ -e \in Int /\ -(-e) = e /\ ~(-e > 0) /\ e # -e  OBVIOUS
<1>4. Lined(H, D \cup {e, -e})
  <2>1. \A d \in D \cup {e, -e} : d \in Int /\ d # 0 /\ -d \in D \cup {e, -e}
    BY <1>1, <1>3
  <2>2. DOMAIN H = {d \in D \cup {e, -e} : d > 0}  BY <1>1, <1>2, <1>3
  <2>3. \A d \in DOMAIN H : IsLine(H[d])  BY <1>1, <1>2
  <2>4. QED  BY <2>1, <2>2, <2>3 DEF Lined
<1>5. Path(H, e) = g /\ Path(H, -e) = Reverse(g)  BY <1>2, <1>3 DEF Path
<1>6. ASSUME NEW d \in D  PROVE Path(H, d) = Path(G, d) /\ d # e /\ d # -e
  <2>1. EdgeOf(d) \in DOMAIN G  BY PathFacts
  <2>2. G[EdgeOf(d)] = H[EdgeOf(d)]  BY <1>2, <2>1
  <2>3. QED  BY <2>2, SamePath
<1>7. Leaving(Reverse(g)) = Arriving(g)  BY LineEnds
<1>8. DOMAIN Turning(G, D) = D /\ \A d \in D : Turning(G, D)[d] = Leaving(Path(G, d))
  BY DEF Turning
<1>9. \A d \in D \cup {e, -e} :
        Leaving(Path(H, d)) = IF d = e THEN Leaving(g) ELSE IF d = -e THEN Arriving(g)
                              ELSE Turning(G, D)[d]
  BY <1>3, <1>5, <1>6, <1>7, <1>8
<1>10. QED  BY <1>4, <1>8, <1>9 DEF L!With, Turning

\* with one less,
LessLine(H, G, e) == DOMAIN H = DOMAIN G \ {e} /\ \A x \in DOMAIN G \ {e} : H[x] = G[x]

LEMMA TurningWithout ==
  ASSUME NEW G, NEW D, Lined(G, D), NEW e \in DOMAIN G, NEW H, LessLine(H, G, e)
  PROVE  /\ Lined(H, D \ {e, -e})
         /\ Turning(H, D \ {e, -e}) = L!Without(Turning(G, D), e)
<1> USE DEF LessLine
<1>1. /\ \A d \in D : d \in Int /\ d # 0 /\ -d \in D /\ -(-d) = d
      /\ DOMAIN G = {d \in D : d > 0}
      /\ \A d \in DOMAIN G : IsLine(G[d])
      /\ e \in Int /\ e > 0 /\ -(-e) = e /\ ~(-e > 0)
  BY DEF Lined
<1>2. Lined(H, D \ {e, -e})
  <2>1. \A d \in D \ {e, -e} : d \in Int /\ d # 0 /\ -d \in D \ {e, -e}  BY <1>1
  <2>2. DOMAIN H = {d \in D \ {e, -e} : d > 0}  BY <1>1
  <2>3. \A d \in DOMAIN H : IsLine(H[d])  BY <1>1
  <2>4. QED  BY <2>1, <2>2, <2>3 DEF Lined
<1>3. ASSUME NEW d \in D \ {e, -e}  PROVE Path(H, d) = Path(G, d)
  <2>1. EdgeOf(d) \in DOMAIN G  BY PathFacts
  <2>2. EdgeOf(d) # e  BY <1>1 DEF EdgeOf
  <2>3. G[EdgeOf(d)] = H[EdgeOf(d)]  BY <2>1, <2>2
  <2>4. QED  BY <2>3, SamePath
<1>4. DOMAIN Turning(G, D) = D /\ \A d \in D : Turning(G, D)[d] = Leaving(Path(G, d))
  BY DEF Turning
<1>5. \A d \in D \ {e, -e} : Leaving(Path(H, d)) = Turning(G, D)[d]  BY <1>3, <1>4
<1>6. QED  BY <1>2, <1>4, <1>5 DEF L!Without, Turning

\* and with another line for an edge.
Turned(z, e, a, b) == [z EXCEPT ![e] = a, ![-e] = b]

LEMMA TurningExcept ==
  ASSUME NEW G, NEW D, Lined(G, D), NEW e \in DOMAIN G, NEW g, IsLine(g),
         NEW H, DOMAIN H = DOMAIN G, H[e] = g, \A d \in DOMAIN G \ {e} : H[d] = G[d]
  PROVE  /\ Lined(H, D)
         /\ Turning(H, D) = Turned(Turning(G, D), e, Leaving(g), Arriving(g))
<1>1. /\ \A d \in D : d \in Int /\ d # 0 /\ -d \in D /\ -(-d) = d
      /\ DOMAIN G = {d \in D : d > 0}
      /\ \A d \in DOMAIN G : IsLine(G[d])
      /\ e \in Int /\ e > 0 /\ -(-e) = e /\ ~(-e > 0) /\ e # -e /\ e \in D /\ -e \in D
  BY DEF Lined
<1>2. DOMAIN H = DOMAIN G /\ H[e] = g /\ \A d \in DOMAIN G : d # e => H[d] = G[d]  OBVIOUS
<1>3. Lined(H, D)
  <2>1. \A d \in DOMAIN H : IsLine(H[d])  BY <1>1, <1>2
  <2>2. QED  BY <1>1, <1>2, <2>1 DEF Lined
<1>4. ASSUME NEW d \in D \ {e, -e}  PROVE Path(H, d) = Path(G, d)
  <2>1. EdgeOf(d) \in DOMAIN G  BY PathFacts
  <2>2. EdgeOf(d) # e  BY <1>1 DEF EdgeOf
  <2>3. G[EdgeOf(d)] = H[EdgeOf(d)]  BY <1>2, <2>1, <2>2
  <2>4. QED  BY <2>3, SamePath
<1>5. Path(H, e) = g /\ Path(H, -e) = Reverse(g) /\ Leaving(Reverse(g)) = Arriving(g)
  BY <1>1, <1>2, LineEnds DEF Path
<1>6. DOMAIN Turning(G, D) = D /\ \A d \in D : Turning(G, D)[d] = Leaving(Path(G, d))
  BY DEF Turning
<1>7. \A d \in D : Leaving(Path(H, d)) = IF d = -e THEN Arriving(g) ELSE IF d = e THEN Leaving(g)
                                         ELSE Turning(G, D)[d]
  BY <1>1, <1>4, <1>5, <1>6
<1>8. Turned(Turning(G, D), e, Leaving(g), Arriving(g))
        = [d \in D |-> IF d = -e THEN Arriving(g) ELSE IF d = e THEN Leaving(g)
                       ELSE Turning(G, D)[d]]
  BY <1>1, <1>6 DEF Turned
<1>9. QED  BY <1>3, <1>7, <1>8 DEF Turning

-----------------------------------------------------------------------------
(* The invariant.                                                           *)

\* Sides s of darts D and containing faces in of nodes N, those without darts.
Faced(N, in, o, D, s) ==
  /\ s \in [D -> Nat]
  /\ DOMAIN in = N
  /\ \A n \in N : in[n] \in Nat \cup {None} /\ (in[n] = None <=> \E d \in D : o[d] = n)

Tables(a, in, G, o, D, s) ==
  /\ a \in [DOMAIN a -> Vertices]
  /\ Lined(G, D) /\ Drawn(G, o, a) /\ TakenOnce(G)
  /\ Faced(DOMAIN a, in, o, D, s)

TopoInv ==
  /\ LP!LinkInv
  /\ Tables(at, inface, geom, org, Darts, side)
  /\ DOMAIN face \subseteq 0 .. MaxFace

LEMMA Linking == LP!LinksAssumption
  BY TopologyAssumption DEF LP!LinksAssumption

LEMMA InvFacts ==
  ASSUME TopoInv
  PROVE  /\ Lined(geom, Darts) /\ Drawn(geom, org, at) /\ TakenOnce(geom)
         /\ at \in [DOMAIN at -> Vertices] /\ DOMAIN at \in SUBSET Nodes
         /\ DOMAIN org = Darts /\ DOMAIN az = Darts /\ az = Turning(geom, Darts)
         /\ \A d \in Darts : /\ d \in Int /\ d # 0 /\ -d \in Darts /\ -(-d) = d /\ d # -d
                             /\ org[d] \in DOMAIN at /\ org[-d] \in DOMAIN at
                             /\ az[d] \in 0 .. 7 /\ next[d] \in Darts
         /\ Edges = {d \in Darts : d > 0} /\ 0 \notin Edges
         /\ \A e \in Edges : IsLine(geom[e])
         /\ side \in [Darts -> Nat] /\ DOMAIN inface = DOMAIN at
         /\ \A n \in DOMAIN at : inface[n] \in Nat \cup {None}
                                 /\ (inface[n] = None <=> L!Out(n) # {})
<1>1. LP!LinkInv  BY DEF TopoInv
<1>2. /\ DOMAIN at \in SUBSET Nodes /\ DOMAIN org = Darts
      /\ \A d \in Darts : d \in Int /\ -d \in Darts /\ -(-d) = d /\ d # -d
                          /\ org[d] \in DOMAIN at /\ next[d] \in Darts
  BY <1>1, Linking, LP!InvFacts DEF LP!Darts, Darts
<1>3. Tables(at, inface, geom, org, Darts, side)  BY DEF TopoInv
<1>4. /\ Lined(geom, Darts) /\ Drawn(geom, org, at) /\ TakenOnce(geom)
      /\ at \in [DOMAIN at -> Vertices]
      /\ Faced(DOMAIN at, inface, org, Darts, side)
  BY <1>3 DEF Tables
<1>5. az = Turning(geom, Darts) /\ DOMAIN az = Darts  BY DEF az, Turning
<1>6. \A d \in Darts : az[d] \in 0 .. 7  BY <1>4, <1>5, PathFacts DEF Turning
<1>7. /\ Edges = {d \in Darts : d > 0} /\ 0 \notin Edges
      /\ (\A e \in Edges : IsLine(geom[e])) /\ \A d \in Darts : d # 0
  BY <1>4 DEF Lined, Edges
<1>8. \A n : L!Out(n) = {d \in Darts : org[d] = n}  BY DEF L!Out, L!Darts, Darts
<1>9. \A n \in DOMAIN at : inface[n] \in Nat \cup {None}
                                 /\ (inface[n] = None <=> L!Out(n) # {})
  BY <1>4, <1>8 DEF Faced
<1>10. side \in [Darts -> Nat] /\ DOMAIN inface = DOMAIN at  BY <1>4 DEF Faced
<1>11. \A d \in Darts : org[-d] \in DOMAIN at  BY <1>2
<1>12. QED  BY ONLY <1>2, <1>4, <1>5, <1>6, <1>7, <1>9, <1>10, <1>11

\* Where a dart starts, and in which direction.
LEMMA DartFacts ==
  ASSUME TopoInv, NEW d \in Darts
  PROVE  /\ Path(geom, d)[1] = at[org[d]] /\ IsLine(Path(geom, d))
         /\ az[d] = Leaving(Path(geom, d))
         /\ EdgeOf(d) \in Edges
         /\ Path(geom, d) \in {geom[EdgeOf(d)], Reverse(geom[EdgeOf(d)])}
<1>1. /\ Lined(geom, Darts) /\ Drawn(geom, org, at)
      /\ d \in Int /\ d # 0 /\ -(-d) = d /\ Edges = {x \in Darts : x > 0} /\ -d \in Darts
      /\ \A e \in Edges : IsLine(geom[e])
  BY InvFacts
<1>2. az[d] = Leaving(Path(geom, d))  BY DEF az
<1>3. /\ EdgeOf(d) \in Edges /\ IsLine(Path(geom, d))
      /\ Path(geom, d) \in {geom[EdgeOf(d)], Reverse(geom[EdgeOf(d)])}
  BY <1>1, PathFacts DEF Edges
<1>4. CASE d > 0
  <2>1. d \in Edges /\ Path(geom, d) = geom[d]  BY <1>1, <1>4 DEF Path
  <2>2. geom[d][1] = at[org[d]]  BY <1>1, <2>1 DEF Drawn, Edges
  <2>3. QED  BY <1>2, <1>3, <2>1, <2>2
<1>5. CASE ~(d > 0)
  <2>1. -d \in Edges /\ Path(geom, d) = Reverse(geom[-d]) /\ IsLine(geom[-d])
    BY <1>1, <1>5 DEF Path
  <2>2. Last(geom[-d]) = at[org[d]]  BY <1>1, <2>1 DEF Drawn, Edges
  <2>3. Reverse(geom[-d])[1] = Last(geom[-d])  BY <2>1, ReverseLine
  <2>4. QED  BY <1>2, <1>3, <2>1, <2>2, <2>3
<1>6. QED  BY <1>4, <1>5

LEMMA NewEdge ==
  ASSUME TopoInv, NEW e \in L!NewEdgeIds(Edges)
  PROVE  /\ e \in Int /\ e > 0 /\ e # -e /\ -(-e) = e /\ e # 0
         /\ e \notin Darts /\ -e \notin Darts
         /\ e \in L!NewEdgeIds(L!Edges) /\ e \in LP!NewEdgeIds(LP!Edges)
<1>1. LP!LinkInv  BY DEF TopoInv
<1>2. Edges = {d \in Darts : d > 0}  BY InvFacts
<1>3. Edges = L!Edges /\ Edges = LP!Edges
  BY <1>2 DEF L!Edges, LP!Edges, L!Darts, LP!Darts, Darts
<1>4. e \in L!NewEdgeIds(L!Edges) /\ e \in LP!NewEdgeIds(LP!Edges)
  BY <1>3 DEF L!NewEdgeIds, LP!NewEdgeIds, L!EdgeIds, LP!EdgeIds
<1>5. e \notin Darts /\ -e \notin Darts /\ e # -e
  BY <1>1, <1>4, Linking, LP!Fresh DEF LP!Darts, Darts
<1>6. e \in Int /\ e > 0  BY TopologyAssumption DEF L!NewEdgeIds, L!EdgeIds
<1>7. QED  BY <1>4, <1>5, <1>6

-----------------------------------------------------------------------------
(* What the lookups return.                                                 *)

\* nextCW and nextCCW return one of the darts, whatever their azimuths.
LEMMA NextAmong ==
  ASSUME NEW S, S # {}, NEW z, \A x \in S : z[x] \in 0 .. 7, NEW a \in 0 .. 7
  PROVE  L!nextCW(S, z, a) \in S /\ L!nextCCW(S, z, a) \in S
<1> DEFINE dif(x) == L!azdif(a, z[x])
<1>1. \A x \in S : dif(x) \in 0 .. 7  BY DEF L!azdif
<1> HIDE DEF dif
<1>2. \E x \in S : \A y \in S : dif(x) <= dif(y)
  <2> DEFINE T == {dif(x) : x \in S}
  <2>1. T \in SUBSET Nat /\ T # {}  BY <1>1
  <2>2. \E t \in T : \A u \in T : t <= u
    <3> HIDE DEF T
    <3> QED  BY <2>1, Linking, LP!LeastNat
  <2>3. QED  BY <2>2
<1>3. \E x \in S : \A y \in S : dif(y) <= dif(x)
  <2> DEFINE T == {7 - dif(x) : x \in S}
  <2>1. T \in SUBSET Nat /\ T # {}  BY <1>1
  <2>2. \E t \in T : \A u \in T : t <= u
    <3> HIDE DEF T
    <3> QED  BY <2>1, Linking, LP!LeastNat
  <2>3. PICK x \in S : \A y \in S : 7 - dif(x) <= 7 - dif(y)  BY <2>2
  <2>4. QED  BY <1>1, <2>3
<1>4. L!nextCW(S, z, a) \in S  BY <1>2, Zenon DEF L!nextCW, dif
<1>5. L!nextCCW(S, z, a) \in S  BY <1>3, Zenon DEF L!nextCCW, dif
<1>6. QED  BY <1>4, <1>5

\* The faces around a node are faces of its darts, if it has any.
LEMMA AdjacentFaces ==
  ASSUME TopoInv, NEW n, NEW z, NEW a \in 0 .. 7, NEW other,
         \A x \in L!Out(n) \cup other : z[x] \in 0 .. 7
  PROVE  /\ _lwt_FindAdjacentEdges(n, z, a, other).cw \in Nat \cup {None}
         /\ _lwt_FindAdjacentEdges(n, z, a, other).ccw \in Nat \cup {None}
         /\ other = {} /\ L!Out(n) # {} => _lwt_FindAdjacentEdges(n, z, a, other).cw \in Nat
<1> DEFINE adj == _lwt_FindAdjacentEdges(n, z, a, other)
           S == L!Out(n) \cup other
           cw == L!nextCW(S, z, a)
           ccw == L!nextCCW(S, z, a)
<1>1. CASE L!Out(n) = {}
  <2>1. adj = [cw |-> None, ccw |-> None]  BY <1>1 DEF _lwt_FindAdjacentEdges
  <2>2. QED  BY <1>1, <2>1
<1>2. CASE L!Out(n) # {}
  <2>1. adj = [cw  |-> IF cw \in other THEN None ELSE side[cw],
               ccw |-> IF ccw \in other THEN None ELSE side[-ccw]]
    BY <1>2 DEF _lwt_FindAdjacentEdges
  <2>2. cw \in S /\ ccw \in S  BY <1>2, NextAmong
  <2>3. \A d \in L!Out(n) : side[d] \in Nat /\ side[-d] \in Nat
    BY InvFacts DEF L!Out, L!Darts, Darts
  <2> HIDE DEF cw, ccw, adj
  <2>4. (cw \in other \/ side[cw] \in Nat) /\ (ccw \in other \/ side[-ccw] \in Nat)
    BY <2>2, <2>3
  <2>5. /\ adj.cw = IF cw \in other THEN None ELSE side[cw]
        /\ adj.ccw = IF ccw \in other THEN None ELSE side[-ccw]
    BY <2>1
  <2>6. adj.cw \in Nat \cup {None} /\ adj.ccw \in Nat \cup {None}
        /\ (other = {} => adj.cw \in Nat)
    BY <2>4, <2>5
  <2>7. QED  BY <2>6 DEF adj
<1>3. QED  BY <1>1, <1>2

LEMMA NearestAmong ==
  ASSUME NEW S \in SUBSET Nat, S # {}, NEW f, DOMAIN f = S, \A i \in S : f[i] \in Nat
  PROVE  Nearest(f) \in S
<1> DEFINE T == {f[x] : x \in S}
           least == Min(Range(f))
           R == {i \in S : f[i] = least}
<1>1. Range(f) = T  BY DEF Range
<1>2. T \in SUBSET Nat /\ T # {}  OBVIOUS
<1>3. least \in T
  <2> HIDE DEF T
  <2>1. QED  BY <1>1, <1>2, LeastOf
<1>4. R \in SUBSET Nat /\ R # {}  BY <1>3
<1>5. Nearest(f) = Min(R)  BY DEF Nearest
<1>6. Min(R) \in R
  <2> HIDE DEF R
  <2>1. QED  BY <1>4, LeastOf
<1>7. QED  BY <1>5, <1>6

LEMMA SquareNat == \A i \in Int : i * i \in Nat
<1> TAKE i \in Int
<1>1. CASE i >= 0  BY <1>1
<1>2. CASE i < 0
  <2>1. -i \in Nat /\ i * i = (-i) * (-i)  BY <1>2
  <2>2. \A j \in Nat : j * j \in Nat  OBVIOUS
  <2>3. QED  BY <2>1, <2>2
<1>3. QED  BY <1>1, <1>2

LEMMA DistanceNat ==
  ASSUME NEW a \in Int \X Int, NEW b \in Int \X Int, NEW q \in Int \X Int
  PROVE  Distance(a, b, q) \in Nat
<1> DEFINE off(lo, hi, x) == IF x < lo THEN lo - x ELSE IF x > hi THEN x - hi ELSE 0
           axis(i) == IF a[i] < b[i] THEN off(2 * a[i], 2 * b[i], q[i])
                      ELSE off(2 * b[i], 2 * a[i], q[i])
<1>1. axis(1) \in Int /\ axis(2) \in Int  OBVIOUS
<1>2. Distance(a, b, q) = axis(1) * axis(1) + axis(2) * axis(2)  BY DEF Distance
<1> HIDE DEF axis
<1>3. axis(1) * axis(1) \in Nat /\ axis(2) * axis(2) \in Nat  BY <1>1, SquareNat
<1>4. QED  BY <1>2, <1>3

LEMMA PointsAreInts == \A p \in Vertices : p \in Int \X Int /\ Twice(p) \in Int \X Int
  BY GridAssumption DEF Vertices, Twice

\* GetFaceContainingPoint returns a face.
LEMMA FaceLookup ==
  ASSUME TopoInv, NEW p \in Vertices, ~ExistsEdgeIntersectingPoint(p)
  PROVE  lwt_GetFaceContainingPoint(Twice(p)) \in Nat
<1> DEFINE q == Twice(p)
           seg(line) == ptarray_closest_segment_2d(line, q)
<1>1. p \in Int \X Int /\ q \in Int \X Int  BY PointsAreInts
<1>2. ASSUME NEW line, IsLine(line)
      PROVE  /\ seg(line) \in 1 .. Len(line) - 1
             /\ Distance(line[seg(line)], line[seg(line) + 1], q) \in Nat
  <2> DEFINE f == [i \in 1 .. Len(line) - 1 |-> Distance(line[i], line[i + 1], q)]
             S == 1 .. Len(line) - 1
  <2>1. Len(line) \in Nat /\ Len(line) > 1 /\ \A i \in 1 .. Len(line) : line[i] \in Vertices
    BY <1>2, LineFacts
  <2>2. \A i \in S : i \in 1 .. Len(line) /\ i + 1 \in 1 .. Len(line)  BY <2>1
  <2>3. \A i \in S : Distance(line[i], line[i + 1], q) \in Nat
    BY <1>1, <2>1, <2>2, PointsAreInts, DistanceNat
  <2>4. S \in SUBSET Nat /\ S # {} /\ DOMAIN f = S /\ \A i \in S : f[i] \in Nat
    <3>1. 1 \in S  BY <2>1
    <3>2. DOMAIN f = S /\ \A i \in S : f[i] = Distance(line[i], line[i + 1], q)
      OBVIOUS
    <3>3. S \in SUBSET Nat  BY <2>1
    <3> HIDE DEF f, S
    <3>4. QED  BY <2>3, <3>1, <3>2, <3>3
  <2>5. seg(line) = Nearest(f)  BY DEF ptarray_closest_segment_2d
  <2>6. seg(line) \in S
    <3> HIDE DEF f, S, seg
    <3>1. QED  BY <2>4, <2>5, NearestAmong
  <2>7. QED  BY <2>3, <2>6
<1> HIDE DEF q, seg
<1>3. CASE Edges = {}  BY <1>3 DEF lwt_GetFaceContainingPoint, Universe, q
<1>4. CASE Edges # {}
  <2> DEFINE e == getClosestEdge(q)
             line == geom[e]
             i == ptarray_closest_segment_2d(line, q)
             a == line[i]
             b == line[i + 1]
             r == (q[1] - 2 * a[1]) * (b[1] - a[1]) + (q[2] - 2 * a[2]) * (b[2] - a[2])
             v == IF r <= 0 THEN i ELSE IF r >= 2 THEN i + 1 ELSE 0
             n == IF v = 1 THEN org[e] ELSE org[-e]
             around == _lwt_FindAdjacentEdges(n, az, azimuth_pt_pt(Twice(line[v]), q), {}).cw
  <2>1. e \in Edges
    <3> DEFINE f == [x \in Edges |-> LET j == ptarray_closest_segment_2d(geom[x], q)
                                     IN  Distance(geom[x][j], geom[x][j + 1], q)]
    <3>1. \A x \in Edges : f[x] \in Nat  BY <1>2, InvFacts DEF seg
    <3>2. Edges \in SUBSET Nat /\ DOMAIN f = Edges  BY InvFacts
    <3>3. e = Nearest(f)  BY DEF getClosestEdge
    <3> HIDE DEF e, f
    <3>4. QED  BY <1>4, <3>1, <3>2, <3>3, NearestAmong
  <2>2. IsLine(line) /\ i \in 1 .. Len(line) - 1 /\ e \in Darts /\ -e \in Darts
    BY <1>2, <2>1, InvFacts DEF seg
  <2>3. lwt_GetFaceContainingPoint(q) \in {around, side[e], side[-e]}
        /\ (v # 1 /\ v # Len(line) => lwt_GetFaceContainingPoint(q) \in {side[e], side[-e]})
    BY <1>4 DEF lwt_GetFaceContainingPoint
  <2>4. side[e] \in Nat /\ side[-e] \in Nat  BY <2>2, InvFacts
  <2>5. CASE v = 1 \/ v = Len(line)
    <3>1. v \in 1 .. Len(line) /\ line[v] \in Vertices
      <4>1. Len(line) \in Nat /\ Len(line) > 1 /\ \A j \in 1 .. Len(line) : line[j] \in Vertices
        BY <2>2, LineFacts
      <4> HIDE DEF v, line
      <4>2. QED  BY <2>5, <4>1
    <3> HIDE DEF i, r, v
    <3>2. line[v] # p
      <4>1. p \notin Range(line)  BY <2>1 DEF ExistsEdgeIntersectingPoint
      <4>2. DOMAIN line = 1 .. Len(line)  BY <2>2, LineFacts
      <4>3. line[v] \in Range(line)  BY <3>1, <4>2 DEF Range
      <4>4. QED  BY <4>1, <4>3
    <3>3. Twice(line[v]) # q
      <4>1. line[v] \in Int \X Int  BY <3>1, PointsAreInts
      <4>2. \A x, y \in Int \X Int : x # y => Twice(x) # Twice(y)
        <5> TAKE x, y \in Int \X Int
        <5>1. x = <<x[1], x[2]>> /\ y = <<y[1], y[2]>>  OBVIOUS
        <5>2. Twice(x) = Twice(y) => x[1] = y[1] /\ x[2] = y[2]
          <6> HAVE Twice(x) = Twice(y)
          <6>1. <<2 * x[1], 2 * x[2]>> = <<2 * y[1], 2 * y[2]>>  BY DEF Twice
          <6>2. 2 * x[1] = 2 * y[1] /\ 2 * x[2] = 2 * y[2]  BY <6>1
          <6>3. x[1] \in Int /\ x[2] \in Int /\ y[1] \in Int /\ y[2] \in Int  OBVIOUS
          <6>4. QED  BY <6>2, <6>3
        <5>3. QED  BY <5>1, <5>2
      <4>3. QED  BY <1>1, <3>2, <4>1, <4>2 DEF q
    <3>4. azimuth_pt_pt(Twice(line[v]), q) \in 0 .. 7
      BY <1>1, <3>1, <3>3, PointsAreInts, Azimuth
    <3>5. L!Out(n) # {} /\ \A x \in L!Out(n) \cup {} : az[x] \in 0 .. 7
      <4>1. L!Out(n) = {d \in Darts : org[d] = n}  BY DEF L!Out, L!Darts, Darts
      <4>2. e \in L!Out(n) \/ -e \in L!Out(n)  BY <2>2, <4>1
      <4> HIDE DEF n
      <4>3. QED  BY <4>1, <4>2, InvFacts
    <3>6. around \in Nat
      <4> HIDE DEF n, line
      <4>1. QED  BY <3>4, <3>5, AdjacentFaces
    <3>7. QED  BY <2>3, <2>4, <3>6 DEF q
  <2>6. CASE ~(v = 1 \/ v = Len(line))
    <3> HIDE DEF e, v, around, line
    <3>1. QED  BY <2>3, <2>4, <2>6 DEF q
  <2>7. QED  BY <2>5, <2>6
<1>5. QED  BY <1>3, <1>4

-----------------------------------------------------------------------------
(* Operations on isolated nodes and edges.                                  *)

LEMMA NextTurning == az' = Turning(geom', Darts')
  BY DEF az, Turning

\* Nodes without edges may come, go and move.
LEMMA DrawnElsewhere ==
  ASSUME TopoInv, NEW a, \A d \in Darts : a[org[d]] = at[org[d]]
  PROVE  Drawn(geom, org, a)
<1>1. /\ Drawn(geom, org, at) /\ DOMAIN geom = {d \in Darts : d > 0}
      /\ \A d \in Darts : -d \in Darts
  BY InvFacts DEF Edges
<1>2. ASSUME NEW e \in DOMAIN geom
      PROVE  geom[e][1] = a[org[e]] /\ Last(geom[e]) = a[org[-e]]
  <2>1. e \in Darts /\ -e \in Darts  BY <1>1
  <2>2. QED  BY <1>1, <2>1 DEF Drawn
<1>3. QED  BY <1>2 DEF Drawn

LEMMA AddIsoNodeStep ==
  ASSUME TopoInv, NEW n \in Nodes, NEW p \in Sites, AddIsoNode(n, p)
  PROVE  L!LinkAddIsoNode(n) /\ Tables(at', inface', geom', org', Darts', side')
<1> DEFINE f == lwt_GetFaceContainingPoint(Twice(p))
<1>1. /\ n \notin DOMAIN at /\ ~ExistsEdgeIntersectingPoint(p)
      /\ at' = WithEdge(at, n, p) /\ inface' = WithEdge(inface, n, f)
      /\ geom' = geom /\ org' = org /\ next' = next /\ side' = side
  BY DEF AddIsoNode
<1>2. p \in Vertices /\ f \in Nat
  <2>1. p \in Vertices  BY TopologyAssumption
  <2>2. QED  BY <1>1, <2>1, FaceLookup
<1> HIDE DEF f
<1>3. /\ DOMAIN at' = DOMAIN at \cup {n} /\ at'[n] = p
      /\ \A k \in DOMAIN at : at'[k] = at[k]
      /\ at' = [k \in DOMAIN at' |-> at'[k]]
  BY <1>1 DEF WithEdge
<1>4. /\ DOMAIN inface' = DOMAIN at \cup {n} /\ inface'[n] = f
      /\ \A k \in DOMAIN at : inface'[k] = inface[k]
  BY <1>1, InvFacts DEF WithEdge
<1>5. Darts' = Darts /\ az' = az  BY <1>1 DEF az, Darts
<1>6. L!LinkAddIsoNode(n)  BY <1>1, <1>3, <1>5 DEF L!LinkAddIsoNode
<1>7. Drawn(geom', org', at')  BY <1>1, <1>3, InvFacts, DrawnElsewhere
<1>8. Faced(DOMAIN at', inface', org', Darts', side')
  <2>1. Faced(DOMAIN at, inface, org, Darts, side)  BY DEF TopoInv, Tables
  <2>2. \A d \in Darts : org[d] # n  BY <1>1, InvFacts
  <2>3. f # None  BY <1>2 DEF None
  <2>4. QED  BY <1>1, <1>2, <1>3, <1>4, <1>5, <2>1, <2>2, <2>3 DEF Faced
<1>9. at' \in [DOMAIN at' -> Vertices]
  <2>1. at \in [DOMAIN at -> Vertices]  BY InvFacts
  <2>2. \A k \in DOMAIN at' : at'[k] \in Vertices  BY <1>2, <1>3, <2>1
  <2>3. QED  BY <1>3, <2>2
<1>10. Lined(geom', Darts') /\ TakenOnce(geom')  BY <1>1, <1>5, InvFacts
<1>11. QED  BY <1>6, <1>7, <1>8, <1>9, <1>10 DEF Tables

LEMMA MoveIsoNodeStep ==
  ASSUME TopoInv, NEW n \in DOMAIN at, NEW p \in Sites, MoveIsoNode(n, p)
  PROVE  /\ UNCHANGED <<DOMAIN at, org, az, next>>
         /\ Tables(at', inface', geom', org', Darts', side')
<1>1. /\ inface[n] # None /\ at' = [at EXCEPT ![n] = p] /\ inface' = inface
      /\ geom' = geom /\ org' = org /\ next' = next /\ side' = side
  BY DEF MoveIsoNode
<1>2. p \in Vertices /\ at \in [DOMAIN at -> Vertices]  BY TopologyAssumption, InvFacts
<1>3. DOMAIN at' = DOMAIN at /\ at' \in [DOMAIN at' -> Vertices]
      /\ \A k \in DOMAIN at : k # n => at'[k] = at[k]
  BY <1>1, <1>2
<1>4. Darts' = Darts /\ az' = az  BY <1>1 DEF az, Darts
<1>5. \A d \in Darts : org[d] # n /\ org[d] \in DOMAIN at
  BY <1>1, InvFacts DEF L!Out, L!Darts, Darts
<1>6. Drawn(geom', org', at')  BY <1>1, <1>3, <1>5, DrawnElsewhere
<1>7. Faced(DOMAIN at', inface', org', Darts', side')
  BY <1>1, <1>3, <1>4 DEF TopoInv, Tables
<1>8. Lined(geom', Darts') /\ TakenOnce(geom')  BY <1>1, <1>4, InvFacts
<1>9. QED  BY <1>1, <1>3, <1>4, <1>6, <1>7, <1>8 DEF Tables

LEMMA RemoveIsoNodeStep ==
  ASSUME TopoInv, NEW n \in DOMAIN at, RemoveIsoNode(n)
  PROVE  L!LinkRemoveIsoNode(n) /\ Tables(at', inface', geom', org', Darts', side')
<1>1. /\ inface[n] # None
      /\ at' = [m \in DOMAIN at \ {n} |-> at[m]]
      /\ inface' = [m \in DOMAIN at \ {n} |-> inface[m]]
      /\ geom' = geom /\ org' = org /\ next' = next /\ side' = side
  BY DEF RemoveIsoNode
<1>2. /\ DOMAIN at' = DOMAIN at \ {n} /\ DOMAIN inface' = DOMAIN at \ {n}
      /\ \A k \in DOMAIN at \ {n} : at'[k] = at[k] /\ inface'[k] = inface[k]
  BY <1>1
<1>3. Darts' = Darts /\ az' = az  BY <1>1 DEF az, Darts
<1>4. L!Out(n) = {}  BY <1>1, InvFacts
<1>5. L!LinkRemoveIsoNode(n)  BY <1>1, <1>2, <1>3, <1>4 DEF L!LinkRemoveIsoNode
<1>6. \A d \in Darts : org[d] # n /\ org[d] \in DOMAIN at
  BY <1>4, InvFacts DEF L!Out, L!Darts, Darts
<1>7. Drawn(geom', org', at')  BY <1>1, <1>2, <1>6, DrawnElsewhere
<1>8. Faced(DOMAIN at', inface', org', Darts', side')
  <2>1. Faced(DOMAIN at, inface, org, Darts, side)  BY DEF TopoInv, Tables
  <2>2. QED  BY <1>1, <1>2, <1>3, <2>1 DEF Faced
<1>9. at' \in [DOMAIN at' -> Vertices]
  <2>1. at \in [DOMAIN at -> Vertices]  BY InvFacts
  <2>2. QED  BY <1>1, <1>2, <2>1
<1>10. Lined(geom', Darts') /\ TakenOnce(geom')  BY <1>1, <1>3, InvFacts
<1>11. QED  BY <1>5, <1>7, <1>8, <1>9, <1>10 DEF Tables

\* What LegalEdge says of a new line from m to n.
LEMMA LegalFacts ==
  ASSUME TopoInv, NEW m, NEW n, NEW g \in Lines, LegalEdge(m, n, g)
  PROVE  /\ IsLine(g) /\ lwgeom_is_simple(g) /\ at[m] = g[1] /\ at[n] = Last(g)
         /\ \A f \in Edges : ~InteriorsMeet(geom[f], g)
<1>1. /\ IsLine(g) /\ lwgeom_is_simple(g) /\ at[m] = g[1] /\ at[n] = Last(g)
      /\ ~CheckEdgeCrossing(g, {m, n}, 0)
  BY LinesAreLines DEF LegalEdge
<1>2. 0 \notin Edges  BY InvFacts
<1>3. QED  BY <1>1, <1>2 DEF CheckEdgeCrossing

\* Lines, azimuths and links with the new edge e from m to n.
LEMMA LineAdded ==
  ASSUME TopoInv, NEW e \in L!NewEdgeIds(Edges), NEW m \in DOMAIN at, NEW n \in DOMAIN at,
         NEW g, IsLine(g), lwgeom_is_simple(g), at[m] = g[1], at[n] = Last(g),
         \A f \in Edges : ~InteriorsMeet(geom[f], g),
         NEW H, H = WithEdge(geom, e, g), NEW o, o = L!With(org, e, m, n)
  PROVE  /\ Lined(H, Darts \cup {e, -e}) /\ Drawn(H, o, at) /\ TakenOnce(H)
         /\ Turning(H, Darts \cup {e, -e}) = L!With(az, e, Leaving(g), Arriving(g))
<1>1. /\ Lined(geom, Darts) /\ Drawn(geom, org, at) /\ TakenOnce(geom)
      /\ az = Turning(geom, Darts) /\ DOMAIN org = Darts
      /\ DOMAIN geom = {d \in Darts : d > 0} /\ \A d \in Darts : -d \in Darts /\ -(-d) = d
  BY InvFacts DEF Edges
<1>2. e \in Int /\ e > 0 /\ e # -e /\ -(-e) = e /\ e \notin Darts /\ -e \notin Darts
  BY NewEdge
<1>3. /\ Lined(H, Darts \cup {e, -e})
      /\ Turning(H, Darts \cup {e, -e}) = L!With(az, e, Leaving(g), Arriving(g))
  BY <1>1, <1>2, TurningWith
<1>4. DOMAIN H = DOMAIN geom \cup {e} /\ H[e] = g /\ \A f \in DOMAIN geom \ {e} : H[f] = geom[f]
  BY DEF WithEdge
<1>5. TakenOnce(H)
  <2>1. \A f \in DOMAIN geom \ {e} : H[f] = geom[f] /\ ~InteriorsMeet(geom[f], g)
    BY <1>4 DEF Edges
  <2>2. QED  BY <1>1, <1>4, <2>1, OnceWith
<1>6. /\ o[e] = m /\ o[-e] = n
      /\ \A d \in Darts : d # e /\ d # -e /\ o[d] = org[d]
  BY <1>1, <1>2 DEF L!With
<1>7. ASSUME NEW f \in DOMAIN H  PROVE H[f][1] = at[o[f]] /\ Last(H[f]) = at[o[-f]]
  <2>1. CASE f = e  BY <1>4, <1>6, <2>1
  <2>2. CASE f # e
    <3>1. f \in DOMAIN geom /\ H[f] = geom[f] /\ f \in Darts /\ -f \in Darts
      BY <1>1, <1>4, <2>2
    <3>2. QED  BY <1>1, <1>6, <3>1 DEF Drawn
  <2>3. QED  BY <2>1, <2>2
<1>8. QED  BY <1>3, <1>5, <1>7 DEF Drawn

LEMMA AddIsoEdgeStep ==
  ASSUME TopoInv, NEW e \in L!NewEdgeIds(Edges), NEW m \in DOMAIN at, NEW n \in DOMAIN at,
         NEW g \in Lines, AddIsoEdge(e, m, n, g)
  PROVE  /\ L!LinkAddIsoEdge(e, m, n, Leaving(g), Arriving(g))
         /\ Tables(at', inface', geom', org', Darts', side')
<1>1. /\ m # n /\ inface[m] # None /\ inface[n] # None /\ LegalEdge(m, n, g)
      /\ geom' = WithEdge(geom, e, g) /\ org' = L!With(org, e, m, n)
      /\ next' = L!With(next, e, -e, e) /\ side' = L!With(side, e, inface[m], inface[m])
      /\ inface' = [inface EXCEPT ![m] = None, ![n] = None] /\ at' = at
  BY DEF AddIsoEdge
<1>2. e # -e /\ e \notin Darts /\ -e \notin Darts  BY NewEdge
<1>3. Darts' = Darts \cup {e, -e}  BY <1>1 DEF Darts, L!With
<1>4. /\ Lined(geom', Darts') /\ Drawn(geom', org', at) /\ TakenOnce(geom')
      /\ Turning(geom', Darts') = L!With(az, e, Leaving(g), Arriving(g))
  <2>1. /\ IsLine(g) /\ lwgeom_is_simple(g) /\ at[m] = g[1] /\ at[n] = Last(g)
        /\ \A f \in Edges : ~InteriorsMeet(geom[f], g)
    BY <1>1, LegalFacts
  <2>2. geom' = WithEdge(geom, e, g) /\ org' = L!With(org, e, m, n)  BY <1>1
  <2>3. /\ Lined(geom', Darts \cup {e, -e}) /\ Drawn(geom', org', at) /\ TakenOnce(geom')
        /\ Turning(geom', Darts \cup {e, -e}) = L!With(az, e, Leaving(g), Arriving(g))
    BY ONLY TopoInv, e \in L!NewEdgeIds(Edges), m \in DOMAIN at, n \in DOMAIN at,
            <2>1, <2>2, LineAdded
  <2>4. QED  BY <1>3, <2>3
<1>5. az' = L!With(az, e, Leaving(g), Arriving(g))  BY <1>4, NextTurning
<1>6. L!Out(m) = {} /\ L!Out(n) = {}  BY <1>1, InvFacts
<1>7. L!LinkAddIsoEdge(e, m, n, Leaving(g), Arriving(g))
  BY <1>1, <1>5, <1>6 DEF L!LinkAddIsoEdge
<1>8. Faced(DOMAIN at, inface', org', Darts', side')
  <2>1. Faced(DOMAIN at, inface, org, Darts, side)  BY DEF TopoInv, Tables
  <2>2. side' \in [Darts' -> Nat]
    <3>1. side \in [Darts -> Nat] /\ inface[m] \in Nat
      BY <1>1, <2>1 DEF Faced
    <3>2. QED  BY <1>1, <1>3, <3>1 DEF L!With
  <2>3. /\ DOMAIN inface' = DOMAIN at /\ inface'[m] = None /\ inface'[n] = None
        /\ \A k \in DOMAIN at : k # m /\ k # n => inface'[k] = inface[k]
    <3>1. DOMAIN inface = DOMAIN at  BY <2>1 DEF Faced
    <3>2. QED  BY <1>1, <3>1
  <2>4. /\ org'[e] = m /\ org'[-e] = n
        /\ \A d \in Darts : d \in Darts' /\ org'[d] = org[d]
        /\ \A d \in Darts' : d = e \/ d = -e \/ d \in Darts
    BY <1>1, <1>2, <1>3, InvFacts DEF L!With
  <2>5. e \in Darts' /\ -e \in Darts'  BY <1>3
  <2>6. ASSUME NEW k \in DOMAIN at
        PROVE  inface'[k] \in Nat \cup {None} /\ (inface'[k] = None <=> \E d \in Darts' : org'[d] = k)
    <3>1. CASE k = m \/ k = n  BY <2>3, <2>4, <2>5, <3>1
    <3>2. CASE k # m /\ k # n
      <4>1. inface[k] \in Nat \cup {None} /\ (inface[k] = None <=> \E d \in Darts : org[d] = k)
        BY <2>1 DEF Faced
      <4>2. (\E d \in Darts : org[d] = k) <=> \E d \in Darts' : org'[d] = k
        BY <2>4, <3>2
      <4>3. QED  BY <2>3, <3>2, <4>1, <4>2
    <3>3. QED  BY <3>1, <3>2
  <2>7. QED  BY <2>2, <2>3, <2>6 DEF Faced
<1>9. at \in [DOMAIN at -> Vertices]  BY InvFacts
<1>10. QED  BY <1>1, <1>4, <1>7, <1>8, <1>9 DEF Tables

\* The last edge of two nodes.
LEMMA LineRemoved ==
  ASSUME TopoInv, NEW e \in Edges, NEW H, H = [x \in Edges \ {e} |-> geom[x]],
         NEW o, o = L!Without(org, e)
  PROVE  /\ Lined(H, Darts \ {e, -e}) /\ Drawn(H, o, at) /\ TakenOnce(H)
         /\ Turning(H, Darts \ {e, -e}) = L!Without(az, e)
<1>1. /\ Lined(geom, Darts) /\ Drawn(geom, org, at) /\ TakenOnce(geom)
      /\ az = Turning(geom, Darts) /\ DOMAIN org = Darts
      /\ DOMAIN geom = {d \in Darts : d > 0} /\ \A d \in Darts : -d \in Darts /\ -(-d) = d
      /\ e \in DOMAIN geom
  BY InvFacts DEF Edges
<1>2. /\ Lined(H, Darts \ {e, -e})
      /\ Turning(H, Darts \ {e, -e}) = L!Without(az, e)
  <2>1. LessLine(H, geom, e)  BY DEF LessLine, Edges
  <2>2. /\ Lined(H, Darts \ {e, -e})
        /\ Turning(H, Darts \ {e, -e}) = L!Without(Turning(geom, Darts), e)
    BY ONLY <1>1, <2>1, TurningWithout
  <2>3. QED  BY <1>1, <2>2
<1>3. DOMAIN H = DOMAIN geom \ {e} /\ \A f \in DOMAIN H : H[f] = geom[f]  BY DEF Edges
<1>4. TakenOnce(H)  BY <1>1, <1>3, OnceWithout
<1>5. \A d \in Darts \ {e, -e} : o[d] = org[d]  BY <1>1 DEF L!Without
<1>6. ASSUME NEW f \in DOMAIN H  PROVE H[f][1] = at[o[f]] /\ Last(H[f]) = at[o[-f]]
  <2>1. f \in Darts \ {e, -e} /\ -f \in Darts \ {e, -e}
    BY <1>2, <1>3 DEF Lined
  <2>2. QED  BY <1>1, <1>3, <1>5, <2>1 DEF Drawn
<1>7. QED  BY <1>2, <1>4, <1>6 DEF Drawn

LEMMA RemIsoEdgeStep ==
  ASSUME TopoInv, NEW e \in Edges, RemIsoEdge(e)
  PROVE  L!LinkRemEdge(e) /\ Tables(at', inface', geom', org', Darts', side')
<1>1. /\ L!Out(org[e]) \cup L!Out(org[-e]) = {e, -e}
      /\ geom' = [x \in Edges \ {e} |-> geom[x]] /\ org' = L!Without(org, e)
      /\ next' = L!Without(next, e) /\ side' = L!Without(side, e) /\ at' = at
      /\ inface' = [n \in DOMAIN at |-> IF n \in {org[e], org[-e]} THEN side[e] ELSE inface[n]]
  BY DEF RemIsoEdge
<1>2. /\ e \in Darts /\ -e \in Darts /\ DOMAIN org = Darts /\ DOMAIN next = Darts
      /\ side \in [Darts -> Nat] /\ \A d \in Darts : -d \in Darts /\ -(-d) = d
  BY InvFacts DEF Darts
<1>3. Darts' = Darts \ {e, -e}  BY <1>1 DEF Darts, L!Without
<1>4. /\ Lined(geom', Darts') /\ Drawn(geom', org', at) /\ TakenOnce(geom')
      /\ Turning(geom', Darts') = L!Without(az, e)
  BY <1>1, <1>3, LineRemoved
<1>5. az' = L!Without(az, e)  BY <1>4, NextTurning
<1>6. \A n : L!Out(n) = {d \in Darts : org[d] = n}  BY DEF L!Out, L!Darts, Darts
<1>7. \A d \in Darts \ {e, -e} : org[d] \notin {org[e], org[-e]}  BY <1>1, <1>6
<1>8. next' = L!RemLinks(org, next, e)
  <2>1. ASSUME NEW d \in Darts \ {e, -e}  PROVE {org[d], org[-d]} \cap {org[e], org[-e]} = {}
    <3>1. -d \in Darts \ {e, -e}  BY <1>2
    <3>2. QED  BY <1>7, <3>1
  <2>2. QED  BY <1>1, <1>2, <2>1 DEF L!RemLinks, L!Without
<1>9. L!LinkRemEdge(e)  BY <1>1, <1>5, <1>8 DEF L!LinkRemEdge
<1>10. Faced(DOMAIN at, inface', org', Darts', side')
  <2>1. Faced(DOMAIN at, inface, org, Darts, side)  BY DEF TopoInv, Tables
  <2>2. side' \in [Darts' -> Nat] /\ side[e] \in Nat
    BY <1>1, <1>2, <1>3 DEF L!Without
  <2>3. DOMAIN inface' = DOMAIN at  BY <1>1
  <2>4. \A d \in Darts' : d \in Darts /\ org'[d] = org[d] /\ org[d] \notin {org[e], org[-e]}
    BY <1>1, <1>2, <1>3, <1>7 DEF L!Without
  <2>5. ASSUME NEW k \in DOMAIN at
        PROVE  inface'[k] \in Nat \cup {None} /\ (inface'[k] = None <=> \E d \in Darts' : org'[d] = k)
    <3>1. CASE k \in {org[e], org[-e]}
      <4>1. inface'[k] = side[e] /\ side[e] # None  BY <1>1, <2>2, <3>1 DEF None
      <4>2. QED  BY <2>2, <2>4, <3>1, <4>1
    <3>2. CASE k \notin {org[e], org[-e]}
      <4>1. inface[k] \in Nat \cup {None} /\ (inface[k] = None <=> \E d \in Darts : org[d] = k)
        BY <2>1 DEF Faced
      <4>2. (\E d \in Darts : org[d] = k) <=> \E d \in Darts' : org'[d] = k
        <5>1. \A d \in Darts : org[d] = k => d \in Darts'  BY <1>3, <3>2
        <5>2. QED  BY <2>4, <5>1
      <4>3. inface'[k] = inface[k]  BY <1>1, <3>2
      <4>4. QED  BY <4>1, <4>2, <4>3
    <3>3. QED  BY <3>1, <3>2
  <2>6. QED  BY <2>2, <2>3, <2>5 DEF Faced
<1>11. at \in [DOMAIN at -> Vertices]  BY InvFacts
<1>12. QED  BY <1>1, <1>4, <1>9, <1>10, <1>11 DEF Tables

-----------------------------------------------------------------------------
(* Edges that may split a face.                                             *)

\* A dart does not leave its node the way a line does that meets no edge.
LEMMA FreeDart ==
  ASSUME TopoInv, NEW d \in Darts, NEW g, IsLine(g), ~InteriorsMeet(geom[EdgeOf(d)], g),
         NEW h \in {g, Reverse(g)}, h[1] = at[org[d]]
  PROVE  az[d] # Leaving(h)
<1>1. /\ Path(geom, d)[1] = at[org[d]] /\ az[d] = Leaving(Path(geom, d))
      /\ EdgeOf(d) \in Edges
      /\ Path(geom, d) \in {geom[EdgeOf(d)], Reverse(geom[EdgeOf(d)])}
  BY DartFacts
<1>2. IsLine(geom[EdgeOf(d)])  BY <1>1, InvFacts
<1>3. Leaving(Path(geom, d)) # Leaving(h)  BY <1>1, <1>2, ApartEnds
<1>4. QED  BY <1>1, <1>3

LEMMA NewEdgeLinked ==
  ASSUME TopoInv, NEW e \in L!NewEdgeIds(Edges), NEW m \in DOMAIN at, NEW n \in DOMAIN at,
         NEW g, IsLine(g), lwgeom_is_simple(g), at[m] = g[1], at[n] = Last(g),
         \A f \in Edges : ~InteriorsMeet(geom[f], g)
  PROVE  /\ L!Free(m, Leaving(g), {}) /\ L!Free(n, Arriving(g), {})
         /\ m = n => Leaving(g) # Arriving(g)
<1>1. \A k : L!Out(k) = {d \in Darts : org[d] = k}  BY DEF L!Out, L!Darts, Darts
<1>2. \A d \in Darts : ~InteriorsMeet(geom[EdgeOf(d)], g)  BY DartFacts
<1>3. L!Free(m, Leaving(g), {})
  <2>1. \A d \in L!Out(m) : az[d] # Leaving(g)  BY <1>1, <1>2, FreeDart
  <2>2. QED  BY <2>1 DEF L!Free
<1>4. L!Free(n, Arriving(g), {})
  <2>1. Reverse(g)[1] = Last(g) /\ Leaving(Reverse(g)) = Arriving(g)
    BY ReverseLine, LineEnds
  <2>2. ASSUME NEW d \in L!Out(n)  PROVE az[d] # Leaving(Reverse(g))
    <3>1. d \in Darts /\ org[d] = n  BY <1>1
    <3>2. Reverse(g)[1] = at[org[d]]  BY <2>1, <3>1
    <3>3. QED  BY <1>2, <3>1, <3>2, FreeDart
  <2>3. QED  BY <2>1, <2>2 DEF L!Free
<1>5. ASSUME m = n  PROVE Leaving(g) # Arriving(g)  BY <1>5, LoopEnds
<1>6. QED  BY <1>3, <1>4, <1>5

\* The face found for a new edge is one, or the call fails.
LEMMA EdgeFaceFound ==
  ASSUME TopoInv, NEW e \in L!NewEdgeIds(Edges), NEW m \in DOMAIN at, NEW n \in DOMAIN at,
         NEW a \in 0 .. 7, NEW b \in 0 .. 7
  PROVE  EdgeFace(e, m, n, L!With(az, e, a, b)) \in Nat \cup {None}
<1> DEFINE z == L!With(az, e, a, b)
           closed == m = n
           iso   == {inface[m], inface[n]} \ {None}
           span  == _lwt_FindAdjacentEdges(m, z, z[e], IF closed THEN {-e} ELSE {})
           epan  == _lwt_FindAdjacentEdges(n, z, z[-e], IF closed THEN {e} ELSE {})
           first(x) == IF iso # {} THEN CHOOSE f \in iso : TRUE ELSE x
           right == first(span.cw)
           left  == first(span.ccw)
           FaceLeft  == IF left = None /\ L!Out(n) # {} THEN span.cw ELSE left
<1>1. /\ z[e] = a /\ z[-e] = b /\ \A d \in Darts : z[d] = az[d]
  BY NewEdge, InvFacts DEF L!With
<1>2. \A k : L!Out(k) \subseteq Darts  BY DEF L!Out, L!Darts, Darts
<1>3. span.cw \in Nat \cup {None} /\ span.ccw \in Nat \cup {None}
  <2>1. \A k : \A x \in L!Out(k) \cup (IF closed THEN {-e} ELSE {}) : z[x] \in 0 .. 7
    BY <1>1, <1>2, InvFacts
  <2>2. z[e] \in 0 .. 7  BY <1>1
  <2> HIDE DEF z, closed
  <2>3. QED  BY <2>1, <2>2, AdjacentFaces
<1>4. iso \subseteq Nat
  <2>1. inface[m] \in Nat \cup {None} /\ inface[n] \in Nat \cup {None}  BY InvFacts
  <2>2. QED  BY <2>1
<1>5. ASSUME NEW x \in Nat \cup {None}  PROVE first(x) \in Nat \cup {None}
  <2>1. CASE iso # {}
    <3>1. (CHOOSE f \in iso : TRUE) \in iso  BY <2>1
    <3>2. QED  BY <1>4, <2>1, <3>1
  <2>2. CASE iso = {}  BY <2>2
  <2>3. QED  BY <2>1, <2>2
<1>6. EdgeFace(e, m, n, z) \in {FaceLeft, None}  BY DEF EdgeFace
<1> HIDE DEF z, iso, span, first
<1>7. left \in Nat \cup {None}  BY <1>3, <1>5
<1>8. FaceLeft \in Nat \cup {None}  BY <1>3, <1>7
<1>9. QED
  <2> HIDE DEF FaceLeft
  <2>1. QED  BY <1>6, <1>8 DEF z

-----------------------------------------------------------------------------
(* Splitting a face changes which nodes have a containing face nowhere.     *)

\* Sides t.side of darts D and containing faces t.inface of nodes A, those not in N.
Divided(t, D, A, N) ==
  /\ t = [id |-> t.id, face |-> t.face, side |-> t.side, inface |-> t.inface]
  /\ t.side \in [D -> Nat]
  /\ DOMAIN t.inface = A
  /\ \A n \in A : t.inface[n] \in Nat \cup {None} /\ (t.inface[n] = None <=> n \in N)

\* Faces F leave an identifier to use.
Roomy(F) == \E i \in 1 .. MaxFace + 2 : i \notin F

LEMMA FreeFaceFree ==
  ASSUME NEW F, Roomy(DOMAIN F)
  PROVE  FreeFace(F) \in Nat /\ FreeFace(F) \in 1 .. MaxFace + 2 /\ FreeFace(F) \notin DOMAIN F
<1> DEFINE S == (1 .. MaxFace + 2) \ DOMAIN F
<1>1. S \in SUBSET Nat /\ S # {}  BY TopologyAssumption DEF Roomy
<1>2. FreeFace(F) = Min(S)  BY DEF FreeFace
<1>3. Min(S) \in S
  <2> HIDE DEF S
  <2>1. QED  BY <1>1, LeastOf
<1>4. QED  BY <1>1, <1>2, <1>3

\* Nothing is created.
LEMMA DividedSame ==
  ASSUME NEW t, NEW D, NEW A, NEW N, Divided(t, D, A, N), NEW F, NEW x,
         NEW r, r = [id |-> x, face |-> F, side |-> t.side, inface |-> t.inface]
  PROVE  Divided(r, D, A, N) /\ r.face = F
  BY DEF Divided

\* A face is.
LEMMA DividedNew ==
  ASSUME NEW t, NEW D, NEW A, NEW N, Divided(t, D, A, N), NEW f \in Nat, NEW new \in Nat, NEW F,
         NEW s, DOMAIN s = D, s = [x \in DOMAIN s |-> s[x]], \A x \in D : s[x] \in {new, t.side[x]},
         NEW in, DOMAIN in = A,
         \A n \in A : in[n] = t.inface[n] \/ (t.inface[n] = f /\ in[n] = new),
         NEW r, r = [id |-> new, face |-> F, side |-> s, inface |-> in]
  PROVE  Divided(r, D, A, N) /\ r.face = F
<1>1. r.id = new /\ r.face = F /\ r.side = s /\ r.inface = in  OBVIOUS
<1>2. s \in [D -> Nat]
  <2>1. \A x \in D : s[x] \in Nat  BY DEF Divided
  <2>2. QED  BY <2>1
<1>3. \A n \in A : in[n] \in Nat \cup {None} /\ (in[n] = None <=> n \in N)
  BY DEF Divided, None
<1>4. QED  BY <1>1, <1>2, <1>3 DEF Divided

LEMMA FaceSplit ==
  ASSUME NEW t, NEW D, NEW N, Divided(t, D, DOMAIN at, N), Roomy(DOMAIN t.face),
         NEW f \in Nat, NEW nx, NEW g, NEW d, NEW mbr_only,
         NEW r, r = _lwt_AddFaceSplit(t, nx, g, d, f, mbr_only)
  PROVE  /\ Divided(r, D, DOMAIN at, N)
         /\ DOMAIN r.face \subseteq DOMAIN t.face \cup {FreeFace(t.face)}
<1> DEFINE Kept(x) == /\ Divided(x, D, DOMAIN at, N)
                      /\ DOMAIN x.face \subseteq DOMAIN t.face \cup {FreeFace(t.face)}
           ring      == getRingEdges(nx, d)
           inRing(e) == e \in ring \/ -e \in ring
           new       == FreeFace(t.face)
           outside(isccw) == f # Universe /\ ~isccw
           inReach(points, box, isccw) == outside(isccw) \/ BoxesOverlap(BoxOf(points), box)
           moves(e, shell, box, isccw) ==
             /\ ~inRing(e)
             /\ inReach(Range(g[e]), box, isccw)
             /\ _lwt_EdgeInside(shell, g[e]) # outside(isccw)
           F(box, isccw) == WithEdge(t.face, new, IF outside(isccw) THEN t.face[f] ELSE box)
           s(shell, box, isccw) ==
             [x \in DOMAIN t.side |->
                IF \/ x \in ring
                   \/ t.side[x] = f /\ moves(IF x > 0 THEN x ELSE -x, shell, box, isccw)
                THEN new ELSE t.side[x]]
           in(shell, box, isccw) ==
             [n \in DOMAIN at |->
                IF /\ t.inface[n] = f
                   /\ inReach({at[n]}, box, isccw)
                   /\ ptarray_contains_point(shell, at[n]) # outside(isccw)
                THEN new ELSE t.inface[n]]
           along(shell, box, isccw) ==
             IF f = Universe /\ ~isccw THEN [t EXCEPT !.id = None]
             ELSE IF mbr_only /\ f # Universe
             THEN [t EXCEPT !.id = None, !.face[f] = IF isccw THEN box ELSE @]
             ELSE [id |-> new, face |-> F(box, isccw), side |-> s(shell, box, isccw),
                   inface |-> in(shell, box, isccw)]
           around(shell) == along(shell, StepsBox(shell), ptarray_isccw(shell))
<1>1. r = IF -d \in ring THEN [t EXCEPT !.id = 0] ELSE around(RingSteps(g, ring))
  BY DEF _lwt_AddFaceSplit
<1>2. t = [id |-> t.id, face |-> t.face, side |-> t.side, inface |-> t.inface]
  BY DEF Divided
<1>3. ASSUME NEW x, NEW q, q = [t EXCEPT !.id = x]  PROVE Kept(q)
  <2>1. q = [id |-> x, face |-> t.face, side |-> t.side, inface |-> t.inface]
    BY <1>2, <1>3
  <2>2. Divided(q, D, DOMAIN at, N) /\ q.face = t.face  BY <2>1, DividedSame
  <2>3. QED  BY <2>2
<1>4. ASSUME NEW x, NEW y, NEW q, q = [t EXCEPT !.id = x, !.face[f] = y]  PROVE Kept(q)
  <2> DEFINE F1 == [t.face EXCEPT ![f] = y]
  <2>1. q = [id |-> x, face |-> F1, side |-> t.side, inface |-> t.inface]
    BY <1>2, <1>4
  <2>2. DOMAIN F1 = DOMAIN t.face  OBVIOUS
  <2> HIDE DEF F1
  <2>3. Divided(q, D, DOMAIN at, N) /\ q.face = F1  BY <2>1, DividedSame
  <2>4. QED  BY <2>2, <2>3
<1>5. new \in Nat  BY FreeFaceFree
<1>6. ASSUME NEW shell, NEW box, NEW isccw, NEW q, q = along(shell, box, isccw)
      PROVE  Kept(q)
  <2> DEFINE ss == s(shell, box, isccw)
             ii == in(shell, box, isccw)
             ff == F(box, isccw)
             rr == [id |-> new, face |-> ff, side |-> ss, inface |-> ii]
  <2>1. /\ DOMAIN ss = D /\ ss = [x \in DOMAIN ss |-> ss[x]]
        /\ \A x \in D : ss[x] \in {new, t.side[x]}
    <3>1. DOMAIN t.side = D  BY DEF Divided
    <3> HIDE DEF moves, ring
    <3>2. QED  BY <3>1
  <2>2. /\ DOMAIN ii = DOMAIN at
        /\ \A n \in DOMAIN at : ii[n] = t.inface[n] \/ (t.inface[n] = f /\ ii[n] = new)
    <3> HIDE DEF inReach, outside
    <3>1. QED  OBVIOUS
  <2>3. DOMAIN ff = DOMAIN t.face \cup {new}  BY DEF WithEdge
  <2> HIDE DEF ss, ii, ff
  <2>4. Divided(rr, D, DOMAIN at, N) /\ rr.face = ff  BY <1>5, <2>1, <2>2, DividedNew
  <2>5. Kept(rr)  BY <2>3, <2>4
  <2>6. \/ q = [t EXCEPT !.id = None]
        \/ q = [t EXCEPT !.id = None, !.face[f] = IF isccw THEN box ELSE t.face[f]]
        \/ q = rr
    BY <1>6 DEF ss, ii, ff
  <2> HIDE DEF rr, Kept, along
  <2>7. QED  BY <1>3, <1>4, <2>5, <2>6
<1> HIDE DEF along, Kept, ring
<1>7. Kept(r)  BY <1>1, <1>3, <1>6
<1>8. QED  BY <1>7 DEF Kept, new

LEMMA SplitsKeep ==
  ASSUME NEW t, NEW D, NEW N, Divided(t, D, DOMAIN at, N), DOMAIN t.face \subseteq 0 .. MaxFace,
         NEW f \in Nat, NEW nx, NEW g, NEW e
  PROVE  /\ Divided(SplitKeepingFace(t, nx, g, e, f).t, D, DOMAIN at, N)
         /\ Divided(SplitReplacingFace(t, nx, g, e, f).t, D, DOMAIN at, N)
<1>1. MaxFace \in Nat  BY TopologyAssumption
<1>2. Roomy(DOMAIN t.face)
  <2>1. MaxFace + 1 \in 1 .. MaxFace + 2 /\ MaxFace + 1 \notin 0 .. MaxFace  BY <1>1
  <2>2. QED  BY <2>1 DEF Roomy
<1>3. ASSUME NEW u, DOMAIN u.face \subseteq DOMAIN t.face \cup {FreeFace(t.face)}
      PROVE  Roomy(DOMAIN u.face)
  <2>1. /\ MaxFace + 1 \in 1 .. MaxFace + 2 /\ MaxFace + 1 \notin 0 .. MaxFace
        /\ MaxFace + 2 \in 1 .. MaxFace + 2 /\ MaxFace + 2 \notin 0 .. MaxFace
        /\ MaxFace + 1 # MaxFace + 2
    BY <1>1
  <2>2. MaxFace + 1 \notin DOMAIN u.face \/ MaxFace + 2 \notin DOMAIN u.face
    BY <1>3, <2>1
  <2>3. QED  BY <2>1, <2>2 DEF Roomy
<1>4. Divided(SplitKeepingFace(t, nx, g, e, f).t, D, DOMAIN at, N)
  <2> DEFINE all == FALSE
             left == _lwt_AddFaceSplit(t, nx, g, e, f, all)
             right == _lwt_AddFaceSplit(left, nx, g, -e, f, left.id # None)
  <2>1. left = _lwt_AddFaceSplit(t, nx, g, e, f, all)  OBVIOUS
  <2>2. right = _lwt_AddFaceSplit(left, nx, g, -e, f, left.id # None)  OBVIOUS
  <2>3. SplitKeepingFace(t, nx, g, e, f) = OneNewFace(left, right)  BY DEF SplitKeepingFace
  <2> HIDE DEF left, right, all
  <2>4. Divided(left, D, DOMAIN at, N) /\ Roomy(DOMAIN left.face)
    <3>1. /\ Divided(left, D, DOMAIN at, N)
          /\ DOMAIN left.face \subseteq DOMAIN t.face \cup {FreeFace(t.face)}
      BY <1>2, <2>1, FaceSplit
    <3>2. QED  BY ONLY <1>3, <3>1
  <2>5. Divided(right, D, DOMAIN at, N)  BY <2>2, <2>4, FaceSplit
  <2>6. OneNewFace(left, right).t \in {left, right}  BY DEF OneNewFace
  <2>7. QED  BY <2>3, <2>4, <2>5, <2>6
<1>5. Divided(SplitReplacingFace(t, nx, g, e, f).t, D, DOMAIN at, N)
  <2> DEFINE all == FALSE
             right == _lwt_AddFaceSplit(t, nx, g, -e, f, all)
             left == _lwt_AddFaceSplit(right, nx, g, e, f, all)
             less == [left EXCEPT !.face = [x \in DOMAIN @ \ {f} |-> @[x]]]
  <2>1. right = _lwt_AddFaceSplit(t, nx, g, -e, f, all)  OBVIOUS
  <2>2. left = _lwt_AddFaceSplit(right, nx, g, e, f, all)  OBVIOUS
  <2>3. SplitReplacingFace(t, nx, g, e, f) = TwoNewFaces(left, right, f)
    BY DEF SplitReplacingFace
  <2> HIDE DEF left, right, all
  <2>4. Divided(right, D, DOMAIN at, N) /\ Roomy(DOMAIN right.face)
    <3>1. /\ Divided(right, D, DOMAIN at, N)
          /\ DOMAIN right.face \subseteq DOMAIN t.face \cup {FreeFace(t.face)}
      BY <1>2, <2>1, FaceSplit
    <3>2. QED  BY ONLY <1>3, <3>1
  <2>5. Divided(left, D, DOMAIN at, N)  BY <2>2, <2>4, FaceSplit
  <2>6. TwoNewFaces(left, right, f).t \in {right, left, less}  BY DEF TwoNewFaces
  <2>7. Divided(less, D, DOMAIN at, N)
    <3> DEFINE F == [x \in DOMAIN left.face \ {f} |-> left.face[x]]
    <3>1. left = [id |-> left.id, face |-> left.face, side |-> left.side, inface |-> left.inface]
      BY <2>5 DEF Divided
    <3>2. less = [id |-> left.id, face |-> F, side |-> left.side, inface |-> left.inface]
      BY <3>1
    <3> HIDE DEF F, less
    <3>3. QED  BY <2>5, <3>2, DividedSame
  <2> HIDE DEF less
  <2>8. QED  BY <2>3, <2>4, <2>5, <2>6, <2>7
<1>6. QED  BY <1>4, <1>5

LEMMA AddEdgeStep ==
  ASSUME TopoInv, NEW e \in L!NewEdgeIds(Edges), NEW m \in DOMAIN at, NEW n \in DOMAIN at,
         NEW g \in Lines, NEW modFace \in BOOLEAN, AddEdge(e, m, n, g, modFace)
  PROVE  /\ L!LinkAddEdge(e, m, n, Leaving(g), Arriving(g))
         /\ Tables(at', inface', geom', org', Darts', side')
<1> DEFINE z  == L!With(az, e, Leaving(g), Arriving(g))
           nx == L!AddLinks(e, m, n, z)
           ge == WithEdge(geom, e, g)
           dangling == m # n /\ (inface[m] # None \/ inface[n] # None)
           old(f) == [id |-> 0, face |-> face, side |-> L!With(side, e, f, f),
                      inface |-> [k \in DOMAIN at |-> IF k \in {m, n} THEN None ELSE inface[k]]]
           split(t, f) == IF dangling THEN [ids |-> <<>>, t |-> t]
                          ELSE IF modFace THEN SplitKeepingFace(t, nx, ge, e, f)
                          ELSE SplitReplacingFace(t, nx, ge, e, f)
           N == {k \in DOMAIN at : \E d \in Darts' : org'[d] = k}
<1>1. /\ LegalEdge(m, n, g) /\ geom' = ge /\ org' = L!With(org, e, m, n) /\ next' = nx /\ at' = at
      /\ \E f \in {EdgeFace(e, m, n, z)} \ {None} :
           \E s \in {split(old(f), f)} : side' = s.t.side /\ inface' = s.t.inface
  BY DEF AddEdge
<1>2. e # -e /\ e \notin Darts /\ -e \notin Darts  BY NewEdge
<1>3. Darts' = Darts \cup {e, -e}  BY <1>1 DEF Darts, L!AddLinks, L!With, L!Darts
<1>4. /\ IsLine(g) /\ lwgeom_is_simple(g) /\ at[m] = g[1] /\ at[n] = Last(g)
      /\ \A f \in Edges : ~InteriorsMeet(geom[f], g)
  BY <1>1, LegalFacts
<1>5. Leaving(g) \in 0 .. 7 /\ Arriving(g) \in 0 .. 7  BY <1>4, LineEnds
<1>6. /\ Lined(geom', Darts') /\ Drawn(geom', org', at) /\ TakenOnce(geom')
      /\ Turning(geom', Darts') = z
  <2>1. geom' = WithEdge(geom, e, g) /\ org' = L!With(org, e, m, n)  BY <1>1
  <2>2. /\ Lined(geom', Darts \cup {e, -e}) /\ Drawn(geom', org', at) /\ TakenOnce(geom')
        /\ Turning(geom', Darts \cup {e, -e}) = L!With(az, e, Leaving(g), Arriving(g))
    BY ONLY TopoInv, e \in L!NewEdgeIds(Edges), m \in DOMAIN at, n \in DOMAIN at,
            <1>4, <2>1, LineAdded
  <2>3. QED  BY <1>3, <2>2
<1>7. az' = z  BY <1>6, NextTurning
<1>8. /\ L!Free(m, Leaving(g), {}) /\ L!Free(n, Arriving(g), {})
      /\ m = n => Leaving(g) # Arriving(g)
  BY <1>4, NewEdgeLinked
<1>9. L!LinkAddEdge(e, m, n, Leaving(g), Arriving(g))
  <2> HIDE DEF TopoInv
  <2>1. QED  BY <1>1, <1>7, <1>8 DEF L!LinkAddEdge
<1>10. PICK f \in {EdgeFace(e, m, n, z)} \ {None} :
         \E s \in {split(old(f), f)} : side' = s.t.side /\ inface' = s.t.inface
  BY <1>1
<1>11. f \in Nat
  <2>1. f \in {EdgeFace(e, m, n, z)} /\ f # None  OBVIOUS
  <2>2. EdgeFace(e, m, n, z) \in Nat \cup {None}  BY <1>5, EdgeFaceFound
  <2>3. QED  BY <2>1, <2>2
<1>12. side' = split(old(f), f).t.side /\ inface' = split(old(f), f).t.inface  BY <1>10
<1>13. DOMAIN old(f).face \subseteq 0 .. MaxFace  BY DEF TopoInv
<1>14. Divided(old(f), Darts', DOMAIN at, N)
  <2>1. Faced(DOMAIN at, inface, org, Darts, side)  BY DEF TopoInv, Tables
  <2>2. L!With(side, e, f, f) \in [Darts' -> Nat]
    <3>1. side \in [Darts -> Nat]  BY <2>1 DEF Faced
    <3>2. QED  BY <1>3, <1>11, <3>1 DEF L!With
  <2>3. /\ org'[e] = m /\ org'[-e] = n
        /\ \A d \in Darts : d \in Darts' /\ org'[d] = org[d]
        /\ \A d \in Darts' : d = e \/ d = -e \/ d \in Darts
        /\ e \in Darts' /\ -e \in Darts'
    BY <1>1, <1>2, <1>3, InvFacts DEF L!With
  <2> DEFINE in == [k \in DOMAIN at |-> IF k \in {m, n} THEN None ELSE inface[k]]
  <2>4. ASSUME NEW k \in DOMAIN at  PROVE in[k] \in Nat \cup {None} /\ (in[k] = None <=> k \in N)
    <3>1. CASE k = m \/ k = n
      <4>1. in[k] = None  BY <3>1
      <4>2. \E d \in Darts' : org'[d] = k  BY <2>3, <3>1
      <4>3. QED  BY <4>1, <4>2
    <3>2. CASE k # m /\ k # n
      <4>1. inface[k] \in Nat \cup {None} /\ (inface[k] = None <=> \E d \in Darts : org[d] = k)
        BY <2>1 DEF Faced
      <4>2. (\E d \in Darts : org[d] = k) <=> \E d \in Darts' : org'[d] = k
        BY <2>3, <3>2
      <4>3. in[k] = inface[k]  BY <3>2
      <4>4. QED  BY <4>1, <4>2, <4>3
    <3>3. QED  BY <3>1, <3>2
  <2>5. DOMAIN in = DOMAIN at  OBVIOUS
  <2>6. old(f) = [id |-> 0, face |-> face, side |-> L!With(side, e, f, f), inface |-> in]
    OBVIOUS
  <2> HIDE DEF in, N, old
  <2>7. QED  BY <2>2, <2>4, <2>5, <2>6 DEF Divided
<1>15. Divided(split(old(f), f).t, Darts', DOMAIN at, N)
  <2> HIDE DEF old, N, nx, ge
  <2>1. /\ Divided(SplitKeepingFace(old(f), nx, ge, e, f).t, Darts', DOMAIN at, N)
        /\ Divided(SplitReplacingFace(old(f), nx, ge, e, f).t, Darts', DOMAIN at, N)
    BY <1>11, <1>13, <1>14, SplitsKeep
  <2>2. split(old(f), f).t \in {old(f), SplitKeepingFace(old(f), nx, ge, e, f).t,
                                SplitReplacingFace(old(f), nx, ge, e, f).t}
    OBVIOUS
  <2>3. QED  BY <1>14, <2>1, <2>2
<1>16. Faced(DOMAIN at, inface', org', Darts', side')
  <2> HIDE DEF old, split
  <2>1. QED  BY <1>12, <1>15 DEF Divided, Faced
<1>17. at \in [DOMAIN at -> Vertices]  BY InvFacts
<1>18. QED  BY <1>1, <1>6, <1>9, <1>16, <1>17 DEF Tables

-----------------------------------------------------------------------------
(* Splitting edges.                                                         *)

\* A line cut at its vertex c.
Cut(g, c, s, t) == s = SubSeq(g, 1, c) /\ t = SubSeq(g, c, Len(g))

LEMMA CutLine ==
  ASSUME NEW g, IsLine(g), NEW c \in 2 .. Len(g) - 1, NEW s, NEW t, Cut(g, c, s, t)
  PROVE  /\ IsLine(s) /\ s[1] = g[1] /\ Last(s) = g[c] /\ Leaving(s) = Leaving(g)
         /\ IsLine(t) /\ t[1] = g[c] /\ Last(t) = Last(g) /\ Arriving(t) = Arriving(g)
         /\ Arriving(s) = azimuth_pt_pt(g[c], g[c - 1])
         /\ Leaving(t) = azimuth_pt_pt(g[c], g[c + 1])
<1> DEFINE n == Len(g)
<1>1. /\ n \in Nat /\ c \in Nat /\ c > 1 /\ c < n
      /\ 1 \in 1 .. Len(g) /\ c \in 1 .. Len(g) /\ Len(g) \in 1 .. Len(g)
      /\ Last(g) = g[n]
  BY LineFacts
<1>2. IsLine(s) /\ Len(s) = c - 1 + 1 /\ \A i \in 1 .. c - 1 + 1 : s[i] = g[1 + i - 1]
  BY <1>1, PartOfLine DEF Cut
<1>3. IsLine(t) /\ Len(t) = Len(g) - c + 1 /\ \A i \in 1 .. Len(g) - c + 1 : t[i] = g[c + i - 1]
  BY <1>1, PartOfLine DEF Cut
<1> HIDE DEF n
<1>4. Len(s) = c /\ \A i \in 1 .. c : s[i] = g[i]
  <2>1. c - 1 + 1 = c /\ \A i \in 1 .. c : 1 + i - 1 = i  BY <1>1
  <2>2. QED  BY <1>2, <2>1
<1>5. s[1] = g[1] /\ s[2] = g[2] /\ s[c] = g[c] /\ s[c - 1] = g[c - 1]
  <2>1. 1 \in 1 .. c /\ 2 \in 1 .. c /\ c \in 1 .. c /\ c - 1 \in 1 .. c  BY <1>1
  <2>2. QED  BY <1>4, <2>1
<1>6. Last(s) = s[c] /\ Arriving(s) = azimuth_pt_pt(s[c], s[c - 1])
  <2>1. Last(s) = s[Len(s)]  BY <1>2, LineFacts
  <2>2. QED  BY <1>4, <2>1 DEF Arriving
<1>7. Leaving(s) = Leaving(g)  BY <1>5 DEF Leaving
<1>8. t[1] = g[c] /\ t[2] = g[c + 1] /\ t[n - c + 1] = g[n] /\ t[n - c] = g[n - 1]
  <2>1. /\ 1 \in 1 .. n - c + 1 /\ 2 \in 1 .. n - c + 1 /\ n - c + 1 \in 1 .. n - c + 1
        /\ n - c \in 1 .. n - c + 1
        /\ c + 1 - 1 = c /\ c + 2 - 1 = c + 1 /\ c + (n - c + 1) - 1 = n /\ c + (n - c) - 1 = n - 1
    BY <1>1
  <2>2. \A i \in 1 .. n - c + 1 : t[i] = g[c + i - 1]  BY <1>3 DEF n
  <2>3. QED  BY <2>1, <2>2
<1>9. Last(t) = t[n - c + 1] /\ Arriving(t) = azimuth_pt_pt(t[n - c + 1], t[n - c])
  <2>1. Last(t) = t[Len(t)]  BY <1>3, LineFacts
  <2>2. Len(t) = n - c + 1 /\ Len(t) - 1 = n - c  BY <1>1, <1>3 DEF n
  <2>3. QED  BY <2>1, <2>2 DEF Arriving
<1>10. Arriving(t) = Arriving(g)  BY <1>1, <1>8, <1>9 DEF Arriving, n
<1>11. Leaving(t) = azimuth_pt_pt(g[c], g[c + 1])  BY <1>8 DEF Leaving
<1>12. QED  BY <1>1, <1>2, <1>3, <1>5, <1>6, <1>7, <1>8, <1>9, <1>10, <1>11

\* What lwgeom_split returns.
LEMMA SplitLine ==
  ASSUME NEW g, IsLine(g), NEW p, \E j \in 2 .. Len(g) - 1 : g[j] = p
  PROVE  \E c \in 2 .. Len(g) - 1 :
           /\ g[c] = p
           /\ lwgeom_split(g, p)[1] = SubSeq(g, 1, c)
           /\ lwgeom_split(g, p)[2] = SubSeq(g, c, Len(g))
<1> DEFINE c == CHOOSE j \in 2 .. Len(g) - 1 : g[j] = p
           a == SubSeq(g, 1, c)
           b == SubSeq(g, c, Len(g))
<1>1. c \in 2 .. Len(g) - 1 /\ g[c] = p  OBVIOUS
<1>2. lwgeom_split(g, p) = <<a, b>>  BY DEF lwgeom_split
<1>3. <<a, b>>[1] = a /\ <<a, b>>[2] = b
  <2> HIDE DEF a, b
  <2>1. QED  OBVIOUS
<1>4. lwgeom_split(g, p)[1] = a /\ lwgeom_split(g, p)[2] = b
  <2> HIDE DEF a, b
  <2>1. QED  BY <1>2, <1>3
<1> HIDE DEF c
<1>5. QED  BY <1>1, <1>4

\* The two parts s and t into which a vertex of it cuts line g.
Halves(g, p, s, t, c) ==
  /\ c \in 2 .. Len(g) - 1 /\ g[c] = p
  /\ s = SubSeq(g, 1, c) /\ t = SubSeq(g, c, Len(g))
  /\ IsLine(s) /\ s[1] = g[1] /\ Last(s) = p /\ Leaving(s) = Leaving(g)
  /\ IsLine(t) /\ t[1] = p /\ Last(t) = Last(g) /\ Arriving(t) = Arriving(g)
  /\ Arriving(s) = azimuth_pt_pt(g[c], g[c - 1])
  /\ Leaving(t) = azimuth_pt_pt(g[c], g[c + 1])

LEMMA SplitHalves ==
  ASSUME NEW g, IsLine(g), NEW p, \E j \in 2 .. Len(g) - 1 : g[j] = p,
         NEW s, s = lwgeom_split(g, p)[1], NEW t, t = lwgeom_split(g, p)[2]
  PROVE  \E c : Halves(g, p, s, t, c)
<1>1. PICK c \in 2 .. Len(g) - 1 :
        /\ g[c] = p
        /\ lwgeom_split(g, p)[1] = SubSeq(g, 1, c)
        /\ lwgeom_split(g, p)[2] = SubSeq(g, c, Len(g))
  BY SplitLine
<1>2. Cut(g, c, s, t)  BY <1>1 DEF Cut
<1>3. /\ IsLine(s) /\ s[1] = g[1] /\ Last(s) = g[c] /\ Leaving(s) = Leaving(g)
      /\ IsLine(t) /\ t[1] = g[c] /\ Last(t) = Last(g) /\ Arriving(t) = Arriving(g)
      /\ Arriving(s) = azimuth_pt_pt(g[c], g[c - 1])
      /\ Leaving(t) = azimuth_pt_pt(g[c], g[c + 1])
  BY ONLY IsLine(g), c \in 2 .. Len(g) - 1, <1>2, CutLine
<1>4. Halves(g, p, s, t, c)  BY <1>1, <1>2, <1>3 DEF Halves, Cut
<1>5. QED  BY <1>4

\* The two parts into which a new node at p splits edge e.
Parts(e, p, s, t) ==
  /\ IsLine(s) /\ s[1] = geom[e][1] /\ Last(s) = p /\ Leaving(s) = Leaving(geom[e])
  /\ IsLine(t) /\ t[1] = p /\ Last(t) = Last(geom[e]) /\ Arriving(t) = Arriving(geom[e])
  /\ Arriving(s) # Leaving(t)
  /\ \E c \in 2 .. Len(geom[e]) - 1 :
       s = SubSeq(geom[e], 1, c) /\ t = SubSeq(geom[e], c, Len(geom[e]))

LEMMA EdgeParts ==
  ASSUME TopoInv, NEW e \in Edges, NEW p, _lwt_EdgeSplit(e, p),
         NEW s, s = lwgeom_split(geom[e], p)[1], NEW t, t = lwgeom_split(geom[e], p)[2]
  PROVE  Parts(e, p, s, t)
<1> DEFINE g == geom[e]
<1>1. IsLine(g)  BY InvFacts
<1>2. \E j \in 2 .. Len(geom[e]) - 1 : geom[e][j] = p  BY DEF _lwt_EdgeSplit, InteriorPoints
<1>3. PICK c : Halves(geom[e], p, s, t, c)
  BY ONLY <1>1, <1>2, s = lwgeom_split(geom[e], p)[1], t = lwgeom_split(geom[e], p)[2], SplitHalves
<1>4. /\ c \in 2 .. Len(g) - 1 /\ g[c] = p
      /\ s = SubSeq(g, 1, c) /\ t = SubSeq(g, c, Len(g))
      /\ IsLine(s) /\ s[1] = g[1] /\ Last(s) = p /\ Leaving(s) = Leaving(g)
      /\ IsLine(t) /\ t[1] = p /\ Last(t) = Last(g) /\ Arriving(t) = Arriving(g)
      /\ Arriving(s) = azimuth_pt_pt(g[c], g[c - 1])
      /\ Leaving(t) = azimuth_pt_pt(g[c], g[c + 1])
  BY <1>3 DEF Halves
<1>5. Arriving(s) # Leaving(t)
  <2>1. /\ Len(g) \in Nat /\ c \in Nat /\ c > 1 /\ c < Len(g)
        /\ (\A i \in 1 .. Len(g) : g[i] \in Vertices)
        /\ \A i \in 1 .. Len(g) - 1 : Adjacent(g[i], g[i + 1])
    <3>1. Len(g) \in Nat /\ (\A i \in 1 .. Len(g) : g[i] \in Vertices)
      BY <1>1, LineFacts
    <3>2. \A i \in 1 .. Len(g) - 1 : Adjacent(g[i], g[i + 1])  BY <1>1 DEF IsLine
    <3>3. c \in Nat /\ c > 1 /\ c < Len(g)  BY <1>4, <3>1
    <3>4. QED  BY <3>1, <3>2, <3>3
  <2>2. /\ c - 1 \in 1 .. Len(g) - 1 /\ c \in 1 .. Len(g) - 1 /\ (c - 1) + 1 = c
        /\ c - 1 \in 1 .. Len(g) /\ c \in 1 .. Len(g) /\ c + 1 \in 1 .. Len(g) /\ c - 1 # c
    BY <2>1
  <2>3. Adjacent(g[c - 1], g[c]) /\ Adjacent(g[c], g[c + 1])
    BY <2>1, <2>2
  <2>4. g[c - 1] # g[c + 1]
    <3>1. c - 1 \in Places(g) /\ c \in Places(g)  BY <2>2 DEF Places
    <3>2. StepAt(g, c - 1) # StepAt(g, c)
      <4>1. TakenOnce(geom) /\ e \in DOMAIN geom  BY InvFacts DEF Edges
      <4>2. QED  BY <2>2, <3>1, <4>1 DEF TakenOnce, OnceIn
    <3>3. StepAt(g, c - 1) = {g[c - 1], g[c]} /\ StepAt(g, c) = {g[c], g[c + 1]}
      BY <2>2 DEF StepAt
    <3>4. QED  BY <3>2, <3>3
  <2>5. azimuth_pt_pt(g[c], g[c - 1]) # azimuth_pt_pt(g[c], g[c + 1])
    BY <2>1, <2>2, <2>3, <2>4, AdjacentSymmetric, StepAzimuth
  <2>6. QED  BY <1>4, <2>5
<1>6. QED  BY <1>4, <1>5 DEF Parts

LEMMA ModEdgeSplitStep ==
  ASSUME TopoInv, NEW e \in Edges, NEW n \in Nodes, NEW p \in Sites,
         NEW f \in L!NewEdgeIds(Edges), ModEdgeSplit(e, n, p, f)
  PROVE  /\ \E a, b \in L!Azimuths : L!LinkModEdgeSplit(e, n, f, a, b)
         /\ Tables(at', inface', geom', org', Darts', side')
<1> DEFINE s == lwgeom_split(geom[e], p)[1]
           t == lwgeom_split(geom[e], p)[2]
           G == [geom EXCEPT ![e] = s]
<1>1. /\ n \notin DOMAIN at /\ _lwt_EdgeSplit(e, p)
      /\ at' = WithEdge(at, n, p) /\ inface' = WithEdge(inface, n, None)
      /\ geom' = WithEdge(G, f, t)
      /\ org' = L!With([org EXCEPT ![-e] = n], f, n, org[-e])
      /\ next' = L!SplitLinks(e, f)
      /\ side' = L!With(side, f, side[e], side[-e])
  BY DEF ModEdgeSplit
<1>2. Parts(e, p, s, t)  BY <1>1, EdgeParts
<1> HIDE DEF s, t
<1>3. /\ IsLine(s) /\ s[1] = geom[e][1] /\ Last(s) = p /\ Leaving(s) = Leaving(geom[e])
      /\ IsLine(t) /\ t[1] = p /\ Last(t) = Last(geom[e]) /\ Arriving(t) = Arriving(geom[e])
      /\ Arriving(s) # Leaving(t)
  BY <1>2 DEF Parts
<1>4. /\ f \in Int /\ f > 0 /\ f # -f /\ -(-f) = f /\ f \notin Darts /\ -f \notin Darts  BY NewEdge
<1>5. /\ Lined(geom, Darts) /\ Drawn(geom, org, at) /\ TakenOnce(geom)
      /\ at \in [DOMAIN at -> Vertices]
      /\ az = Turning(geom, Darts) /\ DOMAIN org = Darts /\ DOMAIN az = Darts
      /\ \A d \in Darts : -d \in Darts /\ -(-d) = d /\ d # -d /\ org[d] \in DOMAIN at
      /\ e \in DOMAIN geom /\ DOMAIN geom = {d \in Darts : d > 0} /\ e \in Darts /\ -e \in Darts
  BY InvFacts DEF Edges
<1>6. Darts' = Darts \cup {f, -f}  BY <1>1 DEF Darts, L!SplitLinks, L!With, L!Darts
<1>7. az[e] = Leaving(geom[e]) /\ az[-e] = Arriving(geom[e])  BY <1>5, EdgeTurning
<1>8. /\ Lined(G, Darts)
      /\ Turning(G, Darts) = [az EXCEPT ![-e] = Arriving(s)]
  <2>1. Lined(G, Darts)
        /\ Turning(G, Darts) = [az EXCEPT ![e] = Leaving(s), ![-e] = Arriving(s)]
    <3>1. /\ Lined(geom, Darts) /\ e \in DOMAIN geom /\ IsLine(s)
          /\ DOMAIN G = DOMAIN geom /\ G[e] = s /\ \A d \in DOMAIN geom \ {e} : G[d] = geom[d]
      BY <1>3, <1>5
    <3> HIDE DEF G
    <3>2. /\ Lined(G, Darts)
          /\ Turning(G, Darts) = Turned(Turning(geom, Darts), e, Leaving(s), Arriving(s))
      BY ONLY <3>1, TurningExcept
    <3>3. QED  BY <1>5, <3>2 DEF Turned
  <2>2. [az EXCEPT ![e] = Leaving(s)] = az  BY <1>3, <1>5, <1>7 DEF az
  <2>3. QED  BY <2>1, <2>2
<1>9. /\ Lined(geom', Darts')
      /\ az' = L!With([az EXCEPT ![-e] = Arriving(s)], f, Leaving(t), az[-e])
  <2>1. /\ Lined(geom', Darts \cup {f, -f})
        /\ Turning(geom', Darts \cup {f, -f}) = L!With(Turning(G, Darts), f, Leaving(t), Arriving(t))
    <3>1. /\ Lined(G, Darts) /\ f \in Int /\ f > 0 /\ f \notin Darts /\ -f \notin Darts
          /\ IsLine(t) /\ geom' = WithEdge(G, f, t)
      BY <1>1, <1>3, <1>4, <1>8
    <3> HIDE DEF G
    <3>2. QED  BY ONLY <3>1, TurningWith
  <2>2. QED  BY <1>3, <1>6, <1>7, <1>8, <2>1, NextTurning
<1>10. /\ DOMAIN at' = DOMAIN at \cup {n} /\ at'[n] = p
       /\ at' = [k \in DOMAIN at' |-> at'[k]]
       /\ \A k \in DOMAIN at : k # n /\ at'[k] = at[k]
  BY <1>1 DEF WithEdge
<1>11. \E a, b \in L!Azimuths : L!LinkModEdgeSplit(e, n, f, a, b)
  <2>1. Arriving(s) \in L!Azimuths /\ Leaving(t) \in L!Azimuths
    BY <1>3, LineEnds DEF L!Azimuths
  <2>2. L!LinkModEdgeSplit(e, n, f, Arriving(s), Leaving(t))
    BY <1>1, <1>3, <1>9, <1>10 DEF L!LinkModEdgeSplit
  <2>3. QED  BY <2>1, <2>2
<1>12. /\ DOMAIN geom' = DOMAIN geom \cup {f} /\ geom'[e] = s /\ geom'[f] = t
       /\ \A u \in DOMAIN geom \ {e} : geom'[u] = geom[u]
       /\ e # f /\ f \notin DOMAIN geom
  BY <1>1, <1>4, <1>5 DEF WithEdge
<1>13. TakenOnce(geom')
  <2>1. PICK c \in 2 .. Len(geom[e]) - 1 :
          s = SubSeq(geom[e], 1, c) /\ t = SubSeq(geom[e], c, Len(geom[e]))
    BY <1>2 DEF Parts
  <2>2. IsLine(geom[e])  BY InvFacts
  <2>3. DOMAIN geom' = (DOMAIN geom \ {e}) \cup {e, f}  BY <1>5, <1>12
  <2> HIDE DEF G
  <2>4. QED  BY <1>5, <1>12, <2>1, <2>2, <2>3, OnceCut
<1>14. /\ org'[f] = n /\ org'[-f] = org[-e] /\ org'[-e] = n
       /\ \A d \in Darts : d # -e => org'[d] = org[d]
  BY <1>1, <1>4, <1>5 DEF L!With
<1>15. Drawn(geom', org', at')
  <2>1. ASSUME NEW u \in DOMAIN geom'
        PROVE  geom'[u][1] = at'[org'[u]] /\ Last(geom'[u]) = at'[org'[-u]]
    <3>1. CASE u = e
      <4>1. org'[e] = org[e] /\ org[e] \in DOMAIN at  BY <1>5, <1>14
      <4>2. geom[e][1] = at[org[e]]  BY <1>5 DEF Drawn
      <4>3. QED  BY <1>3, <1>10, <1>12, <1>14, <3>1, <4>1, <4>2
    <3>2. CASE u = f
      <4>1. Last(geom[e]) = at[org[-e]] /\ org[-e] \in DOMAIN at  BY <1>5 DEF Drawn
      <4>2. QED  BY <1>3, <1>10, <1>12, <1>14, <3>2, <4>1
    <3>3. CASE u # e /\ u # f
      <4>1. u \in DOMAIN geom /\ geom'[u] = geom[u] /\ u \in Darts /\ -u \in Darts
        BY <1>5, <1>12, <3>3
      <4>2. u # -e /\ -u # -e
        <5>1. u \in Int /\ u > 0 /\ e \in Int /\ e > 0  BY <1>5, <4>1 DEF Lined
        <5>2. QED  BY <3>3, <5>1
      <4>3. org'[u] = org[u] /\ org'[-u] = org[-u]  BY <1>14, <4>1, <4>2
      <4>4. geom[u][1] = at[org[u]] /\ Last(geom[u]) = at[org[-u]]  BY <1>5, <4>1 DEF Drawn
      <4>5. QED  BY <1>5, <1>10, <4>1, <4>3, <4>4
    <3>4. QED  BY <3>1, <3>2, <3>3
  <2>2. QED  BY <2>1 DEF Drawn
<1>16. Faced(DOMAIN at', inface', org', Darts', side')
  <2>1. Faced(DOMAIN at, inface, org, Darts, side)  BY DEF TopoInv, Tables
  <2>2. side' \in [Darts' -> Nat]
    <3>1. side \in [Darts -> Nat]  BY <2>1 DEF Faced
    <3>2. side[e] \in Nat /\ side[-e] \in Nat  BY <1>5, <3>1
    <3>3. QED  BY <1>1, <1>6, <3>1, <3>2 DEF L!With
  <2>3. /\ DOMAIN inface' = DOMAIN at' /\ inface'[n] = None
        /\ \A k \in DOMAIN at : inface'[k] = inface[k]
    <3>1. DOMAIN inface = DOMAIN at  BY <2>1 DEF Faced
    <3>2. QED  BY <1>1, <1>10, <3>1 DEF WithEdge
  <2>4. ASSUME NEW k \in DOMAIN at'
        PROVE  inface'[k] \in Nat \cup {None} /\ (inface'[k] = None <=> \E d \in Darts' : org'[d] = k)
    <3>1. CASE k = n
      <4>1. f \in Darts'  BY <1>6
      <4>2. QED  BY <1>14, <2>3, <3>1, <4>1
    <3>2. CASE k # n
      <4>1. k \in DOMAIN at  BY <1>10, <3>2
      <4>2. inface[k] \in Nat \cup {None} /\ (inface[k] = None <=> \E d \in Darts : org[d] = k)
        BY <2>1, <4>1 DEF Faced
      <4>3. ASSUME NEW d \in Darts, org[d] = k  PROVE \E c \in Darts' : org'[c] = k
        <5>1. CASE d = -e
          <6>1. -f \in Darts' /\ org'[-f] = k  BY <1>6, <1>14, <4>3, <5>1
          <6>2. QED  BY <6>1
        <5>2. CASE d # -e
          <6>1. d \in Darts' /\ org'[d] = k  BY <1>6, <1>14, <4>3, <5>2
          <6>2. QED  BY <6>1
        <5>3. QED  BY <5>1, <5>2
      <4>4. ASSUME NEW d \in Darts', org'[d] = k  PROVE \E c \in Darts : org[c] = k
        <5>1. CASE d = -f
          <6>1. -e \in Darts /\ org[-e] = k  BY <1>5, <1>14, <4>4, <5>1
          <6>2. QED  BY <6>1
        <5>2. CASE d # -f
          <6>1. d # f /\ d # -e  BY <1>14, <3>2, <4>4
          <6>2. d \in Darts /\ org[d] = k  BY <1>6, <1>14, <4>4, <5>2, <6>1
          <6>3. QED  BY <6>2
        <5>3. QED  BY <5>1, <5>2
      <4>5. inface'[k] = inface[k]  BY <2>3, <4>1
      <4>6. QED  BY <4>2, <4>3, <4>4, <4>5
    <3>3. QED  BY <3>1, <3>2
  <2>5. QED  BY <2>2, <2>3, <2>4 DEF Faced
<1>17. at' \in [DOMAIN at' -> Vertices]
  <2>1. p \in Vertices  BY TopologyAssumption
  <2>2. \A k \in DOMAIN at' : at'[k] \in Vertices  BY <1>5, <1>10, <2>1
  <2>3. QED  BY <1>10, <2>2
<1>18. QED  BY <1>9, <1>11, <1>13, <1>15, <1>16, <1>17 DEF Tables

\* Two columns' values for the edges f and g that replace e.
Replaced(h, e, f, x1, x2, g, y1, y2) ==
  L!With(L!With(L!Without(h, e), f, x1, x2), g, y1, y2)

Replaces(D, h, e, f, x1, x2, g, y1, y2, r) ==
  /\ DOMAIN r = ((D \ {e, -e}) \cup {f, -f}) \cup {g, -g}
  /\ r[f] = x1 /\ r[-f] = x2 /\ r[g] = y1 /\ r[-g] = y2
  /\ \A d \in D \ {e, -e} : r[d] = h[d]
  /\ r = [d \in DOMAIN r |-> r[d]]

LEMMA ReplacedBy ==
  ASSUME NEW D, NEW h, DOMAIN h = D, NEW e, NEW f \in Int, NEW g \in Int, f > 0, g > 0, f # g,
         f \notin D, -f \notin D, g \notin D, -g \notin D,
         NEW x1, NEW x2, NEW y1, NEW y2,
         NEW r, r = Replaced(h, e, f, x1, x2, g, y1, y2)
  PROVE  Replaces(D, h, e, f, x1, x2, g, y1, y2, r)
<1> DEFINE u == L!Without(h, e)
           v == L!With(u, f, x1, x2)
<1>1. DOMAIN u = D \ {e, -e} /\ \A d \in D \ {e, -e} : u[d] = h[d]  BY DEF L!Without
<1>2. r = L!With(v, g, y1, y2)  BY DEF Replaced
<1> HIDE DEF u
<1>3. /\ DOMAIN v = (D \ {e, -e}) \cup {f, -f} /\ v[f] = x1 /\ v[-f] = x2
      /\ \A d \in D \ {e, -e} : v[d] = h[d]
  BY <1>1 DEF L!With
<1> HIDE DEF v
<1>4. g # -g /\ f # g /\ f # -g /\ -f # g /\ -f # -g  OBVIOUS
<1>5. r = [d \in DOMAIN r |-> r[d]]  BY <1>2 DEF L!With
<1>6. /\ DOMAIN r = ((D \ {e, -e}) \cup {f, -f}) \cup {g, -g}
      /\ r[f] = x1 /\ r[-f] = x2 /\ r[g] = y1 /\ r[-g] = y2
      /\ \A d \in D \ {e, -e} : r[d] = h[d]
  BY <1>2, <1>3, <1>4 DEF L!With
<1>7. QED  BY <1>5, <1>6 DEF Replaces

LEMMA NewEdgesSplitStep ==
  ASSUME TopoInv, NEW e \in Edges, NEW n \in Nodes, NEW p \in Sites,
         NEW f \in L!NewEdgeIds(Edges), NEW g \in L!NewEdgeIds(Edges \cup {f}),
         NewEdgesSplit(e, n, p, f, g)
  PROVE  /\ \E a, b \in L!Azimuths : L!LinkNewEdgesSplit(e, n, f, g, a, b)
         /\ Tables(at', inface', geom', org', Darts', side')
<1> DEFINE s == lwgeom_split(geom[e], p)[1]
           t == lwgeom_split(geom[e], p)[2]
           G == [x \in Edges \ {e} |-> geom[x]]
           H == WithEdge(G, f, s)
           D == Darts \ {e, -e}
<1>1. /\ n \notin DOMAIN at /\ _lwt_EdgeSplit(e, p)
      /\ AnySplit \/ \A d \in Edges \ {e} : org[d] # org[e] /\ org[d] # org[-e]
      /\ at' = WithEdge(at, n, p) /\ inface' = WithEdge(inface, n, None)
      /\ geom' = WithEdge(H, g, t)
      /\ org' = Replaced(org, e, f, org[e], n, g, n, org[-e])
      /\ next' = L!NewSplitLinks(e, f, g)
      /\ side' = Replaced(side, e, f, side[e], side[-e], g, side[e], side[-e])
  BY DEF NewEdgesSplit, Replaced
<1>2. Parts(e, p, s, t)  BY <1>1, EdgeParts
<1> HIDE DEF s, t
<1>3. /\ IsLine(s) /\ s[1] = geom[e][1] /\ Last(s) = p /\ Leaving(s) = Leaving(geom[e])
      /\ IsLine(t) /\ t[1] = p /\ Last(t) = Last(geom[e]) /\ Arriving(t) = Arriving(geom[e])
      /\ Arriving(s) # Leaving(t)
  BY <1>2 DEF Parts
<1>4. /\ Lined(geom, Darts) /\ Drawn(geom, org, at) /\ TakenOnce(geom)
      /\ at \in [DOMAIN at -> Vertices] /\ side \in [Darts -> Nat]
      /\ az = Turning(geom, Darts) /\ DOMAIN org = Darts /\ DOMAIN az = Darts
      /\ \A d \in Darts : d \in Int /\ -d \in Darts /\ -(-d) = d /\ d # -d /\ org[d] \in DOMAIN at
      /\ e \in DOMAIN geom /\ DOMAIN geom = {d \in Darts : d > 0} /\ e \in Darts /\ -e \in Darts
      /\ Edges = DOMAIN geom /\ e \in Int /\ e > 0
  BY InvFacts DEF Edges
<1>5. /\ f \in Int /\ f > 0 /\ f # -f /\ -(-f) = f /\ f \notin Darts /\ -f \notin Darts
      /\ g \in Int /\ g > 0 /\ g # -g /\ -(-g) = g /\ g \notin Darts /\ -g \notin Darts
      /\ f # g /\ f # -g /\ -f # g /\ -f # -g
  <2>1. /\ f \in Int /\ f > 0 /\ f # -f /\ -(-f) = f /\ f \notin Darts /\ -f \notin Darts
    BY NewEdge
  <2>2. g \in Int /\ g > 0 /\ g \notin Edges \cup {f}
    BY TopologyAssumption DEF L!NewEdgeIds, L!EdgeIds
  <2>3. g \notin Darts  BY <1>4, <2>2
  <2>4. -(-g) = g  BY <2>2
  <2>5. -g \notin Darts
    <3>1. -g \in Darts => -(-g) \in Darts  BY <1>4
    <3>2. QED  BY <2>3, <2>4, <3>1
  <2>6. QED  BY <2>1, <2>2, <2>3, <2>4, <2>5
<1>6. Darts' = (D \cup {f, -f}) \cup {g, -g}
  BY <1>1 DEF Darts, L!NewSplitLinks, L!With, L!Darts
<1>7. az[e] = Leaving(geom[e]) /\ az[-e] = Arriving(geom[e])  BY <1>4, EdgeTurning
<1>8. Lined(G, D) /\ Turning(G, D) = L!Without(az, e)
  <2>1. LessLine(G, geom, e)  BY <1>4 DEF LessLine
  <2>2. Lined(geom, Darts) /\ e \in DOMAIN geom  BY <1>4
  <2> HIDE DEF G
  <2>3. /\ Lined(G, Darts \ {e, -e})
        /\ Turning(G, Darts \ {e, -e}) = L!Without(Turning(geom, Darts), e)
    BY ONLY <2>1, <2>2, TurningWithout
  <2>4. QED  BY <1>4, <2>3
<1>9. Lined(H, D \cup {f, -f}) /\ Turning(H, D \cup {f, -f}) = L!With(L!Without(az, e), f, az[e], Arriving(s))
  <2>1. /\ Lined(G, D) /\ f \in Int /\ f > 0 /\ f \notin D /\ -f \notin D
        /\ IsLine(s) /\ H = WithEdge(G, f, s)
    BY <1>3, <1>5, <1>8
  <2> HIDE DEF G, H, D
  <2>2. /\ Lined(H, D \cup {f, -f})
        /\ Turning(H, D \cup {f, -f}) = L!With(Turning(G, D), f, Leaving(s), Arriving(s))
    BY ONLY <2>1, TurningWith
  <2>3. QED  BY <1>3, <1>7, <1>8, <2>2
<1>10. /\ Lined(geom', Darts')
       /\ az' = L!With(L!With(L!Without(az, e), f, az[e], Arriving(s)), g, Leaving(t), az[-e])
  <2> DEFINE E == D \cup {f, -f}
  <2>1. /\ Lined(H, E) /\ g \in Int /\ g > 0 /\ g \notin E /\ -g \notin E
        /\ IsLine(t) /\ geom' = WithEdge(H, g, t)
    BY <1>1, <1>3, <1>5, <1>9
  <2>2. Darts' = E \cup {g, -g}  BY <1>6
  <2>3. Turning(H, E) = L!With(L!Without(az, e), f, az[e], Arriving(s))  BY <1>9
  <2> HIDE DEF E, G, H, D
  <2>4. /\ Lined(geom', E \cup {g, -g})
        /\ Turning(geom', E \cup {g, -g}) = L!With(Turning(H, E), g, Leaving(t), Arriving(t))
    BY ONLY <2>1, TurningWith
  <2>5. QED  BY <1>3, <1>7, <2>2, <2>3, <2>4, NextTurning
<1>11. /\ DOMAIN at' = DOMAIN at \cup {n} /\ at'[n] = p
       /\ at' = [k \in DOMAIN at' |-> at'[k]]
       /\ \A k \in DOMAIN at : k # n /\ at'[k] = at[k]
  BY <1>1 DEF WithEdge
<1>12. /\ org'[f] = org[e] /\ org'[-f] = n /\ org'[g] = n /\ org'[-g] = org[-e]
       /\ \A d \in D : org'[d] = org[d]
  <2> DEFINE r == org'
             x == org[e]
             y == org[-e]
  <2>1. DOMAIN org = Darts  BY <1>4
  <2>2. r = Replaced(org, e, f, x, n, g, n, y)  BY <1>1
  <2> HIDE DEF r, x, y
  <2>3. Replaces(Darts, org, e, f, x, n, g, n, y, r)  BY <1>5, <2>1, <2>2, ReplacedBy
  <2>4. QED  BY <2>3 DEF Replaces, r, x, y
<1>13. \E a, b \in L!Azimuths : L!LinkNewEdgesSplit(e, n, f, g, a, b)
  <2>1. Arriving(s) \in L!Azimuths /\ Leaving(t) \in L!Azimuths
    BY <1>3, LineEnds DEF L!Azimuths
  <2>2. org' = L!With(L!With(L!Without(org, e), f, org[e], n), g, n, org[-e])
    BY <1>1 DEF Replaced
  <2>3. Edges = L!Edges  BY <1>4 DEF L!Edges, L!Darts, Darts
  <2>4. L!LinkNewEdgesSplit(e, n, f, g, Arriving(s), Leaving(t))
    BY <1>1, <1>3, <1>10, <1>11, <2>2, <2>3 DEF L!LinkNewEdgesSplit
  <2>5. QED  BY <2>1, <2>4
<1>14. /\ DOMAIN geom' = (DOMAIN geom \ {e}) \cup {f, g} /\ geom'[f] = s /\ geom'[g] = t
       /\ \A u \in DOMAIN geom \ {e} : geom'[u] = geom[u] /\ u # f /\ u # g
  BY <1>1, <1>4, <1>5 DEF WithEdge
<1>15. TakenOnce(geom')
  <2>1. PICK c \in 2 .. Len(geom[e]) - 1 :
          s = SubSeq(geom[e], 1, c) /\ t = SubSeq(geom[e], c, Len(geom[e]))
    BY <1>2 DEF Parts
  <2>2. IsLine(geom[e])  BY InvFacts
  <2> HIDE DEF G, H
  <2>3. f # g /\ f \notin DOMAIN geom \ {e} /\ g \notin DOMAIN geom \ {e}  BY <1>5, <1>14
  <2>4. QED  BY <1>4, <1>14, <2>1, <2>2, <2>3, OnceCut
<1>16. Drawn(geom', org', at')
  <2>1. ASSUME NEW u \in DOMAIN geom'
        PROVE  geom'[u][1] = at'[org'[u]] /\ Last(geom'[u]) = at'[org'[-u]]
    <3>1. CASE u = f
      <4>1. org[e] \in DOMAIN at /\ geom[e][1] = at[org[e]]  BY <1>4 DEF Drawn
      <4>2. QED  BY <1>3, <1>11, <1>12, <1>14, <3>1, <4>1
    <3>2. CASE u = g
      <4>1. Last(geom[e]) = at[org[-e]] /\ org[-e] \in DOMAIN at  BY <1>4 DEF Drawn
      <4>2. QED  BY <1>3, <1>11, <1>12, <1>14, <3>2, <4>1
    <3>3. CASE u # f /\ u # g
      <4>1. u \in DOMAIN geom /\ u # e /\ geom'[u] = geom[u] /\ u \in Darts /\ -u \in Darts
        BY <1>4, <1>14, <3>3
      <4>2. u \in D /\ -u \in D
        <5>1. u \in Int /\ u > 0  BY <1>4, <4>1
        <5>2. u # -e /\ -u # e /\ -u # -e  BY <1>4, <4>1, <5>1
        <5>3. QED  BY <4>1, <5>2
      <4>3. org'[u] = org[u] /\ org'[-u] = org[-u]  BY <1>12, <4>2
      <4>4. geom[u][1] = at[org[u]] /\ Last(geom[u]) = at[org[-u]]  BY <4>1, <1>4 DEF Drawn
      <4>5. QED  BY <1>4, <1>11, <4>1, <4>3, <4>4
    <3>4. QED  BY <3>1, <3>2, <3>3
  <2>2. QED  BY <2>1 DEF Drawn
<1>17. Faced(DOMAIN at', inface', org', Darts', side')
  <2>1. Faced(DOMAIN at, inface, org, Darts, side)  BY DEF TopoInv, Tables
  <2>2. side' \in [Darts' -> Nat]
    <3>1. side[e] \in Nat /\ side[-e] \in Nat /\ DOMAIN side = Darts  BY <1>4
    <3> DEFINE r == side'
               x == side[e]
               y == side[-e]
    <3>2. r = Replaced(side, e, f, x, y, g, x, y)  BY <1>1
    <3> HIDE DEF r, x, y
    <3>3. Replaces(Darts, side, e, f, x, y, g, x, y, r)  BY <1>5, <3>1, <3>2, ReplacedBy
    <3>4. /\ DOMAIN r = ((Darts \ {e, -e}) \cup {f, -f}) \cup {g, -g}
          /\ r = [d \in DOMAIN r |-> r[d]]
          /\ \A d \in DOMAIN r : r[d] \in Nat
      BY <1>4, <3>1, <3>3 DEF Replaces, x, y
    <3>5. r \in [DOMAIN r -> Nat]  BY <3>4
    <3>6. DOMAIN r = Darts'  BY <1>6, <3>4
    <3>7. QED  BY <3>5, <3>6 DEF r
  <2>3. /\ DOMAIN inface' = DOMAIN at' /\ inface'[n] = None
        /\ \A k \in DOMAIN at : inface'[k] = inface[k]
    <3>1. DOMAIN inface = DOMAIN at  BY <2>1 DEF Faced
    <3>2. QED  BY <1>1, <1>11, <3>1 DEF WithEdge
  <2>4. ASSUME NEW k \in DOMAIN at'
        PROVE  inface'[k] \in Nat \cup {None} /\ (inface'[k] = None <=> \E d \in Darts' : org'[d] = k)
    <3>1. CASE k = n
      <4>1. g \in Darts'  BY <1>6
      <4>2. QED  BY <1>12, <2>3, <3>1, <4>1
    <3>2. CASE k # n
      <4>1. k \in DOMAIN at  BY <1>11, <3>2
      <4>2. inface[k] \in Nat \cup {None} /\ (inface[k] = None <=> \E d \in Darts : org[d] = k)
        BY <2>1, <4>1 DEF Faced
      <4>3. ASSUME NEW d \in Darts, org[d] = k  PROVE \E c \in Darts' : org'[c] = k
        <5>1. CASE d = e
          <6>1. f \in Darts' /\ org'[f] = k  BY <1>6, <1>12, <4>3, <5>1
          <6>2. QED  BY <6>1
        <5>2. CASE d = -e
          <6>1. -g \in Darts' /\ org'[-g] = k  BY <1>6, <1>12, <4>3, <5>2
          <6>2. QED  BY <6>1
        <5>3. CASE d # e /\ d # -e
          <6>1. d \in Darts' /\ org'[d] = k  BY <1>6, <1>12, <4>3, <5>3
          <6>2. QED  BY <6>1
        <5>4. QED  BY <5>1, <5>2, <5>3
      <4>4. ASSUME NEW d \in Darts', org'[d] = k  PROVE \E c \in Darts : org[c] = k
        <5>1. CASE d = f  BY <1>4, <1>12, <4>4, <5>1
        <5>2. CASE d = -g  BY <1>4, <1>12, <4>4, <5>2
        <5>3. CASE d # f /\ d # -g
          <6>1. d # -f /\ d # g  BY <1>12, <3>2, <4>4
          <6>2. d \in Darts /\ org[d] = k  BY <1>6, <1>12, <4>4, <5>3, <6>1
          <6>3. QED  BY <6>2
        <5>4. QED  BY <5>1, <5>2, <5>3
      <4>5. inface'[k] = inface[k]  BY <2>3, <4>1
      <4>6. QED  BY <4>2, <4>3, <4>4, <4>5
    <3>3. QED  BY <3>1, <3>2
  <2>5. QED  BY <2>2, <2>3, <2>4 DEF Faced
<1>18. at' \in [DOMAIN at' -> Vertices]
  <2>1. p \in Vertices  BY TopologyAssumption
  <2>2. \A k \in DOMAIN at' : at'[k] \in Vertices  BY <1>4, <1>11, <2>1
  <2>3. QED  BY <1>11, <2>2
<1>19. QED  BY <1>10, <1>13, <1>15, <1>16, <1>17, <1>18 DEF Tables

LEMMA RemEdgeStep ==
  ASSUME TopoInv, NEW e \in Edges, NEW modFace \in BOOLEAN, RemEdge(e, modFace)
  PROVE  L!LinkRemEdge(e) /\ Tables(at', inface', geom', org', Darts', side')
<1> DEFINE left  == side[e]
           right == side[-e]
           floodface == IF left = right THEN right
                        ELSE IF Universe \in {left, right} THEN Universe
                        ELSE IF modFace THEN right ELSE FreeFace(face)
           gone == {left, right} \ {floodface}
           alone(n) == n \in {org[e], org[-e]} /\ L!Out(n) \subseteq {e, -e}
<1>1. /\ geom' = [x \in Edges \ {e} |-> geom[x]] /\ org' = L!Without(org, e)
      /\ next' = L!RemLinks(org, next, e) /\ at' = at
      /\ side' = _lwt_UpdateEdgeFaceRef(L!Without(side, e), gone, floodface)
      /\ inface' = [n \in DOMAIN at |->
                      IF alone(n) THEN floodface
                      ELSE _lwt_UpdateNodeFaceRef(inface, gone, floodface)[n]]
  BY DEF RemEdge
<1>2. /\ e \in Darts /\ -e \in Darts /\ DOMAIN org = Darts /\ DOMAIN next = Darts
      /\ side \in [Darts -> Nat] /\ \A d \in Darts : -d \in Darts /\ -(-d) = d
  BY InvFacts DEF Darts
<1>3. left \in Nat /\ right \in Nat  BY <1>2
<1>4. floodface \in Nat
  <2>1. MaxFace \in Nat  BY TopologyAssumption
  <2>2. MaxFace + 1 \in 1 .. MaxFace + 2 /\ MaxFace + 1 \notin 0 .. MaxFace  BY <2>1
  <2>3. Roomy(DOMAIN face)  BY <2>2 DEF Roomy, TopoInv
  <2>4. FreeFace(face) \in Nat  BY <2>3, FreeFaceFree
  <2> HIDE DEF left, right
  <2>5. QED  BY <1>3, <2>4 DEF Universe
<1>5. gone \subseteq Nat /\ None \notin gone
  <2> HIDE DEF left, right, floodface
  <2>1. gone \subseteq Nat  BY <1>3
  <2>2. QED  BY <2>1 DEF None
<1> HIDE DEF left, right, floodface, gone
<1>6. Darts' = Darts \ {e, -e}  BY <1>1 DEF Darts, L!RemLinks
<1>7. /\ Lined(geom', Darts') /\ Drawn(geom', org', at) /\ TakenOnce(geom')
      /\ Turning(geom', Darts') = L!Without(az, e)
  BY <1>1, <1>6, LineRemoved
<1>8. az' = L!Without(az, e)  BY <1>7, NextTurning
<1>9. L!LinkRemEdge(e)  BY <1>1, <1>8 DEF L!LinkRemEdge
<1>10. \A n : L!Out(n) = {d \in Darts : org[d] = n}  BY DEF L!Out, L!Darts, Darts
<1>11. \A d \in Darts' : d \in Darts /\ d \notin {e, -e} /\ org'[d] = org[d]
  BY <1>1, <1>2, <1>6 DEF L!Without
<1>12. Faced(DOMAIN at, inface', org', Darts', side')
  <2>1. Faced(DOMAIN at, inface, org, Darts, side)  BY DEF TopoInv, Tables
  <2>2. side' \in [Darts' -> Nat]
    <3> DEFINE s == L!Without(side, e)
    <3>1. s \in [Darts' -> Nat]  BY <1>2, <1>6 DEF L!Without
    <3> HIDE DEF s
    <3>2. side' = [d \in DOMAIN s |-> IF s[d] \in gone THEN floodface ELSE s[d]]
      BY <1>1 DEF _lwt_UpdateEdgeFaceRef, s
    <3>3. QED  BY <1>4, <3>1, <3>2
  <2>3. DOMAIN inface' = DOMAIN at /\ DOMAIN inface = DOMAIN at  BY <1>1, <2>1 DEF Faced
  <2>4. ASSUME NEW k \in DOMAIN at
        PROVE  inface'[k] = IF alone(k) THEN floodface
                            ELSE IF inface[k] \in gone THEN floodface ELSE inface[k]
    <3> HIDE DEF alone
    <3>1. inface'[k] = IF alone(k) THEN floodface
                       ELSE _lwt_UpdateNodeFaceRef(inface, gone, floodface)[k]
      BY <1>1
    <3>2. QED  BY <2>3, <3>1 DEF _lwt_UpdateNodeFaceRef
  <2>5. ASSUME NEW k \in DOMAIN at
        PROVE  inface'[k] \in Nat \cup {None} /\ (inface'[k] = None <=> \E d \in Darts' : org'[d] = k)
    <3>1. inface[k] \in Nat \cup {None} /\ (inface[k] = None <=> \E d \in Darts : org[d] = k)
      BY <2>1 DEF Faced
    <3>2. CASE alone(k)
      <4>1. inface'[k] = floodface /\ floodface # None
        <5> HIDE DEF alone
        <5>1. QED  BY <1>4, <2>4, <3>2 DEF None
      <4>2. \A d \in Darts : org[d] = k => d \in {e, -e}  BY <1>10, <3>2
      <4>3. ~\E d \in Darts' : org'[d] = k  BY <1>11, <4>2
      <4>4. QED  BY <1>4, <4>1, <4>3
    <3>3. CASE ~alone(k)
      <4>1. inface'[k] = IF inface[k] \in gone THEN floodface ELSE inface[k]
        <5> HIDE DEF alone
        <5>1. QED  BY <2>4, <3>3
      <4>2. inface'[k] \in Nat \cup {None} /\ (inface'[k] = None <=> inface[k] = None)
        BY <1>4, <1>5, <3>1, <4>1 DEF None
      <4>3. ASSUME NEW d \in Darts, org[d] = k  PROVE \E c \in Darts' : org'[c] = k
        <5>1. CASE d \notin {e, -e}
          <6>1. d \in Darts'  BY <1>6, <5>1
          <6>2. QED  BY <1>11, <4>3, <6>1
        <5>2. CASE d \in {e, -e}
          <6>1. k \in {org[e], org[-e]}  BY <4>3, <5>2
          <6>2. PICK c \in L!Out(k) : c \notin {e, -e}  BY <3>3, <6>1
          <6>3. c \in Darts' /\ org[c] = k  BY <1>6, <1>10, <6>2
          <6>4. QED  BY <1>11, <6>3
        <5>3. QED  BY <5>1, <5>2
      <4>4. (\E d \in Darts' : org'[d] = k) => \E d \in Darts : org[d] = k  BY <1>11
      <4>5. QED  BY <3>1, <4>2, <4>3, <4>4
    <3>4. QED  BY <3>2, <3>3
  <2>6. QED  BY <2>2, <2>3, <2>5 DEF Faced
<1>13. at \in [DOMAIN at -> Vertices]  BY InvFacts
<1>14. QED  BY <1>1, <1>7, <1>9, <1>12, <1>13 DEF Tables

-----------------------------------------------------------------------------
(* Changing the line of an edge.                                            *)

LEMMA ChangeEdgeGeomStep ==
  ASSUME TopoInv, NEW e \in Edges, NEW g \in Lines, ChangeEdgeGeom(e, g)
  PROVE  /\ \E a, b \in L!Azimuths : L!LinkChangeEdgeGeom(e, a, b)
         /\ Tables(at', inface', geom', org', Darts', side')
<1> DEFINE z == [az EXCEPT ![e] = Leaving(g), ![-e] = Arriving(g)]
<1>1. /\ g[1] = geom[e][1] /\ Last(g) = Last(geom[e]) /\ lwgeom_is_simple(g)
      /\ ~CheckEdgeCrossing(g, {org[e], org[-e]}, e)
      /\ L!SameNeighbours(e, z) /\ L!SameNeighbours(-e, z)
      /\ geom' = [geom EXCEPT ![e] = g]
      /\ at' = at /\ inface' = inface /\ org' = org /\ next' = next /\ side' = side
  BY DEF ChangeEdgeGeom
<1> HIDE DEF z
<1>2. IsLine(g)  BY LinesAreLines
<1>3. /\ Lined(geom, Darts) /\ Drawn(geom, org, at) /\ TakenOnce(geom)
      /\ at \in [DOMAIN at -> Vertices]
      /\ az = Turning(geom, Darts) /\ DOMAIN org = Darts /\ DOMAIN az = Darts
      /\ \A d \in Darts : d \in Int /\ d # 0 /\ -d \in Darts /\ -(-d) = d /\ d # -d
                          /\ org[d] \in DOMAIN at
      /\ e \in DOMAIN geom /\ DOMAIN geom = {d \in Darts : d > 0} /\ e \in Darts /\ -e \in Darts
      /\ Edges = DOMAIN geom
  BY InvFacts DEF Edges
<1>4. Darts' = Darts  BY <1>1 DEF Darts
<1>5. DOMAIN geom' = DOMAIN geom /\ geom'[e] = g /\ \A d \in DOMAIN geom \ {e} : geom'[d] = geom[d]
  BY <1>1, <1>3
<1>6. Lined(geom', Darts') /\ az' = z
  <2> DEFINE H == geom'
  <2>1. /\ Lined(geom, Darts) /\ e \in DOMAIN geom /\ IsLine(g)
        /\ DOMAIN H = DOMAIN geom /\ H[e] = g /\ \A d \in DOMAIN geom \ {e} : H[d] = geom[d]
    BY <1>2, <1>3, <1>5
  <2> HIDE DEF H
  <2>2. Lined(H, Darts) /\ Turning(H, Darts) = Turned(Turning(geom, Darts), e, Leaving(g), Arriving(g))
    BY ONLY <2>1, TurningExcept
  <2>3. Turned(az, e, Leaving(g), Arriving(g)) = z  BY DEF Turned, z
  <2>4. QED  BY <1>3, <1>4, <2>2, <2>3, NextTurning DEF H
<1>7. \A f \in DOMAIN geom \ {e} : ~InteriorsMeet(geom[f], g)
  BY <1>1 DEF CheckEdgeCrossing, Edges
<1>8. TakenOnce(geom')
  <2>1. DOMAIN geom' = DOMAIN geom \cup {e}  BY <1>3, <1>5
  <2>2. \A f \in DOMAIN geom \ {e} : geom'[f] = geom[f] /\ ~InteriorsMeet(geom[f], g)
    BY <1>5, <1>7
  <2>3. QED  BY <1>1, <1>2, <1>3, <1>5, <2>1, <2>2, OnceWith
<1>9. geom[e][1] = at[org[e]] /\ Last(geom[e]) = at[org[-e]]  BY <1>3 DEF Drawn
<1>10. Drawn(geom', org', at')
  <2>1. ASSUME NEW f \in DOMAIN geom'
        PROVE  geom'[f][1] = at[org[f]] /\ Last(geom'[f]) = at[org[-f]]
    <3>1. CASE f = e  BY <1>1, <1>5, <1>9, <3>1
    <3>2. CASE f # e
      <4>1. f \in DOMAIN geom /\ geom'[f] = geom[f]  BY <1>5, <3>2
      <4>2. QED  BY <1>3, <4>1 DEF Drawn
    <3>3. QED  BY <3>1, <3>2
  <2>2. QED  BY <1>1, <2>1 DEF Drawn
<1>11. \A d \in Darts \ {e, -e} : ~InteriorsMeet(geom[EdgeOf(d)], g)
  <2> TAKE d \in Darts \ {e, -e}
  <2>1. EdgeOf(d) \in DOMAIN geom  BY DartFacts DEF Edges
  <2>2. EdgeOf(d) # e  BY <1>3 DEF EdgeOf
  <2>3. QED  BY <1>7, <2>1, <2>2
<1>12. \A k : L!Out(k) = {d \in Darts : org[d] = k}  BY DEF L!Out, L!Darts, Darts
<1>13. L!Free(org[e], Leaving(g), {e, -e})
  <2>1. ASSUME NEW d \in L!Out(org[e]) \ {e, -e}  PROVE az[d] # Leaving(g)
    <3>1. d \in Darts \ {e, -e} /\ org[d] = org[e]  BY <1>12
    <3>2. g[1] = at[org[d]]  BY <1>1, <1>9, <3>1
    <3>3. QED  BY <1>2, <1>11, <3>1, <3>2, FreeDart
  <2>2. QED  BY <2>1 DEF L!Free
<1>14. L!Free(org[-e], Arriving(g), {e, -e})
  <2>1. Reverse(g)[1] = Last(g) /\ Leaving(Reverse(g)) = Arriving(g)
    BY <1>2, ReverseLine, LineEnds
  <2>2. ASSUME NEW d \in L!Out(org[-e]) \ {e, -e}  PROVE az[d] # Leaving(Reverse(g))
    <3>1. d \in Darts \ {e, -e} /\ org[d] = org[-e]  BY <1>12
    <3>2. Reverse(g)[1] = at[org[d]]  BY <1>1, <1>9, <2>1, <3>1
    <3>3. QED  BY <1>2, <1>11, <3>1, <3>2, FreeDart
  <2>3. QED  BY <2>1, <2>2 DEF L!Free
<1>15. ASSUME org[e] = org[-e]  PROVE Leaving(g) # Arriving(g)
  <2>1. g[1] = Last(g)  BY <1>1, <1>9, <1>15
  <2>2. QED  BY <1>1, <1>2, <2>1, LoopEnds
<1>16. Leaving(g) \in L!Azimuths /\ Arriving(g) \in L!Azimuths
  BY <1>2, LineEnds DEF L!Azimuths
<1>17. L!LinkChangeEdgeGeom(e, Leaving(g), Arriving(g))
  BY <1>1, <1>6, <1>13, <1>14, <1>15 DEF L!LinkChangeEdgeGeom, z
<1>18. Faced(DOMAIN at', inface', org', Darts', side')
  BY <1>1, <1>4 DEF TopoInv, Tables
<1>19. at' \in [DOMAIN at' -> Vertices]  BY <1>1, <1>3
<1>20. QED  BY <1>6, <1>8, <1>10, <1>16, <1>17, <1>18, <1>19 DEF Tables

-----------------------------------------------------------------------------
(* Healing two edges.                                                       *)

\* Line j runs along g and then along h.
Along(j, g, h) ==
  /\ IsLine(j) /\ Joins(j, g, h) /\ j[1] = g[1] /\ Last(j) = Last(h)
  /\ Leaving(j) = Leaving(g) /\ Arriving(j) = Arriving(h)

LEMMA JoinedEnds ==
  ASSUME NEW g, NEW h, IsLine(g), IsLine(h), Last(g) = h[1], NEW j, j = g \o Tail(h)
  PROVE  Along(j, g, h)
<1>1. IsLine(j) /\ Joins(j, g, h) /\ Last(j) = Last(h)  BY JoinedLine
<1>2. /\ Len(g) \in Nat /\ Len(g) > 1 /\ Len(h) \in Nat /\ Len(h) > 1
      /\ Last(j) = j[Len(j)]
  BY <1>1, LineFacts
<1>3. j[1] = g[1] /\ j[2] = g[2]  BY <1>1, <1>2 DEF Joins
<1>4. j[Len(j) - 1] = h[Len(h) - 1]
  <2>1. /\ Len(h) - 1 \in 1 .. Len(h)
        /\ Len(g) + (Len(h) - 1) - 1 = Len(g) + Len(h) - 1 - 1
    BY <1>2
  <2>2. j[Len(g) + (Len(h) - 1) - 1] = h[Len(h) - 1]  BY <1>1, <2>1 DEF Joins
  <2>3. Len(j) - 1 = Len(g) + Len(h) - 1 - 1  BY <1>1 DEF Joins
  <2>4. QED  BY <2>1, <2>2, <2>3
<1>5. QED  BY <1>1, <1>3, <1>4 DEF Along, Leaving, Arriving

\* The lines of edges e and f become those of G, turned around or not; then
\* their join, turned around or not, becomes that of edge k.
HealedLines(G, e, f, P, Q, j, k, H) ==
  /\ \A u \in DOMAIN G : IsLine(G[u])
  /\ e \in DOMAIN G /\ f \in DOMAIN G /\ e # f /\ k \notin DOMAIN G \ {e, f}
  /\ P \in {G[e], Reverse(G[e])} /\ Q \in {G[f], Reverse(G[f])} /\ Along(j, P, Q)
  /\ DOMAIN H = (DOMAIN G \ {e, f}) \cup {k} /\ H[k] \in {j, Reverse(j)}
  /\ \A u \in DOMAIN G \ {e, f} : H[u] = G[u]

LEMMA OnceHealed ==
  ASSUME NEW G, NEW e, NEW f, NEW P, NEW Q, NEW j, NEW k, NEW H,
         TakenOnce(G), HealedLines(G, e, f, P, Q, j, k, H)
  PROVE  TakenOnce(H)
<1> DEFINE A == [u \in DOMAIN G |-> IF u = e THEN P ELSE IF u = f THEN Q ELSE G[u]]
           B == [u \in DOMAIN H |-> IF u = k THEN j ELSE G[u]]
<1> USE DEF HealedLines
<1>1. IsLine(P) /\ IsLine(Q)  BY ReverseLine
<1>2. /\ DOMAIN A = DOMAIN G /\ A[e] = P /\ A[f] = Q
      /\ \A u \in DOMAIN G \ {e, f} : A[u] = G[u]
  OBVIOUS
<1>3. /\ DOMAIN B = (DOMAIN A \ {e, f}) \cup {k} /\ B[k] = j
      /\ \A u \in DOMAIN A \ {e, f} : B[u] = A[u] /\ u # k
  OBVIOUS
<1> HIDE DEF A, B
<1>4. TakenOnce(A)
  <2>1. \A u \in DOMAIN G : IsLine(G[u]) /\ A[u] \in {G[u], Reverse(G[u])}  BY <1>2
  <2>2. QED  BY <1>2, <2>1, OnceTurned
<1>5. TakenOnce(B)
  <2>1. Joins(j, P, Q)  BY DEF Along
  <2>2. Joins(B[k], A[e], A[f])  BY <1>2, <1>3, <2>1
  <2>3. /\ e \in DOMAIN A /\ f \in DOMAIN A /\ IsLine(A[e]) /\ IsLine(A[f])
        /\ k \notin DOMAIN A \ {e, f}
    BY <1>1, <1>2
  <2>4. DOMAIN B = (DOMAIN A \ {e, f}) \cup {k} /\ \A u \in DOMAIN A \ {e, f} : B[u] = A[u]
    BY <1>3
  <2>5. QED  BY ONLY e # f, <1>4, <2>2, <2>3, <2>4, OnceJoined
<1>6. DOMAIN H = DOMAIN B /\ \A u \in DOMAIN B : IsLine(B[u]) /\ H[u] \in {B[u], Reverse(B[u])}
  <2>1. IsLine(j)  BY DEF Along
  <2>2. DOMAIN H = DOMAIN B  BY <1>2, <1>3
  <2>3. ASSUME NEW u \in DOMAIN B  PROVE IsLine(B[u]) /\ H[u] \in {B[u], Reverse(B[u])}
    <3>1. CASE u = k  BY <1>3, <2>1, <3>1
    <3>2. CASE u # k
      <4>1. u \in DOMAIN G \ {e, f}  BY <1>2, <1>3, <3>2
      <4>2. QED  BY <1>2, <1>3, <4>1
    <3>3. QED  BY <3>1, <3>2
  <2>4. QED  BY <2>2, <2>3
<1>7. QED  BY <1>5, <1>6, OnceTurned

\* Edge k of darts kd and -kd in the place of darts x and y, which end at one node.
Healed(h, x, y, kd) ==
  [d \in (DOMAIN h \ {x, -x, y, -y}) \cup {kd, -kd} |->
     IF d = kd THEN h[x] ELSE IF d = -kd THEN h[y] ELSE h[d]]

\* Darts x of edge e1 and y of e2 end at node n, and nothing else does.
EndAt(n, e1, e2, x, y) ==
  /\ e1 # e2 /\ x \in Darts /\ -x \in Darts /\ y \in Darts /\ -y \in Darts
  /\ -(-x) = x /\ -(-y) = y
  /\ x # y /\ x # -y /\ -x # y /\ -x # -y
  /\ EdgeOf(x) = e1 /\ EdgeOf(-y) = e2 /\ {x, -x} = {e1, -e1} /\ {y, -y} = {e2, -e2}
  /\ org[-x] = n /\ org[-y] = n /\ org[x] # n /\ org[y] # n
  /\ \A d \in Darts : org[d] = n <=> d \in {-x, -y}

LEMMA HealedDarts ==
  ASSUME TopoInv, NEW e1 \in Edges, NEW e2 \in Edges, NEW x \in {e1, -e1}, NEW y \in {e2, -e2},
         L!HealsAt(e1, e2, x, y)
  PROVE  EndAt(org[-x], e1, e2, x, y)
<1>1. /\ \A d \in Darts : d \in Int /\ -d \in Darts /\ -(-d) = d
      /\ e1 \in Darts /\ e2 \in Darts /\ e1 > 0 /\ e2 > 0
  BY InvFacts
<1>2. x # y /\ x # -y /\ org[x] # org[-x] /\ org[y] # org[-y] /\ L!Out(org[-x]) = {-x, -y}
  BY DEF L!HealsAt, L!Healable
<1>3. \A k : L!Out(k) = {d \in Darts : org[d] = k}  BY DEF L!Out, L!Darts, Darts
<1>4. \A d \in Darts : org[d] = org[-x] <=> d \in {-x, -y}  BY <1>2, <1>3
<1>5. /\ e1 \in Int /\ e2 \in Int /\ -e1 \in Darts /\ -e2 \in Darts /\ -(-e1) = e1 /\ -(-e2) = e2
  BY <1>1
<1>6. /\ x \in Darts /\ -x \in Darts /\ y \in Darts /\ -y \in Darts /\ -(-x) = x /\ -(-y) = y
      /\ x \in Int /\ y \in Int
  BY <1>1, <1>5
<1>7. -x # y /\ -x # -y /\ e1 # e2
  <2>1. -x # y  BY <1>2, <1>6
  <2>2. -x # -y  BY <1>2, <1>6
  <2>3. e1 # e2  BY <1>2, <1>5, <2>1, <2>2
  <2>4. QED  BY <2>1, <2>2, <2>3
<1>8. EdgeOf(x) = e1 /\ EdgeOf(-y) = e2  BY <1>1, <1>5 DEF EdgeOf
<1>9. {x, -x} = {e1, -e1} /\ {y, -y} = {e2, -e2}  BY <1>5
<1>10. org[-y] = org[-x] /\ org[y] # org[-x]  BY <1>2, <1>4, <1>6
<1>11. QED  BY <1>2, <1>4, <1>6, <1>7, <1>8, <1>9, <1>10 DEF EndAt

LEMMA HealEdgesStep ==
  ASSUME TopoInv, NEW e1 \in Edges, NEW e2 \in Edges, NEW x \in {e1, -e1}, NEW y \in {e2, -e2},
         NEW k \in {e1} \cup L!NewEdgeIds(Edges), HealEdges(e1, e2, x, y, k)
  PROVE  /\ L!HealsAt(e1, e2, x, y) /\ L!LinkHealEdges(x, y, k)
         /\ Tables(at', inface', geom', org', Darts', side')
<1> DEFINE kd == IF x > 0 THEN k ELSE -k
           P == Path(geom, x)
           Q == Path(geom, -y)
           j == P \o Tail(Q)
           line == IF x > 0 THEN j ELSE Reverse(j)
           n == org[-x]
           G1 == [u \in DOMAIN geom \ {e1} |-> geom[u]]
           G2 == [u \in Edges \ {e1, e2} |-> geom[u]]
           D1 == Darts \ {e1, -e1}
           D2 == D1 \ {e2, -e2}
<1>1. /\ L!HealsAt(e1, e2, x, y)
      /\ at' = [m \in DOMAIN at \ {n} |-> at[m]]
      /\ inface' = [m \in DOMAIN at \ {n} |-> inface[m]]
      /\ geom' = WithEdge(G2, k, line)
      /\ org' = Healed(org, x, y, kd)
      /\ next' = L!HealLinks(next, x, y, k)
      /\ side' = L!With([d \in Darts \ {x, -x, y, -y} |-> side[d]], k, side[e1], side[-e1])
  BY DEF HealEdges, Healed
<1>2. /\ e1 # e2 /\ x \in Darts /\ -x \in Darts /\ y \in Darts /\ -y \in Darts
      /\ -(-x) = x /\ -(-y) = y
      /\ x # y /\ x # -y /\ -x # y /\ -x # -y
      /\ EdgeOf(x) = e1 /\ EdgeOf(-y) = e2 /\ {x, -x} = {e1, -e1} /\ {y, -y} = {e2, -e2}
      /\ org[-y] = n /\ org[x] # n /\ org[y] # n
      /\ \A d \in Darts : org[d] = n <=> d \in {-x, -y}
  <2>1. L!HealsAt(e1, e2, x, y)  BY <1>1
  <2>2. EndAt(org[-x], e1, e2, x, y)  BY <2>1, HealedDarts
  <2>3. QED  BY <2>2 DEF EndAt
<1>3. /\ Lined(geom, Darts) /\ Drawn(geom, org, at) /\ TakenOnce(geom)
      /\ at \in [DOMAIN at -> Vertices] /\ side \in [Darts -> Nat]
      /\ az = Turning(geom, Darts) /\ DOMAIN org = Darts /\ DOMAIN az = Darts
      /\ \A d \in Darts : d \in Int /\ d # 0 /\ -d \in Darts /\ -(-d) = d /\ d # -d
                          /\ org[d] \in DOMAIN at
      /\ DOMAIN geom = {d \in Darts : d > 0} /\ Edges = DOMAIN geom
      /\ e1 \in DOMAIN geom /\ e2 \in DOMAIN geom
      /\ \A e \in DOMAIN geom : IsLine(geom[e])
  BY InvFacts DEF Edges
<1>4. /\ k \in Int /\ k > 0 /\ -(-k) = k /\ k # -k
      /\ k \notin D2 /\ -k \notin D2 /\ k \notin DOMAIN geom \ {e1, e2}
  <2>1. CASE k = e1
    <3>1. e1 \in Int /\ e1 > 0  BY <1>3
    <3>2. QED  BY <2>1, <3>1
  <2>2. CASE k # e1
    <3>1. k \in L!NewEdgeIds(Edges)  BY <2>2
    <3>2. k \in Int /\ k > 0 /\ -(-k) = k /\ k # -k /\ k \notin Darts /\ -k \notin Darts
      BY <3>1, NewEdge
    <3>3. QED  BY <1>3, <3>2
  <2>3. QED  BY <2>1, <2>2
<1>5. D2 = Darts \ {x, -x, y, -y} /\ {kd, -kd} = {k, -k}
  <2>1. {kd, -kd} = {k, -k}  BY <1>4
  <2>2. D2 = Darts \ ({x, -x} \cup {y, -y})  BY <1>2
  <2>3. QED  BY <2>1, <2>2
<1>6. Darts' = D2 \cup {k, -k}
  <2>1. DOMAIN next' = (DOMAIN next \ {x, -x, y, -y}) \cup {kd, -kd}  BY <1>1 DEF L!HealLinks
  <2> HIDE DEF kd, D2
  <2>2. QED  BY <1>5, <2>1 DEF Darts
<1>7. /\ P \in {geom[e1], Reverse(geom[e1])} /\ Q \in {geom[e2], Reverse(geom[e2])}
      /\ IsLine(P) /\ IsLine(Q)
      /\ P[1] = at[org[x]] /\ Last(P) = at[n] /\ Q[1] = at[n] /\ Last(Q) = at[org[y]]
      /\ az[x] = Leaving(P) /\ az[y] = Arriving(Q)
  <2>1. /\ P \in {geom[e1], Reverse(geom[e1])} /\ IsLine(P) /\ P[1] = at[org[x]]
        /\ az[x] = Leaving(P)
    BY <1>2, DartFacts
  <2>2. /\ Q \in {geom[e2], Reverse(geom[e2])} /\ IsLine(Q) /\ Q[1] = at[org[-y]]
    BY <1>2, DartFacts
  <2>3. Last(P) = Path(geom, -x)[1] /\ Path(geom, -x)[1] = at[org[-x]]
    BY <1>2, <1>3, DartFacts, PathFacts
  <2>4. Last(Q) = at[org[y]] /\ az[y] = Arriving(Q)
    <3> DEFINE z == -y
    <3>1. z \in Darts /\ -z = y  BY <1>2
    <3> HIDE DEF z
    <3>2. Leaving(Path(geom, -z)) = Arriving(Path(geom, z)) /\ Path(geom, -z)[1] = Last(Path(geom, z))
      BY <1>3, <3>1, PathFacts
    <3>3. Path(geom, y)[1] = at[org[y]] /\ az[y] = Leaving(Path(geom, y))  BY <1>2, DartFacts
    <3>4. QED  BY <3>1, <3>2, <3>3 DEF z
  <2>5. QED  BY <1>2, <2>1, <2>2, <2>3, <2>4
<1>8. Along(j, P, Q)
  <2>1. IsLine(P) /\ IsLine(Q) /\ Last(P) = Q[1] /\ j = P \o Tail(Q)  BY <1>7
  <2> HIDE DEF P, Q, j
  <2>2. QED  BY ONLY <2>1, JoinedEnds
<1>9. TakenOnce(geom')
  <2>1. /\ P \in {geom[e1], Reverse(geom[e1])} /\ Q \in {geom[e2], Reverse(geom[e2])}
        /\ Along(j, P, Q)
    BY <1>7, <1>8
  <2>2. line \in {j, Reverse(j)}  OBVIOUS
  <2> HIDE DEF P, Q, j, line
  <2> DEFINE H == geom'
  <2>3. DOMAIN H = (DOMAIN geom \ {e1, e2}) \cup {k} /\ H[k] = line
        /\ \A u \in DOMAIN geom \ {e1, e2} : H[u] = geom[u]
    BY <1>1, <1>3, <1>4 DEF WithEdge
  <2> HIDE DEF H
  <2>4. H[k] \in {j, Reverse(j)}  BY <2>2, <2>3
  <2>5. /\ TakenOnce(geom) /\ (\A u \in DOMAIN geom : IsLine(geom[u]))
        /\ e1 \in DOMAIN geom /\ e2 \in DOMAIN geom /\ e1 # e2 /\ k \notin DOMAIN geom \ {e1, e2}
    BY <1>2, <1>3, <1>4
  <2>6. TakenOnce(H)
    <3>1. HealedLines(geom, e1, e2, P, Q, j, k, H)
      BY ONLY <2>1, <2>3, <2>4, <2>5 DEF HealedLines
    <3>2. QED  BY <2>5, <3>1, OnceHealed
  <2>7. QED  BY <2>6 DEF H
<1>10. /\ IsLine(line)
       /\ IF x > 0
          THEN /\ kd = k /\ Leaving(line) = az[x] /\ Arriving(line) = az[y]
               /\ line[1] = at[org[x]] /\ Last(line) = at[org[y]]
          ELSE /\ kd = -k /\ Leaving(line) = az[y] /\ Arriving(line) = az[x]
               /\ line[1] = at[org[y]] /\ Last(line) = at[org[x]]
  <2> HIDE DEF P, Q, j
  <2>1. /\ IsLine(j) /\ j[1] = at[org[x]] /\ Last(j) = at[org[y]]
        /\ Leaving(j) = az[x] /\ Arriving(j) = az[y]
    BY <1>7, <1>8 DEF Along
  <2>2. /\ IsLine(Reverse(j)) /\ Reverse(j)[1] = Last(j) /\ Last(Reverse(j)) = j[1]
        /\ Leaving(Reverse(j)) = Arriving(j) /\ Arriving(Reverse(j)) = Leaving(j)
    BY <2>1, ReverseLine, LineEnds
  <2>3. QED  BY <2>1, <2>2
<1> HIDE DEF P, Q, j, line
<1>11. Lined(G1, D1) /\ Turning(G1, D1) = L!Without(az, e1)
  <2>1. /\ Lined(geom, Darts) /\ e1 \in DOMAIN geom
        /\ LessLine(G1, geom, e1)
    BY <1>3 DEF LessLine
  <2> HIDE DEF G1
  <2>2. /\ Lined(G1, Darts \ {e1, -e1})
        /\ Turning(G1, Darts \ {e1, -e1}) = L!Without(Turning(geom, Darts), e1)
    BY ONLY <2>1, TurningWithout
  <2>3. QED  BY <1>3, <2>2
<1>12. Lined(G2, D2) /\ Turning(G2, D2) = L!Without(L!Without(az, e1), e2)
  <2>1. /\ Lined(G1, D1) /\ e2 \in DOMAIN G1
        /\ LessLine(G2, G1, e2)
    BY <1>2, <1>3, <1>11 DEF LessLine
  <2> HIDE DEF G1, G2, D1
  <2>2. /\ Lined(G2, D1 \ {e2, -e2})
        /\ Turning(G2, D1 \ {e2, -e2}) = L!Without(Turning(G1, D1), e2)
    BY ONLY <2>1, TurningWithout
  <2>3. QED  BY <1>11, <2>2
<1>13. /\ Lined(geom', Darts')
       /\ az' = L!With(L!Without(L!Without(az, e1), e2), k, Leaving(line), Arriving(line))
  <2>1. /\ Lined(G2, D2) /\ k \in Int /\ k > 0 /\ k \notin D2 /\ -k \notin D2
        /\ IsLine(line) /\ geom' = WithEdge(G2, k, line)
    BY <1>1, <1>4, <1>10, <1>12
  <2> HIDE DEF G2, D2
  <2>2. /\ Lined(geom', D2 \cup {k, -k})
        /\ Turning(geom', D2 \cup {k, -k}) = L!With(Turning(G2, D2), k, Leaving(line), Arriving(line))
    BY ONLY <2>1, TurningWith
  <2>3. QED  BY <1>6, <1>12, <2>2, NextTurning
<1>14. az' = Healed(az, x, y, kd)
  <2> DEFINE v == L!Without(L!Without(az, e1), e2)
             w == L!With(v, k, Leaving(line), Arriving(line))
  <2>1. DOMAIN v = D2 /\ \A d \in D2 : v[d] = az[d]  BY <1>3 DEF L!Without
  <2> HIDE DEF v, D2
  <2>2. w = [d \in (Darts \ {x, -x, y, -y}) \cup {kd, -kd} |->
               IF d = kd THEN az[x] ELSE IF d = -kd THEN az[y] ELSE az[d]]
    <3>1. w = [d \in D2 \cup {k, -k} |-> IF d = k THEN Leaving(line)
                                         ELSE IF d = -k THEN Arriving(line) ELSE v[d]]
      BY <2>1 DEF L!With
    <3>2. D2 \cup {k, -k} = (Darts \ {x, -x, y, -y}) \cup {kd, -kd}
      <4> HIDE DEF kd
      <4>1. QED  BY <1>5
    <3>3. ASSUME NEW d \in D2 \cup {k, -k}
          PROVE  (IF d = k THEN Leaving(line) ELSE IF d = -k THEN Arriving(line) ELSE v[d])
                  = IF d = kd THEN az[x] ELSE IF d = -kd THEN az[y] ELSE az[d]
      <4>1. d # k /\ d # -k => v[d] = az[d]  BY <2>1
      <4>2. CASE x > 0
        <5>1. kd = k /\ Leaving(line) = az[x] /\ Arriving(line) = az[y]  BY <1>10, <4>2
        <5> HIDE DEF kd
        <5>2. QED  BY <4>1, <5>1
      <4>3. CASE ~(x > 0)
        <5>1. kd = -k /\ -kd = k /\ Leaving(line) = az[y] /\ Arriving(line) = az[x]
          BY <1>4, <1>10, <4>3
        <5> HIDE DEF kd
        <5>2. QED  BY <1>4, <4>1, <5>1
      <4>4. QED  BY <4>2, <4>3
    <3> HIDE DEF kd
    <3>4. QED  BY <3>1, <3>2, <3>3
  <2>3. az' = w  BY <1>13 DEF v
  <2>4. QED  BY <1>3, <2>2, <2>3 DEF Healed
<1>15. L!LinkHealEdges(x, y, k)
  <2>1. DOMAIN at' = DOMAIN at \ {n}  BY <1>1
  <2>2. QED  BY <1>1, <1>14, <2>1 DEF L!LinkHealEdges, Healed
<1>16. /\ DOMAIN at' = DOMAIN at \ {n} /\ \A m \in DOMAIN at' : at'[m] = at[m]
       /\ at' = [m \in DOMAIN at' |-> at'[m]]
  BY <1>1
<1>17. /\ org'[kd] = org[x] /\ org'[-kd] = org[y] /\ kd # -kd
       /\ \A d \in D2 : org'[d] = org[d] /\ d # kd /\ d # -kd /\ org[d] # n
  <2>1. kd # -kd  BY <1>4
  <2>2. \A d \in D2 : d # kd /\ d # -kd
    <3>1. \A d \in D2 : d \notin {k, -k}  BY <1>4
    <3> HIDE DEF kd, D2
    <3>2. QED  BY <1>5, <3>1
  <2>3. \A d \in D2 : org[d] # n
    <3>1. \A d \in D2 : d \in Darts /\ d \notin {-x, -y}
      <4> HIDE DEF D2
      <4>1. QED  BY <1>5
    <3> HIDE DEF n
    <3>2. QED  BY <1>2, <3>1
  <2>4. /\ DOMAIN org' = D2 \cup {kd, -kd}
        /\ \A d \in DOMAIN org' : org'[d] = IF d = kd THEN org[x] ELSE IF d = -kd THEN org[y] ELSE org[d]
    <3>1. DOMAIN org = Darts /\ D2 = Darts \ {x, -x, y, -y}  BY <1>3, <1>5
    <3> HIDE DEF D2, kd
    <3>2. QED  BY <1>1, <3>1 DEF Healed
  <2> HIDE DEF D2, kd, n
  <2>5. QED  BY <2>1, <2>2, <2>3, <2>4
<1>18. /\ DOMAIN geom' = (DOMAIN geom \ {e1, e2}) \cup {k} /\ geom'[k] = line
       /\ \A u \in DOMAIN geom \ {e1, e2} : geom'[u] = geom[u]
  BY <1>1, <1>3, <1>4 DEF WithEdge
<1>19. Drawn(geom', org', at')
  <2>1. org[x] \in DOMAIN at' /\ org[y] \in DOMAIN at'
    <3> HIDE DEF n
    <3>1. QED  BY <1>2, <1>3, <1>16
  <2>2. ASSUME NEW u \in DOMAIN geom'
        PROVE  geom'[u][1] = at'[org'[u]] /\ Last(geom'[u]) = at'[org'[-u]]
    <3>1. CASE u = k
      <4>1. at'[org[x]] = at[org[x]] /\ at'[org[y]] = at[org[y]]  BY <1>16, <2>1
      <4>2. CASE x > 0
        <5>1. kd = k /\ line[1] = at[org[x]] /\ Last(line) = at[org[y]]  BY <1>10, <4>2
        <5> HIDE DEF kd
        <5>2. QED  BY <1>17, <1>18, <3>1, <4>1, <5>1
      <4>3. CASE ~(x > 0)
        <5>1. kd = -k /\ -kd = k /\ line[1] = at[org[y]] /\ Last(line) = at[org[x]]
          BY <1>4, <1>10, <4>3
        <5> HIDE DEF kd
        <5>2. QED  BY <1>17, <1>18, <3>1, <4>1, <5>1
      <4>4. QED  BY <4>2, <4>3
    <3>2. CASE u # k
      <4>1. u \in DOMAIN geom \ {e1, e2} /\ geom'[u] = geom[u]  BY <1>18, <3>2
      <4>2. u \in D2 /\ -u \in D2
        <5>1. /\ u \in Int /\ u > 0 /\ -u \in Int /\ e1 \in Int /\ e2 \in Int /\ e1 > 0 /\ e2 > 0
              /\ u \in Darts /\ -u \in Darts
          BY <1>3, <4>1
        <5>2. u \notin {e1, -e1, e2, -e2} /\ -u \notin {e1, -e1, e2, -e2}  BY <4>1, <5>1
        <5>3. QED  BY <5>1, <5>2
      <4>3. /\ org'[u] = org[u] /\ org'[-u] = org[-u] /\ org[u] # n /\ org[-u] # n
            /\ u \in Darts /\ -u \in Darts
        <5> HIDE DEF n
        <5>1. QED  BY <1>17, <4>2
      <4>4. org[u] \in DOMAIN at' /\ org[-u] \in DOMAIN at'
        <5> HIDE DEF n
        <5>1. QED  BY <1>3, <1>16, <4>3
      <4>5. geom[u][1] = at[org[u]] /\ Last(geom[u]) = at[org[-u]]  BY <1>3, <4>1 DEF Drawn
      <4>6. QED  BY <1>16, <4>1, <4>3, <4>4, <4>5
    <3>3. QED  BY <3>1, <3>2
  <2>3. QED  BY <2>2 DEF Drawn
<1>20. Faced(DOMAIN at', inface', org', Darts', side')
  <2>1. Faced(DOMAIN at, inface, org, Darts, side)  BY DEF TopoInv, Tables
  <2>2. side' \in [Darts' -> Nat]
    <3> DEFINE s == [d \in Darts \ {x, -x, y, -y} |-> side[d]]
    <3>1. s \in [D2 -> Nat]
      <4> HIDE DEF D2
      <4>1. QED  BY <1>3, <1>5
    <3>2. side[e1] \in Nat /\ side[-e1] \in Nat  BY <1>3
    <3>3. side' = L!With(s, k, side[e1], side[-e1])  BY <1>1
    <3> HIDE DEF s, D2
    <3>4. QED  BY <1>6, <3>1, <3>2, <3>3 DEF L!With
  <2>3. DOMAIN inface' = DOMAIN at' /\ \A m \in DOMAIN at' : inface'[m] = inface[m]
    BY <1>1, <1>16
  <2>4. ASSUME NEW m \in DOMAIN at'
        PROVE  inface'[m] \in Nat \cup {None} /\ (inface'[m] = None <=> \E d \in Darts' : org'[d] = m)
    <3>1. m \in DOMAIN at /\ m # n
      <4> HIDE DEF n
      <4>1. QED  BY <1>16
    <3>2. inface[m] \in Nat \cup {None} /\ (inface[m] = None <=> \E d \in Darts : org[d] = m)
      BY <2>1, <3>1 DEF Faced
    <3>3. kd \in Darts' /\ -kd \in Darts' /\ \A d \in Darts' : d \in D2 \/ d = kd \/ d = -kd
      <4> HIDE DEF kd, D2
      <4>1. QED  BY <1>5, <1>6
    <3>4. ASSUME NEW d \in Darts, org[d] = m  PROVE \E c \in Darts' : org'[c] = m
      <4> HIDE DEF kd
      <4>1. CASE d = x  BY <1>17, <3>3, <3>4, <4>1
      <4>2. CASE d = y  BY <1>17, <3>3, <3>4, <4>2
      <4>3. CASE d # x /\ d # y
        <5>1. d # -x /\ d # -y
          <6> HIDE DEF n
          <6>1. QED  BY <1>2, <3>1, <3>4
        <5>2. d \in D2
          <6> HIDE DEF D2
          <6>1. QED  BY <1>5, <4>3, <5>1
        <5>3. d \in Darts' /\ org'[d] = m
          <6> HIDE DEF D2
          <6>1. QED  BY <1>6, <1>17, <3>4, <5>2
        <5>4. QED  BY <5>3
      <4>4. QED  BY <4>1, <4>2, <4>3
    <3>5. ASSUME NEW d \in Darts', org'[d] = m  PROVE \E c \in Darts : org[c] = m
      <4> HIDE DEF kd
      <4>1. CASE d = kd  BY <1>2, <1>17, <3>5, <4>1
      <4>2. CASE d = -kd  BY <1>2, <1>17, <3>5, <4>2
      <4>3. CASE d \in D2  BY <1>17, <3>5, <4>3
      <4> HIDE DEF D2
      <4>4. QED  BY <3>3, <4>1, <4>2, <4>3
    <3>6. inface'[m] = inface[m]  BY <2>3
    <3>7. QED  BY <3>2, <3>4, <3>5, <3>6
  <2>5. QED  BY <2>2, <2>3, <2>4 DEF Faced
<1>21. at' \in [DOMAIN at' -> Vertices]
  <2>1. \A m \in DOMAIN at' : at'[m] \in Vertices
    <3> HIDE DEF n
    <3>1. QED  BY <1>3, <1>16
  <2>2. QED  BY <1>16, <2>1
<1>22. QED  BY <1>1, <1>9, <1>13, <1>15, <1>19, <1>20, <1>21 DEF Tables

LEMMA SameNext == L!LinkNext => LP!LinkNext
  BY Zenon DEF
      L!LinkNext, LP!LinkNext, L!LinkAddIsoNode, LP!LinkAddIsoNode,
      L!LinkRemoveIsoNode, LP!LinkRemoveIsoNode, L!LinkAddIsoEdge,
      LP!LinkAddIsoEdge, L!LinkAddEdge, LP!LinkAddEdge, L!LinkModEdgeSplit,
      LP!LinkModEdgeSplit, L!LinkNewEdgesSplit, LP!LinkNewEdgesSplit, L!LinkRemEdge,
      LP!LinkRemEdge, L!HealsAt, LP!HealsAt, L!LinkHealEdges, LP!LinkHealEdges,
      L!LinkChangeEdgeGeom, LP!LinkChangeEdgeGeom, L!Darts, LP!Darts, L!Edges,
      LP!Edges, L!Out, LP!Out, L!NewEdgeIds, LP!NewEdgeIds, L!EdgeIds, LP!EdgeIds,
      L!Azimuths, LP!Azimuths, L!With, LP!With, L!Without, LP!Without, L!azdif,
      LP!azdif, L!nextCW, LP!nextCW, L!nextCCW, LP!nextCCW, L!Free, LP!Free,
      L!AddLinks, LP!AddLinks, L!SplitLinks, LP!SplitLinks, L!NewSplitLinks,
      LP!NewSplitLinks, L!RemLinks, LP!RemLinks, L!Healable, LP!Healable,
      L!HealLinks, LP!HealLinks, L!SameNeighbours, LP!SameNeighbours

LEMMA SameInit == L!LinkInit => LP!LinkInit
  BY DEF L!LinkInit, LP!LinkInit

LEMMA SameRotation == LP!Rotation => L!Rotation
  BY Zenon DEF LP!Rotation, L!Rotation, LP!Darts, L!Darts, LP!Out, L!Out, LP!Turn, L!Turn

-----------------------------------------------------------------------------
(* Every call.                                                              *)

\* The tables after a call.
TablesNext == Tables(at', inface', geom', org', Darts', side')

\* TopoGeometries come and go without the tables of the topology.
LEMMA RelationStep ==
  ASSUME TopoInv, UNCHANGED <<at, inface, geom, org, next, side>>
  PROVE  UNCHANGED <<DOMAIN at, org, az, next>> /\ TablesNext
<1>1. /\ at' = at /\ inface' = inface /\ geom' = geom /\ org' = org /\ next' = next
      /\ side' = side
  OBVIOUS
<1>2. Darts' = Darts  BY <1>1 DEF Darts
<1>3. az' = az  BY <1>1, <1>2, NextTurning, InvFacts
<1>4. TablesNext  BY <1>1, <1>2 DEF TablesNext, TopoInv
<1>5. QED  BY <1>1, <1>3, <1>4

LEMMA SameEdges == ASSUME TopoInv PROVE L!Edges = Edges
<1>1. Edges = {d \in Darts : d > 0}  BY InvFacts
<1>2. QED  BY <1>1 DEF L!Edges, L!Darts, Darts

LEMMA LineAzimuths ==
  ASSUME NEW g \in Lines
  PROVE  Leaving(g) \in L!Azimuths /\ Arriving(g) \in L!Azimuths
<1>1. Leaving(g) \in 0 .. 7 /\ Arriving(g) \in 0 .. 7  BY LinesAreLines, LineEnds
<1>2. QED  BY <1>1 DEF L!Azimuths

\* Each call changes the links as TopoLinks says, or not at all, and leaves the
\* tables in order.
Implements == (L!LinkNext \/ UNCHANGED <<DOMAIN at, org, az, next>>) /\ TablesNext

LEMMA NodeOpsStep == ASSUME TopoInv, NodeOps PROVE Implements
<1>1. ASSUME NEW n \in Nodes, NEW p \in Sites, AddIsoNode(n, p)  PROVE Implements
  <2>1. L!LinkAddIsoNode(n) /\ TablesNext  BY <1>1, AddIsoNodeStep DEF TablesNext
  <2>2. L!LinkNext  BY <2>1, Zenon DEF L!LinkNext
  <2>3. QED  BY <2>1, <2>2 DEF Implements
<1>2. ASSUME NEW n \in DOMAIN at, NEW p \in Sites, MoveIsoNode(n, p)  PROVE Implements
  BY <1>2, MoveIsoNodeStep DEF TablesNext, Implements
<1>3. ASSUME NEW n \in DOMAIN at, RemoveIsoNode(n)  PROVE Implements
  <2>1. L!LinkRemoveIsoNode(n) /\ TablesNext  BY <1>3, RemoveIsoNodeStep DEF TablesNext
  <2>2. n \in Nodes  BY InvFacts
  <2>3. L!LinkNext  BY <2>1, <2>2, Zenon DEF L!LinkNext
  <2>4. QED  BY <2>1, <2>3 DEF Implements
<1>4. QED  BY <1>1, <1>2, <1>3, Zenon DEF NodeOps

LEMMA AddOpsStep == ASSUME TopoInv, AddOps PROVE Implements
<1>1. PICK e \in L!NewEdgeIds(Edges), m \in DOMAIN at, n \in DOMAIN at, g \in Lines :
        AddIsoEdge(e, m, n, g) \/ \E modFace \in BOOLEAN : AddEdge(e, m, n, g, modFace)
  BY Zenon DEF AddOps
<1> DEFINE a == Leaving(g)
           b == Arriving(g)
<1>2. /\ m \in Nodes /\ n \in Nodes /\ a \in L!Azimuths /\ b \in L!Azimuths
      /\ e \in L!NewEdgeIds(L!Edges)
  BY InvFacts, LineAzimuths, SameEdges
<1>3. (L!LinkAddIsoEdge(e, m, n, a, b) \/ L!LinkAddEdge(e, m, n, a, b)) /\ TablesNext
  <2>1. CASE AddIsoEdge(e, m, n, g)  BY <2>1, AddIsoEdgeStep DEF TablesNext
  <2>2. ASSUME NEW modFace \in BOOLEAN, AddEdge(e, m, n, g, modFace)
        PROVE  L!LinkAddEdge(e, m, n, a, b) /\ TablesNext
    BY <2>2, AddEdgeStep DEF TablesNext
  <2>3. QED  BY <1>1, <2>1, <2>2
<1>4. L!LinkNext
  <2> HIDE DEF a, b
  <2>1. QED  BY <1>2, <1>3, Zenon DEF L!LinkNext
<1>5. QED  BY <1>3, <1>4 DEF Implements

LEMMA SplitOpsStep == ASSUME TopoInv, SplitOps PROVE Implements
<1>1. PICK e \in Edges, n \in Nodes, p \in Sites, f \in L!NewEdgeIds(Edges) :
        \/ ModEdgeSplit(e, n, p, f)
        \/ \E g \in L!NewEdgeIds(Edges \cup {f}) : NewEdgesSplit(e, n, p, f, g)
  BY Zenon DEF SplitOps
<1>2. L!Edges = Edges  BY SameEdges
<1>3. CASE ModEdgeSplit(e, n, p, f)
  <2>1. (\E a, b \in L!Azimuths : L!LinkModEdgeSplit(e, n, f, a, b)) /\ TablesNext
    BY <1>3, ModEdgeSplitStep DEF TablesNext
  <2>2. L!LinkNext
    <3>1. PICK a \in L!Azimuths, b \in L!Azimuths : L!LinkModEdgeSplit(e, n, f, a, b)
      BY <2>1
    <3>2. e \in L!Edges /\ f \in L!NewEdgeIds(L!Edges)  BY <1>2
    <3>3. QED  BY <3>1, <3>2, Zenon DEF L!LinkNext
  <2>3. QED  BY <2>1, <2>2 DEF Implements
<1>4. ASSUME NEW g \in L!NewEdgeIds(Edges \cup {f}), NewEdgesSplit(e, n, p, f, g)
      PROVE  Implements
  <2>1. (\E a, b \in L!Azimuths : L!LinkNewEdgesSplit(e, n, f, g, a, b)) /\ TablesNext
    BY <1>4, NewEdgesSplitStep DEF TablesNext
  <2>2. L!LinkNext
    <3>1. PICK a \in L!Azimuths, b \in L!Azimuths : L!LinkNewEdgesSplit(e, n, f, g, a, b)
      BY <2>1
    <3>2. /\ e \in L!Edges /\ f \in L!NewEdgeIds(L!Edges)
          /\ g \in L!NewEdgeIds(L!Edges \cup {f})
      BY <1>2
    <3>3. QED  BY <3>1, <3>2, Zenon DEF L!LinkNext
  <2>3. QED  BY <2>1, <2>2 DEF Implements
<1>5. QED  BY <1>1, <1>3, <1>4, Zenon

LEMMA HealOpsStep == ASSUME TopoInv, HealOps PROVE Implements
<1>1. PICK e1 \in Edges, e2 \in Edges : \E x \in {e1, -e1}, y \in {e2, -e2} :
        \E k \in {e1} \cup L!NewEdgeIds(Edges) : HealEdges(e1, e2, x, y, k)
  BY Zenon DEF HealOps
<1>2. PICK x \in {e1, -e1}, y \in {e2, -e2} :
        \E k \in {e1} \cup L!NewEdgeIds(Edges) : HealEdges(e1, e2, x, y, k)
  BY <1>1, Zenon
<1>3. PICK k \in {e1} \cup L!NewEdgeIds(Edges) : HealEdges(e1, e2, x, y, k)
  BY <1>2, Zenon
<1>4. L!HealsAt(e1, e2, x, y) /\ L!LinkHealEdges(x, y, k) /\ TablesNext
  BY <1>3, HealEdgesStep DEF TablesNext
<1>5. /\ e1 \in L!Edges /\ e2 \in L!Edges /\ k \in {e1} \cup L!NewEdgeIds(L!Edges)
  BY SameEdges
<1>6. L!LinkNext  BY <1>4, <1>5, Zenon DEF L!LinkNext
<1>7. QED  BY <1>4, <1>6 DEF Implements

LEMMA RemOpsStep == ASSUME TopoInv, RemOps PROVE Implements
<1>1. PICK e \in Edges : RemIsoEdge(e) \/ \E modFace \in BOOLEAN : RemEdge(e, modFace)
  BY Zenon DEF RemOps
<1>2. L!LinkRemEdge(e) /\ TablesNext
  <2>1. CASE RemIsoEdge(e)  BY <2>1, RemIsoEdgeStep DEF TablesNext
  <2>2. ASSUME NEW modFace \in BOOLEAN, RemEdge(e, modFace)
        PROVE  L!LinkRemEdge(e) /\ TablesNext
    BY <2>2, RemEdgeStep DEF TablesNext
  <2>3. QED  BY <1>1, <2>1, <2>2
<1>3. e \in L!Edges  BY SameEdges
<1>4. L!LinkNext  BY <1>2, <1>3, Zenon DEF L!LinkNext
<1>5. QED  BY <1>2, <1>4 DEF Implements

LEMMA ChangeOpsStep == ASSUME TopoInv, ChangeOps PROVE Implements
<1>1. PICK e \in Edges, g \in Lines : ChangeEdgeGeom(e, g)  BY Zenon DEF ChangeOps
<1>2. (\E a, b \in L!Azimuths : L!LinkChangeEdgeGeom(e, a, b)) /\ TablesNext
  BY <1>1, ChangeEdgeGeomStep DEF TablesNext
<1>3. PICK a \in L!Azimuths, b \in L!Azimuths : L!LinkChangeEdgeGeom(e, a, b)  BY <1>2
<1>4. e \in L!Edges  BY SameEdges
<1>5. L!LinkNext  BY <1>3, <1>4, Zenon DEF L!LinkNext
<1>6. QED  BY <1>2, <1>5 DEF Implements

LEMMA RelationOpsStep == ASSUME TopoInv, RelationOps PROVE Implements
<1>1. UNCHANGED <<at, inface, geom, org, next, side>>
  BY DEF RelationOps, TopoGeom_addElement, TopoGeom_remElement, clearTopoGeom
<1>2. QED  BY <1>1, RelationStep DEF Implements

LEMMA EveryStep ==
  ASSUME TopoInv, [Next]_vars
  PROVE  Implements /\ DOMAIN face' \subseteq 0 .. MaxFace
<1>1. CASE Next
  <2>1. Implements
    BY <1>1, NodeOpsStep, AddOpsStep, SplitOpsStep, HealOpsStep, RemOpsStep,
       ChangeOpsStep, RelationOpsStep, Zenon DEF Next
  <2>2. QED  BY <1>1, <2>1 DEF Next
<1>2. CASE UNCHANGED vars
  <2>1. UNCHANGED <<at, inface, geom, org, next, side>> /\ face' = face
    BY <1>2 DEF vars
  <2>2. QED  BY <2>1, RelationStep DEF Implements, TopoInv
<1>3. QED  BY <1>1, <1>2

LEMMA Start == Init => TopoInv /\ L!LinkInit
<1> SUFFICES ASSUME Init PROVE TopoInv /\ L!LinkInit
  OBVIOUS
<1>1. /\ DOMAIN at = {} /\ DOMAIN inface = {} /\ DOMAIN geom = {}
      /\ DOMAIN org = {} /\ DOMAIN next = {} /\ DOMAIN side = {} /\ DOMAIN face = {0}
      /\ at = [n \in {} |-> 0] /\ org = [d \in {} |-> 0] /\ next = [d \in {} |-> 0]
      /\ side = [d \in {} |-> 0]
  BY DEF Init, Universe
<1>2. Darts = {} /\ Edges = {}  BY <1>1 DEF Darts, Edges
<1>3. az = [d \in {} |-> 0]  BY <1>2 DEF az
<1>4. L!LinkInit  BY <1>1, <1>3 DEF L!LinkInit
<1>5. LP!LinkInv  BY <1>4, SameInit, Linking, LP!StartInv
<1>6. Tables(at, inface, geom, org, Darts, side)
  <2>1. at \in [DOMAIN at -> Vertices]  BY <1>1
  <2>2. Lined(geom, Darts)  BY <1>1, <1>2 DEF Lined
  <2>3. Drawn(geom, org, at)  BY <1>1 DEF Drawn
  <2>4. TakenOnce(geom)  BY <1>1 DEF TakenOnce
  <2>5. Faced(DOMAIN at, inface, org, Darts, side)  BY <1>1, <1>2 DEF Faced
  <2>6. QED  BY <2>1, <2>2, <2>3, <2>4, <2>5 DEF Tables
<1>7. DOMAIN face \subseteq 0 .. MaxFace  BY <1>1, TopologyAssumption
<1>8. QED  BY <1>4, <1>5, <1>6, <1>7 DEF TopoInv

LEMMA Inductive ==
  ASSUME AnySplit = FALSE, TopoInv, [Next]_vars
  PROVE  TopoInv'
<1>1. Implements /\ DOMAIN face' \subseteq 0 .. MaxFace  BY EveryStep
<1>2. [LP!LinkNext]_(LP!linkVars)
  <2>1. LP!LinkNext \/ UNCHANGED <<DOMAIN at, org, az, next>>
    BY <1>1, SameNext DEF Implements
  <2>2. QED  BY <2>1, Zenon DEF LP!linkVars
<1>3. LP!LinkInv'  BY <1>2, Linking, LP!StepInv, Zenon DEF TopoInv
<1>4. TablesNext  BY <1>1 DEF Implements
<1>5. QED  BY <1>1, <1>3, <1>4 DEF TablesNext, TopoInv

-----------------------------------------------------------------------------

\* Whatever functions are called, on any grid, with any lines, sites and number
\* of nodes, edges and faces: what a call does to the linking columns together
\* with nodes, faces and lines is a step of TopoLinks, or leaves them alone.
THEOREM LinksImplemented ==
  ASSUME AnySplit = FALSE
  PROVE  Spec => LinksRefined
<1> DEFINE Linked == UNCHANGED <<DOMAIN at, org, az, next>> \/ L!LinkNext
<1>1. Init => TopoInv /\ L!LinkInit  BY Start
<1>2. TopoInv /\ [Next]_vars => TopoInv'  BY Inductive, Zenon
<1>3. TopoInv /\ [Next]_vars => [Linked]_<<DOMAIN at, org, az, next>>
  BY EveryStep, Zenon DEF Implements
<1>4. QED  BY <1>1, <1>2, <1>3, PTL DEF Spec, LinksRefined

\* After any sequence of calls a node has a containing face just if no edge
\* meets it: every function that ties an edge to a node or unties the last one
\* updates containing_face in the same call.
THEOREM IsolationAlwaysExact ==
  ASSUME AnySplit = FALSE
  PROVE  Spec => []IsolationExact
<1>1. Init => TopoInv  BY Start
<1>2. TopoInv /\ [Next]_vars => TopoInv'  BY Inductive, Zenon
<1>3. TopoInv => IsolationExact  BY InvFacts DEF IsolationExact
<1>4. QED  BY <1>1, <1>2, <1>3, PTL DEF Spec

\* After any sequence of calls the line of each edge runs from its start node to
\* its end node, and no two edges share a piece of line: a split, a healing or a
\* new line never lays one edge over another.
THEOREM EdgesNeverOverlap ==
  ASSUME AnySplit = FALSE
  PROVE  Spec => [](Drawn(geom, org, at) /\ TakenOnce(geom))
<1>1. Init => TopoInv  BY Start
<1>2. TopoInv /\ [Next]_vars => TopoInv'  BY Inductive, Zenon
<1>3. TopoInv => Drawn(geom, org, at) /\ TakenOnce(geom)  BY InvFacts
<1>4. QED  BY <1>1, <1>2, <1>3, PTL DEF Spec

\* After any sequence of calls next_left and next_right name the first edge end
\* met clockwise around the node, at the azimuths of the lines themselves.
THEOREM TopologyFollowsPlane ==
  ASSUME AnySplit = FALSE
  PROVE  Spec => []L!Rotation
<1>1. Init => TopoInv  BY Start
<1>2. TopoInv /\ [Next]_vars => TopoInv'  BY Inductive, Zenon
<1>3. TopoInv => L!Rotation
  <2>1. LP!LinkInv => LP!Rotation  BY Linking, LP!InvRotation
  <2>2. QED  BY <2>1, SameRotation DEF TopoInv
<1>4. QED  BY <1>1, <1>2, <1>3, PTL DEF Spec

-----------------------------------------------------------------------------
(* The rows of relation.                                                    *)

\* Rows of nodes and edges name nodes N and darts D.
Names(R, N, D) ==
  \A row \in R : /\ row[1] \in TopoGeoms
                 /\ row[2] = NodeType => row[3] \in N
                 /\ row[2] = EdgeType => row[3] \in D

RowsNamed == Names(relation, DOMAIN at, Darts)

\* All rows of R are old ones or name a face.
OfFaces(R) == \A row \in R : \/ row \in relation
                             \/ row[1] \in TopoGeoms /\ row[2] = FaceType

LEMMA MoreNames ==
  ASSUME RowsNamed, NEW R, NEW N, NEW D, OfFaces(R), DOMAIN at \subseteq N, Darts \subseteq D
  PROVE  Names(R, N, D)
  BY DEF RowsNamed, OfFaces, Names, NodeType, EdgeType, FaceType

LEMMA SameRows == OfFaces(relation)
  BY DEF OfFaces

\* Rows of a face give way to rows of others, of the same TopoGeometries.
LEMMA FaceSplitRows ==
  ASSUME RowsNamed, NEW f, NEW new1, NEW new2
  PROVE  OfFaces(updateTopoGeomFaceSplit(f, new1, new2))
  BY DEF updateTopoGeomFaceSplit, OfFaces, RowsNamed, Names

LEMMA FaceHealRows ==
  ASSUME RowsNamed, NEW f, NEW g, NEW h
  PROVE  OfFaces(updateTopoGeomFaceHeal(f, g, h))
  BY DEF updateTopoGeomFaceHeal, OfFaces, RowsNamed, Names

LEMMA NodeOpsRows == ASSUME TopoInv, RowsNamed, NodeOps PROVE RowsNamed'
<1>1. relation' = relation /\ next' = next /\ Darts' = Darts
  BY DEF NodeOps, AddIsoNode, MoveIsoNode, RemoveIsoNode, Darts
<1>2. CASE DOMAIN at \subseteq DOMAIN at'
  BY <1>1, <1>2, MoreNames, SameRows DEF RowsNamed
<1>3. ASSUME NEW n \in DOMAIN at, RemoveIsoNode(n)  PROVE RowsNamed'
  <2>1. DOMAIN at' = DOMAIN at \ {n}  BY <1>3 DEF RemoveIsoNode
  <2>2. \A row \in relation : ~(row[2] = NodeType /\ row[3] = n)
    BY <1>3 DEF RemoveIsoNode, checkTopoGeomRemIsoNode
  <2>3. QED  BY <1>1, <2>1, <2>2 DEF RowsNamed, Names
<1>4. ASSUME NEW n, NEW p, AddIsoNode(n, p) \/ MoveIsoNode(n, p)
      PROVE  DOMAIN at \subseteq DOMAIN at'
  BY <1>4 DEF AddIsoNode, MoveIsoNode, WithEdge
<1>5. QED  BY <1>2, <1>3, <1>4, Zenon DEF NodeOps

LEMMA AddOpsRows == ASSUME TopoInv, RowsNamed, AddOps PROVE RowsNamed'
<1>1. PICK e, m, n, g :
        AddIsoEdge(e, m, n, g) \/ \E modFace \in BOOLEAN : AddEdge(e, m, n, g, modFace)
  BY Zenon DEF AddOps
<1>2. CASE AddIsoEdge(e, m, n, g)
  <2>1. at' = at /\ relation' = relation /\ next' = L!With(next, e, -e, e)
    BY <1>2 DEF AddIsoEdge
  <2>2. Darts \subseteq Darts'  BY <2>1 DEF Darts, L!With
  <2>3. QED  BY <2>1, <2>2, MoreNames, SameRows DEF RowsNamed
<1>3. ASSUME NEW modFace \in BOOLEAN, AddEdge(e, m, n, g, modFace)  PROVE RowsNamed'
  <2>1. /\ at' = at
        /\ next' = L!AddLinks(e, m, n, L!With(az, e, Leaving(g), Arriving(g)))
        /\ relation' = relation
           \/ \E f, new1, new2 : relation' = updateTopoGeomFaceSplit(f, new1, new2)
    BY <1>3 DEF AddEdge
  <2>2. Darts \subseteq Darts'
    BY <2>1 DEF Darts, L!AddLinks, L!With, L!Darts
  <2>3. OfFaces(relation')  BY <2>1, FaceSplitRows, SameRows
  <2>4. QED  BY <2>1, <2>2, <2>3, MoreNames DEF RowsNamed
<1>4. QED  BY <1>1, <1>2, <1>3

LEMMA SplitOpsRows == ASSUME TopoInv, RowsNamed, SplitOps PROVE RowsNamed'
<1>1. PICK e \in Edges, n \in Nodes, p \in Sites, f \in L!NewEdgeIds(Edges) :
        \/ ModEdgeSplit(e, n, p, f)
        \/ \E g \in L!NewEdgeIds(Edges \cup {f}) : NewEdgesSplit(e, n, p, f, g)
  BY Zenon DEF SplitOps
<1>2. CASE ModEdgeSplit(e, n, p, f)
  <2>1. /\ at' = WithEdge(at, n, p) /\ next' = L!SplitLinks(e, f)
        /\ relation' = updateTopoGeomEdgeSplit(e, f)
    BY <1>2 DEF ModEdgeSplit
  <2>2. DOMAIN at \subseteq DOMAIN at'  BY <2>1 DEF WithEdge
  <2>3. Darts' = Darts \cup {f, -f}
    BY <2>1 DEF Darts, L!SplitLinks, L!With, L!Darts
  <2>4. ASSUME NEW row \in relation'
        PROVE  \/ row \in relation
               \/ row[1] \in TopoGeoms /\ row[2] = EdgeType /\ row[3] \in {f, -f}
    BY <2>1 DEF updateTopoGeomEdgeSplit, RowsOf, RowsNamed, Names
  <2>5. QED  BY <2>2, <2>3, <2>4 DEF RowsNamed, Names, NodeType, EdgeType
<1>3. ASSUME NEW g \in L!NewEdgeIds(Edges \cup {f}), NewEdgesSplit(e, n, p, f, g)
      PROVE  RowsNamed'
  <2>1. /\ at' = WithEdge(at, n, p) /\ next' = L!NewSplitLinks(e, f, g)
        /\ relation' = relation /\ RowsOf(e) = {}
    BY <1>3 DEF NewEdgesSplit
  <2>2. DOMAIN at \subseteq DOMAIN at'  BY <2>1 DEF WithEdge
  <2>3. Darts \ {e, -e} \subseteq Darts'
    BY <2>1 DEF Darts, L!NewSplitLinks, L!With, L!Darts
  <2>4. \A row \in relation : row[2] = EdgeType => row[3] \notin {e, -e}
    BY <2>1 DEF RowsOf
  <2>5. QED  BY <2>1, <2>2, <2>3, <2>4 DEF RowsNamed, Names
<1>4. QED  BY <1>1, <1>2, <1>3

LEMMA HealOpsRows == ASSUME TopoInv, RowsNamed, HealOps PROVE RowsNamed'
<1>1. PICK e1 \in Edges, e2 \in Edges : \E x \in {e1, -e1}, y \in {e2, -e2} :
        \E k \in {e1} \cup L!NewEdgeIds(Edges) : HealEdges(e1, e2, x, y, k)
  BY Zenon DEF HealOps
<1>2. PICK x \in {e1, -e1}, y \in {e2, -e2} :
        \E k \in {e1} \cup L!NewEdgeIds(Edges) : HealEdges(e1, e2, x, y, k)
  BY <1>1, Zenon
<1>3. PICK k \in {e1} \cup L!NewEdgeIds(Edges) : HealEdges(e1, e2, x, y, k)
  BY <1>2, Zenon
<1> DEFINE n  == org[-x]
           kd == IF x > 0 THEN k ELSE -k
<1>4. /\ at' = [m \in DOMAIN at \ {n} |-> at[m]] /\ next' = L!HealLinks(next, x, y, k)
      /\ relation' = updateTopoGeomEdgeHeal(e1, e2, k)
      /\ checkTopoGeomRemIsoNode(n)
  BY <1>3 DEF HealEdges, checkTopoGeomRemNode
<1>5. Darts' = (Darts \ {x, -x, y, -y}) \cup {kd, -kd}
  BY <1>4 DEF Darts, L!HealLinks
<1>6. {x, -x, y, -y} = {e1, -e1, e2, -e2} /\ {kd, -kd} = {k, -k}
  <2>1. e1 \in Int /\ e2 \in Int /\ -(-e1) = e1 /\ -(-e2) = e2  BY InvFacts
  <2>2. k \in Int /\ -(-k) = k  BY <2>1, TopologyAssumption DEF L!NewEdgeIds, L!EdgeIds
  <2>3. QED  BY <2>1, <2>2
<1>7. ASSUME NEW row \in relation'
      PROVE  \/ row \in relation /\ row \notin RowsOf(e1) \cup RowsOf(e2)
             \/ row[1] \in TopoGeoms /\ row[2] = EdgeType /\ row[3] \in {k, -k}
  BY <1>4 DEF updateTopoGeomEdgeHeal, RowsOf, RowsNamed, Names
<1>8. \A row \in relation : ~(row[2] = NodeType /\ row[3] = n)
  BY <1>4 DEF checkTopoGeomRemIsoNode
<1>9. ASSUME NEW row \in relation'
      PROVE  /\ row[1] \in TopoGeoms
             /\ row[2] = NodeType => row[3] \in DOMAIN at'
             /\ row[2] = EdgeType => row[3] \in Darts'
  <2>1. CASE row \in relation /\ row \notin RowsOf(e1) \cup RowsOf(e2)
    <3>1. row[2] = NodeType => row[3] \in DOMAIN at'
      BY <1>4, <1>8, <2>1 DEF RowsNamed, Names
    <3>2. row[2] = EdgeType => row[3] \in Darts \ {e1, -e1, e2, -e2}
      BY <2>1 DEF RowsOf, RowsNamed, Names
    <3>3. QED  BY <1>5, <1>6, <2>1, <3>1, <3>2 DEF RowsNamed, Names
  <2>2. CASE row[1] \in TopoGeoms /\ row[2] = EdgeType /\ row[3] \in {k, -k}
    BY <1>5, <1>6, <2>2 DEF NodeType, EdgeType
  <2>3. QED  BY <1>7, <2>1, <2>2
<1>10. QED  BY <1>9 DEF RowsNamed, Names

LEMMA RemOpsRows == ASSUME TopoInv, RowsNamed, RemOps PROVE RowsNamed'
<1>1. PICK e \in Edges : RemIsoEdge(e) \/ \E modFace \in BOOLEAN : RemEdge(e, modFace)
  BY Zenon DEF RemOps
<1>2. /\ at' = at /\ RowsOf(e) = {} /\ Darts' = Darts \ {e, -e}
      /\ OfFaces(relation')
  <2>1. CASE RemIsoEdge(e)
    <3>1. at' = at /\ RowsOf(e) = {} /\ next' = L!Without(next, e) /\ relation' = relation
      BY <2>1 DEF RemIsoEdge
    <3>2. Darts' = Darts \ {e, -e}  BY <3>1 DEF Darts, L!Without
    <3>3. QED  BY <3>1, <3>2, SameRows
  <2>2. ASSUME NEW modFace \in BOOLEAN, RemEdge(e, modFace)
        PROVE  /\ at' = at /\ RowsOf(e) = {} /\ Darts' = Darts \ {e, -e}
               /\ OfFaces(relation')
    <3>1. /\ at' = at /\ RowsOf(e) = {} /\ next' = L!RemLinks(org, next, e)
          /\ relation' = relation
             \/ \E f, g, h : relation' = updateTopoGeomFaceHeal(f, g, h)
      BY <2>2 DEF RemEdge, checkTopoGeomRemEdge
    <3>2. Darts' = Darts \ {e, -e}  BY <3>1 DEF Darts, L!RemLinks
    <3>3. QED  BY <3>1, <3>2, FaceHealRows, SameRows
  <2>3. QED  BY <1>1, <2>1, <2>2
<1>3. \A row \in relation : row[2] = EdgeType => row[3] \notin {e, -e}
  BY <1>2 DEF RowsOf
<1>4. QED  BY <1>2, <1>3 DEF OfFaces, RowsNamed, Names, NodeType, EdgeType, FaceType

LEMMA ChangeOpsRows == ASSUME TopoInv, RowsNamed, ChangeOps PROVE RowsNamed'
<1>1. at' = at /\ next' = next /\ relation' = relation  BY DEF ChangeOps, ChangeEdgeGeom
<1>2. QED  BY <1>1 DEF RowsNamed, Darts

LEMMA RelationOpsRows == ASSUME TopoInv, RowsNamed, RelationOps PROVE RowsNamed'
<1>1. at' = at /\ next' = next /\ Darts' = Darts
  BY DEF RelationOps, TopoGeom_addElement, TopoGeom_remElement, clearTopoGeom, Darts
<1>2. ASSUME NEW row \in relation'
      PROVE  \/ row \in relation
             \/ /\ row[1] \in TopoGeoms
                /\ \/ row[2] = NodeType /\ row[3] \in DOMAIN at
                   \/ row[2] = EdgeType /\ row[3] \in Darts
                   \/ row[2] = FaceType
  BY <1>2 DEF RelationOps, TopoGeom_addElement, TopoGeom_remElement, clearTopoGeom
<1>3. QED  BY <1>1, <1>2 DEF RowsNamed, Names, NodeType, EdgeType, FaceType

LEMMA RowsInductive ==
  ASSUME TopoInv, RowsNamed, [Next]_vars
  PROVE  RowsNamed'
<1>1. CASE Next
  BY <1>1, NodeOpsRows, AddOpsRows, SplitOpsRows, HealOpsRows, RemOpsRows, ChangeOpsRows,
     RelationOpsRows, Zenon DEF Next
<1>2. CASE UNCHANGED vars  BY <1>2 DEF vars, RowsNamed, Darts
<1>3. QED  BY <1>1, <1>2

\* After any sequence of calls every row of relation names a TopoGeometry of the
\* layer and, where its element is a node or an edge, one that exists: no call
\* removes or replaces a primitive that a TopoGeometry still refers to.
THEOREM RowsAlwaysNamed ==
  ASSUME AnySplit = FALSE
  PROVE  Spec => []RowsNamed
<1>1. Init => TopoInv /\ RowsNamed  BY Start DEF Init, RowsNamed, Names
<1>2. TopoInv /\ [Next]_vars => TopoInv'  BY Inductive, Zenon
<1>3. TopoInv /\ RowsNamed /\ [Next]_vars => RowsNamed'  BY RowsInductive, Zenon
<1>4. QED  BY <1>1, <1>2, <1>3, PTL DEF Spec

-----------------------------------------------------------------------------
(* What TopoGeometries cover.                                               *)

\* The steps of a line, in no direction.
Stroke(g) == Undirected(Steps(g))

LEMMA StrokeReversed ==
  ASSUME NEW g, IsLine(g)
  PROVE  Stroke(Reverse(g)) = Stroke(g)
<1>1. ASSUME NEW h, IsLine(h), NEW i \in Places(h)
      PROVE  \E j \in Places(Reverse(h)) : StepAt(Reverse(h), j) = StepAt(h, i)
  <2> DEFINE n == Len(h)
             r == Reverse(h)
  <2>1. /\ n \in Nat /\ n > 1 /\ Len(r) = n
        /\ \A k \in 1 .. n : r[k] = h[n - k + 1]
    BY <1>1, LineFacts, ReverseLine
  <2>2. i \in 1 .. n - 1  BY DEF Places
  <2> HIDE DEF n, r
  <2>3. /\ n - i \in 1 .. n - 1 /\ n - i \in 1 .. n /\ n - i + 1 \in 1 .. n
        /\ n - (n - i) + 1 = i + 1 /\ n - (n - i + 1) + 1 = i
    BY <2>1, <2>2
  <2>4. r[n - i] = h[i + 1] /\ r[n - i + 1] = h[i]  BY <2>1, <2>3
  <2>5. StepAt(r, n - i) = StepAt(h, i) /\ n - i \in Places(r)
    BY <2>1, <2>3, <2>4 DEF StepAt, Places
  <2>6. QED  BY <2>5 DEF r
<1>2. ASSUME NEW h, IsLine(h)  PROVE Stroke(h) \subseteq Stroke(Reverse(h))
  BY <1>1, <1>2, UndirectedSteps DEF Stroke
<1>3. IsLine(Reverse(g)) /\ Reverse(Reverse(g)) = g  BY ReverseLine
<1>4. Stroke(Reverse(g)) \subseteq Stroke(Reverse(Reverse(g)))  BY <1>2, <1>3
<1>5. QED  BY <1>2, <1>3, <1>4

LEMMA StrokeJoined ==
  ASSUME NEW g, NEW h, IsLine(g), IsLine(h), NEW j, Joins(j, g, h)
  PROVE  Stroke(j) = Stroke(g) \cup Stroke(h)
<1> DEFINE m == Len(g)
           n == Len(h)
<1>1. /\ m \in Nat /\ m > 1 /\ n \in Nat /\ n > 1 /\ Len(j) = m + n - 1
      /\ \A i \in 1 .. m : j[i] = g[i]
      /\ \A i \in 1 .. n : j[m + i - 1] = h[i]
  BY LineFacts DEF Joins
<1>2. Places(g) = 1 .. m - 1 /\ Places(h) = 1 .. n - 1 /\ Places(j) = 1 .. m + n - 1 - 1
  BY <1>1 DEF Places
<1> HIDE DEF m, n
<1>3. ASSUME NEW i \in Places(g)
      PROVE  i \in Places(j) /\ StepAt(j, i) = StepAt(g, i)
  <2>1. i \in 1 .. m /\ i + 1 \in 1 .. m /\ i \in Places(j)  BY <1>1, <1>2
  <2>2. QED  BY <1>1, <2>1 DEF StepAt
<1>4. ASSUME NEW i \in Places(h)
      PROVE  m + i - 1 \in Places(j) /\ StepAt(j, m + i - 1) = StepAt(h, i)
  <2>1. /\ i \in 1 .. n /\ i + 1 \in 1 .. n /\ m + i - 1 \in Places(j)
        /\ m + (i + 1) - 1 = (m + i - 1) + 1
    BY <1>1, <1>2
  <2>2. j[m + i - 1] = h[i] /\ j[(m + i - 1) + 1] = h[i + 1]  BY <1>1, <2>1
  <2>3. QED  BY <2>1, <2>2 DEF StepAt
<1>5. ASSUME NEW i \in Places(j)
      PROVE  i \in Places(g) \/ \E k \in Places(h) : m + k - 1 = i
  <2>1. CASE i < m  BY <1>1, <1>2, <2>1
  <2>2. CASE ~(i < m)
    <3>1. i - m + 1 \in Places(h) /\ m + (i - m + 1) - 1 = i  BY <1>1, <1>2, <2>2
    <3>2. QED  BY <3>1
  <2>3. QED  BY <2>1, <2>2
<1>6. Stroke(g) \subseteq Stroke(j)  BY <1>3, UndirectedSteps DEF Stroke
<1>7. Stroke(h) \subseteq Stroke(j)  BY <1>4, UndirectedSteps DEF Stroke
<1>8. ASSUME NEW i \in Places(j)  PROVE StepAt(j, i) \in Stroke(g) \cup Stroke(h)
  <2>1. CASE i \in Places(g)  BY <1>3, <2>1, UndirectedSteps DEF Stroke
  <2>2. ASSUME NEW k \in Places(h), m + k - 1 = i  PROVE StepAt(j, i) \in Stroke(h)
    BY <1>4, <2>2, UndirectedSteps DEF Stroke
  <2>3. QED  BY <1>5, <2>1, <2>2
<1>9. Stroke(j) \subseteq Stroke(g) \cup Stroke(h)  BY <1>8, UndirectedSteps DEF Stroke
<1>10. QED  BY <1>6, <1>7, <1>9

LEMMA StrokeCut ==
  ASSUME NEW g, IsLine(g), NEW c \in 2 .. Len(g) - 1, NEW s, NEW t, Cut(g, c, s, t)
  PROVE  Stroke(g) = Stroke(s) \cup Stroke(t)
<1> DEFINE n == Len(g)
<1>1. /\ n \in Nat /\ c \in Nat /\ c > 1 /\ c < n
      /\ 1 \in 1 .. Len(g) /\ c \in 1 .. Len(g) /\ Len(g) \in 1 .. Len(g)
  BY LineFacts
<1>2. IsLine(s) /\ Len(s) = c - 1 + 1 /\ \A i \in 1 .. c - 1 + 1 : s[i] = g[1 + i - 1]
  BY <1>1, PartOfLine DEF Cut
<1>3. IsLine(t) /\ Len(t) = n - c + 1 /\ \A i \in 1 .. n - c + 1 : t[i] = g[c + i - 1]
  BY <1>1, PartOfLine DEF Cut
<1> HIDE DEF n
<1>4. c - 1 + 1 = c /\ (\A i \in 1 .. c : 1 + i - 1 = i) /\ c + (n - c + 1) - 1 = n  BY <1>1
<1>5. Len(s) = c /\ \A i \in 1 .. c : g[i] = s[i]  BY <1>2, <1>4
<1>6. Joins(g, s, t)  BY <1>3, <1>4, <1>5 DEF Joins, n
<1>7. QED  BY <1>2, <1>3, <1>6, StrokeJoined

\* Point p, or step s, is part of TopoGeometry t by one of its rows in R.
Marked(R, a, t, p) == \E row \in R : row[1] = t /\ row[2] = NodeType /\ p = a[row[3]]
Inked(R, G, t, s) ==
  \E row \in R : row[1] = t /\ row[2] = EdgeType /\ s \in Stroke(G[EdgeOf(row[3])])

LEMMA PathStroke ==
  ASSUME NEW G, NEW D, Lined(G, D), NEW d \in D
  PROVE  Undirected(Steps(Path(G, d))) = Stroke(G[EdgeOf(d)])
<1>1. EdgeOf(d) \in DOMAIN G /\ IsLine(G[EdgeOf(d)])  BY DEF Lined, EdgeOf
<1>2. Path(G, d) \in {G[EdgeOf(d)], Reverse(G[EdgeOf(d)])}  BY DEF Path, EdgeOf
<1>3. QED  BY <1>1, <1>2, StrokeReversed DEF Stroke

\* Points(R, a, t) and Strokes(R, G, t) are the first two parts of Shape(t).
Points(R, a, t) == {a[n] : n \in {row[3] : row \in {r \in R : r[1] = t /\ r[2] = NodeType}}}
Strokes(R, G, t) ==
  UNION {Undirected(Steps(Path(G, d))) :
           d \in {row[3] : row \in {r \in R : r[1] = t /\ r[2] = EdgeType}}}

LEMMA PointsMarked ==
  ASSUME NEW R, NEW a, NEW t
  PROVE  \A p : p \in Points(R, a, t) <=> Marked(R, a, t, p)
  BY DEF Points, Marked

LEMMA StrokesInked ==
  ASSUME NEW R, NEW G, NEW t, NEW D, Lined(G, D), NEW N, Names(R, N, D)
  PROVE  \A s : s \in Strokes(R, G, t) <=> Inked(R, G, t, s)
<1>1. \A row \in R : row[2] = EdgeType =>
        Undirected(Steps(Path(G, row[3]))) = Stroke(G[EdgeOf(row[3])])
  BY PathStroke DEF Names
<1>2. QED  BY <1>1 DEF Strokes, Inked

\* Nodes and edges of TopoGeometries lie where they lay.
CoverKept ==
  \A t \in TopoGeoms :
    /\ \A p : Marked(relation', at', t, p) <=> Marked(relation, at, t, p)
    /\ \A s : Inked(relation', geom', t, s) <=> Inked(relation, geom, t, s)

LEMMA SameCover ==
  ASSUME \A row : row[2] # FaceType => (row \in relation' <=> row \in relation),
         \A row \in relation :
           /\ row[2] = NodeType => at'[row[3]] = at[row[3]]
           /\ row[2] = EdgeType => geom'[EdgeOf(row[3])] = geom[EdgeOf(row[3])]
  PROVE  CoverKept
<1>1. NodeType # FaceType /\ EdgeType # FaceType  BY DEF NodeType, EdgeType, FaceType
<1>2. ASSUME NEW t, NEW p  PROVE Marked(relation', at', t, p) <=> Marked(relation, at, t, p)
  BY <1>1 DEF Marked
<1>3. ASSUME NEW t, NEW s  PROVE Inked(relation', geom', t, s) <=> Inked(relation, geom, t, s)
  BY <1>1 DEF Inked
<1>4. QED  BY <1>2, <1>3 DEF CoverKept

LEMMA NamedEdges ==
  ASSUME TopoInv, RowsNamed, NEW row \in relation
  PROVE  /\ row[2] = NodeType => row[3] \in DOMAIN at
         /\ row[2] = EdgeType => /\ row[3] \in Darts /\ EdgeOf(row[3]) \in Edges
                                 /\ \A e \in Edges : row \in RowsOf(e) <=> EdgeOf(row[3]) = e
<1>1. row[2] = NodeType => row[3] \in DOMAIN at  BY DEF RowsNamed, Names
<1>2. ASSUME row[2] = EdgeType
      PROVE  /\ row[3] \in Darts /\ EdgeOf(row[3]) \in Edges
             /\ \A e \in Edges : row \in RowsOf(e) <=> EdgeOf(row[3]) = e
  <2>1. row[3] \in Darts  BY <1>2 DEF RowsNamed, Names
  <2>2. EdgeOf(row[3]) \in Edges  BY <2>1, DartFacts
  <2>3. ASSUME NEW e \in Edges  PROVE row[3] \in {e, -e} <=> EdgeOf(row[3]) = e
    <3>1. /\ row[3] \in Int /\ row[3] # 0 /\ -(-row[3]) = row[3] /\ e \in Int /\ e > 0
          /\ -(-e) = e
      BY <2>1, InvFacts
    <3>2. QED  BY <3>1 DEF EdgeOf
  <2>4. QED  BY <1>2, <2>1, <2>2, <2>3 DEF RowsOf
<1>3. QED  BY <1>1, <1>2

LEMMA FaceRowsOnly ==
  ASSUME NEW f, NEW g, NEW h, NEW row, row[2] # FaceType
  PROVE  /\ row \in updateTopoGeomFaceSplit(f, g, h) <=> row \in relation
         /\ row \in updateTopoGeomFaceHeal(f, g, h) <=> row \in relation
<1>1. row \in updateTopoGeomFaceSplit(f, g, h) <=> row \in relation
  BY DEF updateTopoGeomFaceSplit
<1>2. row \in updateTopoGeomFaceHeal(f, g, h) <=> row \in relation
  BY DEF updateTopoGeomFaceHeal
<1>3. QED  BY <1>1, <1>2

LEMMA NodeOpsCover ==
  ASSUME TopoInv, RowsNamed, NodeOps, DOMAIN at' # DOMAIN at \/ DOMAIN geom' # DOMAIN geom
  PROVE  CoverKept
<1>1. relation' = relation /\ geom' = geom
  BY DEF NodeOps, AddIsoNode, MoveIsoNode, RemoveIsoNode
<1>2. \A row \in relation : row[2] = NodeType => at'[row[3]] = at[row[3]]
  <2>1. ASSUME NEW n, NEW p, AddIsoNode(n, p)  PROVE \A m \in DOMAIN at : at'[m] = at[m]
    BY <2>1 DEF AddIsoNode, WithEdge
  <2>2. ASSUME NEW n, NEW p, MoveIsoNode(n, p)  PROVE FALSE
    <3>1. DOMAIN at' = DOMAIN at  BY <2>2 DEF MoveIsoNode
    <3>2. QED  BY <1>1, <3>1
  <2>3. ASSUME NEW n, RemoveIsoNode(n)
        PROVE  \A row \in relation : row[2] = NodeType => at'[row[3]] = at[row[3]]
    <3>1. /\ at' = [m \in DOMAIN at \ {n} |-> at[m]]
          /\ \A row \in relation : ~(row[2] = NodeType /\ row[3] = n)
      BY <2>3 DEF RemoveIsoNode, checkTopoGeomRemIsoNode
    <3>2. QED  BY <3>1, NamedEdges
  <2>4. CASE \A m \in DOMAIN at : at'[m] = at[m]  BY <2>4, NamedEdges
  <2>5. QED  BY <2>1, <2>2, <2>3, <2>4, Zenon DEF NodeOps
<1>3. QED  BY <1>1, <1>2, SameCover

LEMMA AddOpsCover == ASSUME TopoInv, RowsNamed, AddOps PROVE CoverKept
<1>1. PICK e \in L!NewEdgeIds(Edges), m, n \in DOMAIN at, g \in Lines :
        AddIsoEdge(e, m, n, g) \/ \E modFace \in BOOLEAN : AddEdge(e, m, n, g, modFace)
  BY Zenon DEF AddOps
<1>2. /\ at' = at /\ geom' = WithEdge(geom, e, g)
      /\ \A row : row[2] # FaceType => (row \in relation' <=> row \in relation)
  <2>1. CASE AddIsoEdge(e, m, n, g)  BY <2>1 DEF AddIsoEdge
  <2>2. ASSUME NEW modFace \in BOOLEAN, AddEdge(e, m, n, g, modFace)
        PROVE  /\ at' = at /\ geom' = WithEdge(geom, e, g)
               /\ \A row : row[2] # FaceType => (row \in relation' <=> row \in relation)
    <3>1. /\ at' = at /\ geom' = WithEdge(geom, e, g)
          /\ \/ relation' = relation
             \/ \E f, new1, new2 : relation' = updateTopoGeomFaceSplit(f, new1, new2)
      BY <2>2 DEF AddEdge
    <3>2. QED  BY <3>1, FaceRowsOnly
  <2>3. QED  BY <1>1, <2>1, <2>2
<1>3. \A x \in Edges : geom'[x] = geom[x]
  <2>1. e \notin Edges  BY NewEdge, InvFacts
  <2>2. QED  BY <1>2, <2>1 DEF WithEdge, Edges
<1>4. QED  BY <1>2, <1>3, NamedEdges, SameCover

LEMMA RemOpsCover == ASSUME TopoInv, RowsNamed, RemOps PROVE CoverKept
<1>1. PICK e \in Edges : RemIsoEdge(e) \/ \E modFace \in BOOLEAN : RemEdge(e, modFace)
  BY Zenon DEF RemOps
<1>2. /\ at' = at /\ RowsOf(e) = {} /\ geom' = [x \in Edges \ {e} |-> geom[x]]
      /\ \A row : row[2] # FaceType => (row \in relation' <=> row \in relation)
  <2>1. CASE RemIsoEdge(e)  BY <2>1 DEF RemIsoEdge
  <2>2. ASSUME NEW modFace \in BOOLEAN, RemEdge(e, modFace)
        PROVE  /\ at' = at /\ RowsOf(e) = {} /\ geom' = [x \in Edges \ {e} |-> geom[x]]
               /\ \A row : row[2] # FaceType => (row \in relation' <=> row \in relation)
    <3>1. /\ at' = at /\ RowsOf(e) = {} /\ geom' = [x \in Edges \ {e} |-> geom[x]]
          /\ \/ relation' = relation
             \/ \E f, g, h : relation' = updateTopoGeomFaceHeal(f, g, h)
      BY <2>2 DEF RemEdge, checkTopoGeomRemEdge
    <3>2. QED  BY <3>1, FaceRowsOnly
  <2>3. QED  BY <1>1, <2>1, <2>2
<1>3. ASSUME NEW row \in relation, row[2] = EdgeType
      PROVE  geom'[EdgeOf(row[3])] = geom[EdgeOf(row[3])]
  <2>1. EdgeOf(row[3]) \in Edges \ {e}  BY <1>2, <1>3, NamedEdges
  <2>2. QED  BY <1>2, <2>1
<1>4. QED  BY <1>2, <1>3, SameCover

LEMMA NewEdgesSplitCover ==
  ASSUME TopoInv, RowsNamed, NEW e \in Edges, NEW n, NEW p, NEW f \in L!NewEdgeIds(Edges),
         NEW g \in L!NewEdgeIds(Edges \cup {f}), NewEdgesSplit(e, n, p, f, g)
  PROVE  CoverKept
<1> DEFINE s == lwgeom_split(geom[e], p)[1]
           t == lwgeom_split(geom[e], p)[2]
<1>1. /\ n \notin DOMAIN at /\ at' = WithEdge(at, n, p) /\ RowsOf(e) = {}
      /\ geom' = WithEdge(WithEdge([x \in Edges \ {e} |-> geom[x]], f, s), g, t)
      /\ relation' = relation
  BY DEF NewEdgesSplit
<1>2. f \notin Edges /\ g \notin Edges  BY DEF L!NewEdgeIds
<1> HIDE DEF s, t
<1>3. \A x \in Edges \ {e} : geom'[x] = geom[x]  BY <1>1, <1>2 DEF WithEdge
<1>4. \A m \in DOMAIN at : at'[m] = at[m]  BY <1>1 DEF WithEdge
<1>5. ASSUME NEW row \in relation
      PROVE  /\ row[2] = NodeType => at'[row[3]] = at[row[3]]
             /\ row[2] = EdgeType => geom'[EdgeOf(row[3])] = geom[EdgeOf(row[3])]
  BY <1>1, <1>3, <1>4, NamedEdges
<1>6. QED  BY <1>1, <1>5, SameCover

LEMMA ModEdgeSplitCover ==
  ASSUME TopoInv, RowsNamed, NEW e \in Edges, NEW n, NEW p,
         NEW f \in L!NewEdgeIds(Edges), ModEdgeSplit(e, n, p, f)
  PROVE  CoverKept
<1> DEFINE s == lwgeom_split(geom[e], p)[1]
           t == lwgeom_split(geom[e], p)[2]
           G == [geom EXCEPT ![e] = s]
           New(row) == <<row[1], EdgeType, IF row[3] < 0 THEN -f ELSE f>>
<1>1. /\ n \notin DOMAIN at /\ at' = WithEdge(at, n, p) /\ _lwt_EdgeSplit(e, p)
      /\ geom' = WithEdge(G, f, t)
      /\ relation' = relation \cup {New(row) : row \in RowsOf(e)}
  BY DEF ModEdgeSplit, updateTopoGeomEdgeSplit
<1>2. Stroke(geom[e]) = Stroke(s) \cup Stroke(t)
  <2>1. Parts(e, p, s, t)  BY <1>1, EdgeParts
  <2> HIDE DEF s, t
  <2>2. PICK c \in 2 .. Len(geom[e]) - 1 :
          s = SubSeq(geom[e], 1, c) /\ t = SubSeq(geom[e], c, Len(geom[e]))
    BY <2>1 DEF Parts
  <2>3. Cut(geom[e], c, s, t)  BY <2>2 DEF Cut
  <2>4. IsLine(geom[e])  BY InvFacts
  <2>5. QED  BY ONLY <2>3, <2>4, c \in 2 .. Len(geom[e]) - 1, StrokeCut
<1> HIDE DEF s, t
<1>3. f \notin Edges /\ f \in Int /\ f > 0 /\ ~(-f > 0) /\ -(-f) = f
  <2>1. f \notin Darts /\ f \in Int /\ f > 0 /\ -(-f) = f  BY NewEdge
  <2>2. QED  BY <2>1, InvFacts
<1>4. /\ geom'[e] = s /\ geom'[f] = t
      /\ \A x \in Edges \ {e} : geom'[x] = geom[x]
  BY <1>1, <1>3 DEF WithEdge, Edges
<1>5. \A m \in DOMAIN at : at'[m] = at[m]  BY <1>1 DEF WithEdge
<1>6. ASSUME NEW row \in RowsOf(e)
      PROVE  /\ row \in relation /\ row[2] = EdgeType /\ EdgeOf(row[3]) = e
             /\ New(row) \in relation' /\ New(row)[1] = row[1]
             /\ New(row)[2] = EdgeType /\ EdgeOf(New(row)[3]) = f
  <2>1. row \in relation /\ row[2] = EdgeType  BY DEF RowsOf
  <2>2. EdgeOf(row[3]) = e  BY <2>1, NamedEdges
  <2>3. New(row)[3] \in {f, -f}  OBVIOUS
  <2>4. EdgeOf(New(row)[3]) = f
    <3> HIDE DEF New
    <3>1. QED  BY <1>3, <2>3 DEF EdgeOf
  <2>5. QED  BY <1>1, <2>1, <2>2, <2>4
<1>7. ASSUME NEW row \in relation'
      PROVE  row \in relation \/ \E old \in RowsOf(e) : row = New(old)
  BY <1>1
<1>8. relation \subseteq relation'  BY <1>1
<1> HIDE DEF New, G
<1>9. ASSUME NEW k \in TopoGeoms, NEW q
      PROVE  Marked(relation', at', k, q) <=> Marked(relation, at, k, q)
  <2>1. ASSUME NEW row \in relation', row[2] = NodeType
        PROVE  row \in relation /\ at'[row[3]] = at[row[3]]
    <3>1. row[2] # EdgeType  BY <2>1 DEF NodeType, EdgeType
    <3>2. row \in relation  BY <1>6, <1>7, <3>1
    <3>3. QED  BY <1>5, <2>1, <3>2, NamedEdges
  <2>2. QED  BY <1>8, <2>1 DEF Marked
<1>10. ASSUME NEW k \in TopoGeoms, NEW q, Inked(relation', geom', k, q)
       PROVE  Inked(relation, geom, k, q)
  <2>1. PICK row \in relation' :
          row[1] = k /\ row[2] = EdgeType /\ q \in Stroke(geom'[EdgeOf(row[3])])
    BY <1>10 DEF Inked
  <2>2. CASE row \in relation
    <3>1. EdgeOf(row[3]) \in Edges  BY <2>1, <2>2, NamedEdges
    <3>2. q \in Stroke(geom[EdgeOf(row[3])])  BY <1>2, <1>4, <2>1, <3>1
    <3>3. QED  BY <2>1, <2>2, <3>2 DEF Inked
  <2>3. CASE row \notin relation
    <3>1. PICK old \in RowsOf(e) : row = New(old)  BY <1>7, <2>3
    <3>2. q \in Stroke(t)  BY <1>4, <1>6, <2>1, <3>1
    <3>3. /\ old \in relation /\ old[1] = k /\ old[2] = EdgeType
          /\ q \in Stroke(geom[EdgeOf(old[3])])
      BY <1>2, <1>6, <2>1, <3>1, <3>2
    <3>4. QED  BY <3>3 DEF Inked
  <2>4. QED  BY <2>2, <2>3
<1>11. ASSUME NEW k \in TopoGeoms, NEW q, Inked(relation, geom, k, q)
       PROVE  Inked(relation', geom', k, q)
  <2>1. PICK row \in relation :
          row[1] = k /\ row[2] = EdgeType /\ q \in Stroke(geom[EdgeOf(row[3])])
    BY <1>11 DEF Inked
  <2>2. EdgeOf(row[3]) \in Edges /\ (row \in RowsOf(e) <=> EdgeOf(row[3]) = e)
    BY <2>1, NamedEdges
  <2>3. CASE EdgeOf(row[3]) # e
    <3>1. q \in Stroke(geom'[EdgeOf(row[3])])  BY <1>4, <2>1, <2>2, <2>3
    <3>2. QED  BY <1>8, <2>1, <3>1 DEF Inked
  <2>4. CASE EdgeOf(row[3]) = e /\ q \in Stroke(s)
    <3>1. q \in Stroke(geom'[EdgeOf(row[3])])  BY <1>4, <2>4
    <3>2. QED  BY <1>8, <2>1, <3>1 DEF Inked
  <2>5. CASE EdgeOf(row[3]) = e /\ q \in Stroke(t)
    <3>1. /\ New(row) \in relation' /\ New(row)[1] = k /\ New(row)[2] = EdgeType
          /\ q \in Stroke(geom'[EdgeOf(New(row)[3])])
      BY <1>4, <1>6, <2>1, <2>2, <2>5
    <3>2. QED  BY <3>1 DEF Inked
  <2>6. QED  BY <1>2, <2>1, <2>3, <2>4, <2>5
<1>12. QED  BY <1>9, <1>10, <1>11 DEF CoverKept

LEMMA HealEdgesCover ==
  ASSUME TopoInv, RowsNamed, NEW e1 \in Edges, NEW e2 \in Edges,
         NEW x \in {e1, -e1}, NEW y \in {e2, -e2},
         NEW k \in {e1} \cup L!NewEdgeIds(Edges), HealEdges(e1, e2, x, y, k)
  PROVE  CoverKept
<1> DEFINE P == Path(geom, x)
           Q == Path(geom, -y)
           j == P \o Tail(Q)
           line == IF x > 0 THEN j ELSE Reverse(j)
           n == org[-x]
           New(row) == <<row[1], EdgeType, IF row[3] < 0 THEN -k ELSE k>>
           Image(row) == IF row \in RowsOf(e1) THEN New(row) ELSE row
<1>1. /\ L!HealsAt(e1, e2, x, y) /\ checkTopoGeomRemNode(n, e1, e2)
      /\ at' = [m \in DOMAIN at \ {n} |-> at[m]]
      /\ geom' = WithEdge([u \in Edges \ {e1, e2} |-> geom[u]], k, line)
      /\ relation' = {Image(row) : row \in relation \ RowsOf(e2)}
  BY DEF HealEdges, updateTopoGeomEdgeHeal
<1>2. EndAt(org[-x], e1, e2, x, y)  BY <1>1, HealedDarts
<1>3. /\ e1 # e2 /\ x \in Darts /\ -x \in Darts /\ y \in Darts /\ -y \in Darts
      /\ EdgeOf(x) = e1 /\ EdgeOf(-y) = e2 /\ -(-x) = x /\ org[-y] = org[-x]
  BY <1>2 DEF EndAt
<1>4. Stroke(line) = Stroke(geom[e1]) \cup Stroke(geom[e2])
  <2>1. /\ IsLine(P) /\ IsLine(Q) /\ Stroke(P) = Stroke(geom[e1])
        /\ Stroke(Q) = Stroke(geom[e2])
    <3>1. Lined(geom, Darts)  BY InvFacts
    <3>2. Stroke(P) = Stroke(geom[e1])  BY <1>3, <3>1, PathStroke DEF Stroke
    <3>3. Stroke(Q) = Stroke(geom[e2])  BY <1>3, <3>1, PathStroke DEF Stroke
    <3>4. IsLine(P) /\ IsLine(Q)  BY <1>3, DartFacts
    <3>5. QED  BY <3>2, <3>3, <3>4
  <2>2. Last(P) = Q[1]
    <3>1. Last(P) = Path(geom, -x)[1]  BY <1>3, InvFacts, PathFacts
    <3>2. Path(geom, -x)[1] = at[org[-x]] /\ Q[1] = at[org[-y]]  BY <1>3, DartFacts
    <3>3. QED  BY <1>3, <3>1, <3>2
  <2>3. IsLine(j) /\ Stroke(j) = Stroke(P) \cup Stroke(Q)
    <3>1. j = P \o Tail(Q)  OBVIOUS
    <3> HIDE DEF P, Q, j
    <3>2. IsLine(j) /\ Joins(j, P, Q)  BY ONLY <2>1, <2>2, <3>1, JoinedLine
    <3>3. QED  BY ONLY <2>1, <3>2, StrokeJoined
  <2> HIDE DEF P, Q, j
  <2>4. Stroke(line) = Stroke(j)  BY <2>3, StrokeReversed
  <2>5. QED  BY <2>1, <2>3, <2>4
<1> HIDE DEF line, n
<1>5. /\ k \in Int /\ k > 0 /\ ~(-k > 0) /\ -(-k) = k /\ k \notin Edges \ {e1, e2}
  <2>1. CASE k = e1
    <3>1. e1 \in Int /\ e1 > 0  BY InvFacts
    <3>2. QED  BY <2>1, <3>1
  <2>2. CASE k # e1
    <3>1. k \in Int /\ k > 0 /\ -(-k) = k /\ k \notin Darts  BY <2>2, NewEdge
    <3>2. QED  BY <3>1, InvFacts
  <2>3. QED  BY <2>1, <2>2
<1>6. geom'[k] = line /\ \A u \in Edges \ {e1, e2} : geom'[u] = geom[u]
  BY <1>1, <1>5 DEF WithEdge
<1>7. ASSUME NEW row \in RowsOf(e1)
      PROVE  /\ row \in relation /\ row \notin RowsOf(e2) /\ row[2] = EdgeType
             /\ New(row) \in relation' /\ New(row)[1] = row[1]
             /\ New(row)[2] = EdgeType /\ EdgeOf(New(row)[3]) = k
  <2>1. row \in relation /\ row[2] = EdgeType  BY DEF RowsOf
  <2>2. row \notin RowsOf(e2)  BY <1>3, <2>1, NamedEdges
  <2>3. New(row)[3] \in {k, -k}  OBVIOUS
  <2>4. EdgeOf(New(row)[3]) = k
    <3> HIDE DEF New
    <3>1. QED  BY <1>5, <2>3 DEF EdgeOf
  <2>5. Image(row) = New(row)  OBVIOUS
  <2>6. New(row) \in relation'
    <3> HIDE DEF New, Image
    <3>1. QED  BY <1>1, <2>1, <2>2, <2>5
  <2>7. QED  BY <2>1, <2>2, <2>4, <2>6
<1>8. ASSUME NEW row \in relation'
      PROVE  \/ row \in relation /\ row \notin RowsOf(e1) /\ row \notin RowsOf(e2)
             \/ \E old \in RowsOf(e1) : row = New(old)
  BY <1>1
<1>9. ASSUME NEW row \in relation, row \notin RowsOf(e1), row \notin RowsOf(e2)
      PROVE  row \in relation'
  BY <1>1, <1>9
<1> HIDE DEF New, Image
<1>10. ASSUME NEW t \in TopoGeoms, NEW q
       PROVE  Marked(relation', at', t, q) <=> Marked(relation, at, t, q)
  <2>1. \A row \in relation : ~(row[2] = NodeType /\ row[3] = n)
    BY <1>1 DEF checkTopoGeomRemNode, checkTopoGeomRemIsoNode
  <2>2. ASSUME NEW row, row[2] = NodeType
        PROVE  /\ row \in relation' <=> row \in relation
               /\ row \in relation => at'[row[3]] = at[row[3]]
    <3>1. row[2] # EdgeType  BY <2>2 DEF NodeType, EdgeType
    <3>2. row \notin RowsOf(e1) /\ row \notin RowsOf(e2)  BY <3>1 DEF RowsOf
    <3>3. row \in relation' <=> row \in relation  BY <1>7, <1>8, <1>9, <3>1, <3>2
    <3>4. row \in relation => row[3] \in DOMAIN at \ {n}  BY <2>1, <2>2, NamedEdges
    <3>5. QED  BY <1>1, <3>3, <3>4
  <2>3. QED  BY <2>2 DEF Marked
<1>11. ASSUME NEW t \in TopoGeoms
       PROVE  (\E row \in RowsOf(e1) : row[1] = t) <=> (\E row \in RowsOf(e2) : row[1] = t)
  BY <1>1 DEF checkTopoGeomRemNode
<1>12. ASSUME NEW t \in TopoGeoms, NEW q, Inked(relation', geom', t, q)
       PROVE  Inked(relation, geom, t, q)
  <2>1. PICK row \in relation' :
          row[1] = t /\ row[2] = EdgeType /\ q \in Stroke(geom'[EdgeOf(row[3])])
    BY <1>12 DEF Inked
  <2>2. CASE row \in relation /\ row \notin RowsOf(e1) /\ row \notin RowsOf(e2)
    <3>1. EdgeOf(row[3]) \in Edges \ {e1, e2}  BY <2>1, <2>2, NamedEdges
    <3>2. q \in Stroke(geom[EdgeOf(row[3])])  BY <1>6, <2>1, <3>1
    <3>3. QED  BY <2>1, <2>2, <3>2 DEF Inked
  <2>3. ASSUME NEW old \in RowsOf(e1), row = New(old)  PROVE Inked(relation, geom, t, q)
    <3>1. old[1] = t /\ q \in Stroke(line)  BY <1>6, <1>7, <2>1, <2>3
    <3>2. CASE q \in Stroke(geom[e1])
      <4>1. old \in relation /\ old[2] = EdgeType  BY <1>7
      <4>2. EdgeOf(old[3]) = e1  BY <4>1, NamedEdges
      <4>3. QED  BY <3>1, <3>2, <4>1, <4>2 DEF Inked
    <3>3. CASE q \in Stroke(geom[e2])
      <4>1. PICK other \in RowsOf(e2) : other[1] = t  BY <1>11, <3>1
      <4>2. other \in relation /\ other[2] = EdgeType  BY DEF RowsOf
      <4>3. EdgeOf(other[3]) = e2  BY <4>2, NamedEdges
      <4>4. QED  BY <3>3, <4>1, <4>2, <4>3 DEF Inked
    <3>4. QED  BY <1>4, <3>1, <3>2, <3>3
  <2>4. QED  BY <1>8, <2>2, <2>3
<1>13. ASSUME NEW t \in TopoGeoms, NEW q, Inked(relation, geom, t, q)
       PROVE  Inked(relation', geom', t, q)
  <2>1. PICK row \in relation :
          row[1] = t /\ row[2] = EdgeType /\ q \in Stroke(geom[EdgeOf(row[3])])
    BY <1>13 DEF Inked
  <2>2. /\ EdgeOf(row[3]) \in Edges
        /\ \A e \in Edges : row \in RowsOf(e) <=> EdgeOf(row[3]) = e
    BY <2>1, NamedEdges
  <2>3. CASE EdgeOf(row[3]) \notin {e1, e2}
    <3>1. row \in relation'  BY <1>9, <2>2, <2>3
    <3>2. q \in Stroke(geom'[EdgeOf(row[3])])  BY <1>6, <2>1, <2>2, <2>3
    <3>3. QED  BY <2>1, <3>1, <3>2 DEF Inked
  <2>4. CASE EdgeOf(row[3]) \in {e1, e2}
    <3>1. q \in Stroke(line)  BY <1>4, <2>1, <2>4
    <3>2. row \in RowsOf(e1) \/ row \in RowsOf(e2)  BY <2>2, <2>4
    <3>3. PICK old \in RowsOf(e1) : old[1] = t  BY <1>11, <2>1, <3>2
    <3>4. /\ New(old) \in relation' /\ New(old)[1] = t /\ New(old)[2] = EdgeType
          /\ q \in Stroke(geom'[EdgeOf(New(old)[3])])
      BY <1>6, <1>7, <3>1, <3>3
    <3>5. QED  BY <3>4 DEF Inked
  <2>5. QED  BY <2>3, <2>4
<1>14. QED  BY <1>10, <1>12, <1>13 DEF CoverKept

LEMMA CoverStep ==
  ASSUME TopoInv, RowsNamed, Next, DOMAIN at' # DOMAIN at \/ DOMAIN geom' # DOMAIN geom
  PROVE  CoverKept
<1>1. CASE NodeOps  BY <1>1, NodeOpsCover
<1>2. CASE AddOps   BY <1>2, AddOpsCover
<1>3. CASE SplitOps
  BY <1>3, ModEdgeSplitCover, NewEdgesSplitCover, Zenon DEF SplitOps
<1>4. CASE HealOps
  <2>1. PICK e1 \in Edges, e2 \in Edges : \E x \in {e1, -e1}, y \in {e2, -e2} :
          \E k \in {e1} \cup L!NewEdgeIds(Edges) : HealEdges(e1, e2, x, y, k)
    BY <1>4, Zenon DEF HealOps
  <2>2. PICK x \in {e1, -e1}, y \in {e2, -e2} :
          \E k \in {e1} \cup L!NewEdgeIds(Edges) : HealEdges(e1, e2, x, y, k)
    BY <2>1, Zenon
  <2>3. QED  BY <2>2, HealEdgesCover
<1>5. CASE RemOps   BY <1>5, RemOpsCover
<1>6. ASSUME ChangeOps  PROVE FALSE
  <2>1. at' = at /\ DOMAIN geom' = DOMAIN geom  BY <1>6 DEF ChangeOps, ChangeEdgeGeom
  <2>2. QED  BY <2>1
<1>7. ASSUME RelationOps  PROVE FALSE
  <2>1. at' = at /\ geom' = geom
    BY <1>7 DEF RelationOps, TopoGeom_addElement, TopoGeom_remElement, clearTopoGeom
  <2>2. QED  BY <2>1
<1>8. QED  BY <1>1, <1>2, <1>3, <1>4, <1>5, <1>6, <1>7, Zenon DEF Next

\* The points and lines of every TopoGeometry, the first two parts of its shape,
\* stay where they are when nodes or edges come or go.
PointsAndLinesKept ==
  DOMAIN at' # DOMAIN at \/ DOMAIN geom' # DOMAIN geom
    => \A t \in TopoGeoms : /\ Shape(t)'[1] = Shape(t)[1]
                            /\ Shape(t)'[2] = Shape(t)[2]

LEMMA ShapeParts ==
  ASSUME NEW t
  PROVE  /\ Shape(t)[1] = Points(relation, at, t)
         /\ Shape(t)[2] = Strokes(relation, geom, t)
         /\ Shape(t)'[1] = Points(relation', at', t)
         /\ Shape(t)'[2] = Strokes(relation', geom', t)
  BY DEF Shape, Points, Strokes

LEMMA KeptStep ==
  ASSUME AnySplit = FALSE, TopoInv, RowsNamed, [Next]_vars
  PROVE  PointsAndLinesKept
<1> SUFFICES ASSUME DOMAIN at' # DOMAIN at \/ DOMAIN geom' # DOMAIN geom,
                    NEW t \in TopoGeoms
             PROVE  /\ Points(relation', at', t) = Points(relation, at, t)
                    /\ Strokes(relation', geom', t) = Strokes(relation, geom, t)
  BY ShapeParts DEF PointsAndLinesKept
<1>1. CoverKept
  <2>1. Next
    <3>1. UNCHANGED vars => at' = at /\ geom' = geom  BY DEF vars
    <3>2. QED  BY <3>1
  <2>2. QED  BY <2>1, CoverStep
<1>2. Points(relation', at', t) = Points(relation, at, t)
  <2>1. \A p : p \in Points(relation', at', t) <=> Marked(relation', at', t, p)
    BY PointsMarked
  <2>2. \A p : p \in Points(relation, at, t) <=> Marked(relation, at, t, p)
    BY PointsMarked
  <2>3. \A p : Marked(relation', at', t, p) <=> Marked(relation, at, t, p)
    BY <1>1 DEF CoverKept
  <2>4. QED  BY ONLY <2>1, <2>2, <2>3
<1>3. Strokes(relation', geom', t) = Strokes(relation, geom, t)
  <2>1. /\ Lined(geom, Darts) /\ Names(relation, DOMAIN at, Darts)
        /\ Lined(geom', Darts') /\ Names(relation', DOMAIN at', Darts')
    <3>1. TopoInv' /\ RowsNamed'  BY Inductive, RowsInductive
    <3>2. QED  BY <3>1 DEF TopoInv, Tables, RowsNamed
  <2>2. \A s : s \in Strokes(relation', geom', t) <=> Inked(relation', geom', t, s)
    BY <2>1, StrokesInked
  <2>3. \A s : s \in Strokes(relation, geom, t) <=> Inked(relation, geom, t, s)
    BY <2>1, StrokesInked
  <2>4. \A s : Inked(relation', geom', t, s) <=> Inked(relation, geom, t, s)
    BY <1>1 DEF CoverKept
  <2>5. QED  BY ONLY <2>2, <2>3, <2>4
<1>4. QED  BY <1>2, <1>3

\* Adding, splitting, healing and removing nodes and edges never changes which
\* points and lines a TopoGeometry covers, whatever rows it has: the checks of
\* ST_RemEdge* and ST_*EdgeHeal and the rows that splits and healings rewrite
\* are enough, for any layer.
THEOREM TopoGeomsKeepPointsAndLines ==
  ASSUME AnySplit = FALSE
  PROVE  Spec => [][PointsAndLinesKept]_vars
<1>1. Init => TopoInv /\ RowsNamed  BY Start DEF Init, RowsNamed, Names
<1>2. TopoInv /\ [Next]_vars => TopoInv'  BY Inductive, Zenon
<1>3. TopoInv /\ RowsNamed /\ [Next]_vars => RowsNamed'  BY RowsInductive, Zenon
<1>4. TopoInv /\ RowsNamed /\ [Next]_vars => [PointsAndLinesKept]_vars
  BY KeptStep, Zenon
<1>5. QED  BY <1>1, <1>2, <1>3, <1>4, PTL DEF Spec
=============================================================================
