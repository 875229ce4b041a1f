--------------------------- MODULE TopoLinksProofs ---------------------------
(***************************************************************************)
(* The links of a topology follow the plane, whatever its size, as long as *)
(* ST_NewEdgesSplit is kept to edges that start no other edge.             *)
(*                                                                         *)
(* The invariant has three parts: the types, that no two edges leave a     *)
(* node at the same azimuth, and Rotation.  None is inductive alone: what  *)
(* follows a removed edge is an edge that is still there only because the  *)
(* links follow the plane, and the next edge around a node is only one     *)
(* edge because azimuths are distinct.                                     *)
(*                                                                         *)
(* Origins and azimuths leave one way to link a topology that follows the  *)
(* plane (OneLinking).  So an operation that brings them back to what they *)
(* were, and keeps the links in that order, brings back the links.         *)
(***************************************************************************)
EXTENDS TopoLinks, WellFoundedInduction, TLAPS

\* Clockwise angle between azimuths, a full turn from one to itself.
turn(a, b) == IF b <= a THEN b - a + Directions ELSE b - a

\* Darts come in pairs, one of each pair an edge identifier.
Paired(D) == \A d \in D : /\ d \in Int /\ -d \in D
                          /\ d \in EdgeIds \/ -d \in EdgeIds

\* Nodes ns, origins o, azimuths z and links nx as the invariant wants them.
Typed(ns, o, z, nx) ==
  /\ ns \in SUBSET Nodes
  /\ Paired(DOMAIN nx)
  /\ o \in [DOMAIN nx -> ns]
  /\ z \in [DOMAIN nx -> Azimuths]
  /\ nx \in [DOMAIN nx -> DOMAIN nx]

Distinct(o, z) == \A x, y \in DOMAIN o : o[x] = o[y] /\ z[x] = z[y] => x = y

Follows(o, z, d, t) ==
  /\ o[t] = o[-d]
  /\ \A x \in DOMAIN o : o[x] = o[-d] /\ x # t => turn(z[-d], z[t]) < turn(z[-d], z[x])

Rotated(o, z, nx) == \A d \in DOMAIN nx : Follows(o, z, d, nx[d])

Good(ns, o, z, nx) == Typed(ns, o, z, nx) /\ Distinct(o, z) /\ Rotated(o, z, nx)

LinkInv == Good(nodes, org, az, next)

-----------------------------------------------------------------------------
(* Nearest darts. *)

Less == {ss \in Nat \X Nat : ss[1] < ss[2]}

\* A set of natural numbers has a least element.
LEMMA LeastNat ==
  ASSUME NEW T \in SUBSET Nat, T # {}
  PROVE  \E x \in T : \A y \in T : x <= y
<1>1. IsWellFoundedOn(Less, Nat)
  BY NatLessThanWellFounded DEF OpToRel, Less
<1>2. PICK x \in T : \A y \in T : ~(<<y, x>> \in Less)
  BY <1>1, WFMin, Zenon
<1>3. \A y \in T : ~(y < x)
  BY <1>2 DEF Less
<1> QED BY <1>3

\* nextCW finds the dart with the least clockwise angle from azimuth a.
LEMMA NextCW ==
  ASSUME NEW S, S # {}, NEW z, \A x \in S : z[x] \in Azimuths,
         NEW a \in Azimuths, \A x \in S : z[x] # a
  PROVE  /\ nextCW(S, z, a) \in S
         /\ \A x \in S : turn(a, z[nextCW(S, z, a)]) <= turn(a, z[x])
<1> DEFINE T == {azdif(a, z[x]) : x \in S}
<1>1. \A x \in S : azdif(a, z[x]) \in Nat /\ azdif(a, z[x]) = turn(a, z[x])
  BY LinksAssumption DEF azdif, turn, Azimuths
<1>2. T \in SUBSET Nat /\ T # {}
  BY <1>1
<1>3. \E t \in T : \A u \in T : t <= u
  <2> HIDE DEF T
  <2> QED BY <1>2, LeastNat
<1>4. \E x \in S : \A y \in S : azdif(a, z[x]) <= azdif(a, z[y])
  BY <1>3
<1>5. /\ nextCW(S, z, a) \in S
      /\ \A y \in S : azdif(a, z[nextCW(S, z, a)]) <= azdif(a, z[y])
  BY <1>4, Zenon DEF nextCW
<1> QED BY <1>1, <1>5

\* nextCCW finds the dart with the greatest.
LEMMA NextCCW ==
  ASSUME NEW S, S # {}, NEW z, \A x \in S : z[x] \in Azimuths,
         NEW a \in Azimuths, \A x \in S : z[x] # a
  PROVE  /\ nextCCW(S, z, a) \in S
         /\ \A x \in S : turn(a, z[x]) <= turn(a, z[nextCCW(S, z, a)])
<1> DEFINE T == {Directions - azdif(a, z[x]) : x \in S}
<1>1. \A x \in S : /\ azdif(a, z[x]) \in Nat /\ azdif(a, z[x]) = turn(a, z[x])
                   /\ azdif(a, z[x]) < Directions
  BY LinksAssumption DEF azdif, turn, Azimuths
<1>2. T \in SUBSET Nat /\ T # {}
  BY <1>1, LinksAssumption
<1>3. \E t \in T : \A u \in T : t <= u
  <2> HIDE DEF T
  <2> QED BY <1>2, LeastNat
<1>4. \E x \in S : \A y \in S : azdif(a, z[y]) <= azdif(a, z[x])
  <2>1. PICK x \in S : \A y \in S : Directions - azdif(a, z[x]) <= Directions - azdif(a, z[y])
    BY <1>3
  <2>2. \A i, j \in Nat : Directions - i <= Directions - j => j <= i
    BY LinksAssumption
  <2> QED BY <1>1, <2>1, <2>2
<1>5. /\ nextCCW(S, z, a) \in S
      /\ \A y \in S : azdif(a, z[y]) <= azdif(a, z[nextCCW(S, z, a)])
  BY <1>4, Zenon DEF nextCCW
<1> QED BY <1>1, <1>5

\* The first azimuth clockwise from x is not passed on the way from x to any
\* other: who comes before y meets y first.
LEMMA Before ==
  ASSUME NEW x \in Azimuths, NEW y \in Azimuths, NEW v \in Azimuths,
         x # y, y # v,
         turn(y, v) <= turn(y, x)
  PROVE  turn(x, y) < turn(x, v)
BY LinksAssumption DEF turn, Azimuths

\* From x, what comes after y on the way from y is met before y.
LEMMA NotBefore ==
  ASSUME NEW x \in Azimuths, NEW y \in Azimuths, NEW p \in Azimuths,
         x # y, y # p, x # p,
         turn(y, x) <= turn(y, p)
  PROVE  turn(x, p) < turn(x, y)
BY LinksAssumption DEF turn, Azimuths

\* Without y, the first from x is the first from y.
LEMMA Skip ==
  ASSUME NEW x \in Azimuths, NEW y \in Azimuths, NEW t \in Azimuths, NEW v \in Azimuths,
         x # y,
         turn(x, y) < turn(x, v), turn(x, y) < turn(x, t), turn(y, t) < turn(y, v)
  PROVE  turn(x, t) < turn(x, v)
BY LinksAssumption DEF turn, Azimuths

\* Angles from one azimuth tell the others apart; a full turn is the greatest.
LEMMA TurnInjective ==
  ASSUME NEW x \in Azimuths, NEW y \in Azimuths, NEW v \in Azimuths
  PROVE  /\ turn(x, y) \in Int
         /\ turn(x, y) = turn(x, v) => y = v
         /\ y # x => turn(x, y) < turn(x, x)
         /\ ~(turn(x, x) < turn(x, y))
BY LinksAssumption DEF turn, Azimuths

\* Three azimuths cannot be in both cyclic orders.
LEMMA OneOrder ==
  ASSUME NEW x \in Azimuths, NEW y \in Azimuths, NEW v \in Azimuths,
         x # y, y # v, x # v,
         turn(y, x) <= turn(y, v)
  PROVE  turn(v, y) < turn(v, x)
BY LinksAssumption DEF turn, Azimuths

\* The other darts that leave the node of y.
Around(o, y) == {v \in DOMAIN o \ {y} : o[v] = o[y]}

\* What leads into y's edge from behind is followed by the first dart from y.
LEMMA NewFollows ==
  ASSUME NEW o, NEW z \in [DOMAIN o -> Azimuths], Distinct(o, z),
         NEW y \in DOMAIN o, y \in Int, NEW t,
         Around(o, y) = {} => t = y,
         Around(o, y) # {} => t = nextCW(Around(o, y), z, z[y])
  PROVE  t \in DOMAIN o /\ Follows(o, z, -y, t)
<1> DEFINE S == Around(o, y)
<1>1. -(-y) = y
  OBVIOUS
<1>2. \A v \in S : v \in DOMAIN o /\ o[v] = o[y] /\ z[v] # z[y] /\ v # y
  BY DEF Distinct, Around
<1>3. \A v \in DOMAIN o : o[v] = o[y] => v = y \/ v \in S
  BY DEF Around
<1>4. CASE S = {}
  BY <1>1, <1>3, <1>4 DEF Follows
<1>5. CASE S # {}
  <2>1. t \in S /\ \A v \in S : turn(z[y], z[t]) <= turn(z[y], z[v])
    <3>1. \A v \in S : z[v] \in Azimuths /\ z[v] # z[y]
      BY <1>2
    <3>2. z[y] \in Azimuths
      OBVIOUS
    <3> HIDE DEF S
    <3>3. t = nextCW(S, z, z[y])
      BY <1>5 DEF S
    <3> QED BY <1>5, <3>1, <3>2, <3>3, NextCW
  <2>2. ASSUME NEW v \in DOMAIN o, o[v] = o[y], v # t
        PROVE  turn(z[y], z[t]) < turn(z[y], z[v])
    <3>1. z[t] \in Azimuths /\ z[v] \in Azimuths /\ z[y] \in Azimuths /\ z[t] # z[y]
      BY <1>2, <2>1
    <3>2. CASE v = y
      BY <3>1, <3>2, TurnInjective
    <3>3. CASE v # y
      <4>1. turn(z[y], z[t]) <= turn(z[y], z[v])
        BY <1>3, <2>1, <2>2, <3>3
      <4>2. z[v] # z[t]
        BY <1>2, <2>1, <2>2 DEF Distinct
      <4> QED BY <3>1, <4>1, <4>2, TurnInjective
    <3> QED BY <3>2, <3>3
  <2> QED BY <1>1, <1>2, <2>1, <2>2 DEF Follows
<1> QED BY <1>4, <1>5

\* The last dart before y is followed by y.
LEMMA PrevFollows ==
  ASSUME NEW o, NEW z \in [DOMAIN o -> Azimuths], Distinct(o, z), DOMAIN o \in SUBSET Int,
         NEW y \in DOMAIN o, Around(o, y) # {},
         NEW p, p = nextCCW(Around(o, y), z, z[y])
  PROVE  p \in Around(o, y) /\ Follows(o, z, -p, y)
<1> DEFINE S == Around(o, y)
<1>1. \A v \in S : v \in DOMAIN o /\ o[v] = o[y] /\ z[v] # z[y] /\ v # y
  BY DEF Distinct, Around
<1>2. p \in S /\ \A v \in S : turn(z[y], z[v]) <= turn(z[y], z[p])
  <2>1. \A v \in S : z[v] \in Azimuths /\ z[v] # z[y]
    BY <1>1
  <2>2. z[y] \in Azimuths /\ S # {} /\ p = nextCCW(S, z, z[y])
    OBVIOUS
  <2> HIDE DEF S
  <2> QED BY <2>1, <2>2, NextCCW
<1>3. ASSUME NEW v \in DOMAIN o, o[v] = o[y], v # y
      PROVE  turn(z[p], z[y]) < turn(z[p], z[v])
  <2>1. v \in S
    BY <1>3 DEF Around
  <2>2. z[p] # z[y] /\ z[y] # z[v] /\ turn(z[y], z[v]) <= turn(z[y], z[p])
    BY <1>1, <1>2, <2>1
  <2>3. z[p] \in Azimuths /\ z[y] \in Azimuths /\ z[v] \in Azimuths
    BY <1>1, <1>2
  <2> QED BY <2>2, <2>3, Before
<1>4. -(-p) = p /\ o[p] = o[y]
  BY <1>1, <1>2
<1> QED BY <1>2, <1>3, <1>4 DEF Follows

\* A dart x other than that one meets it before it meets y.
LEMMA NotLast ==
  ASSUME NEW o, NEW z \in [DOMAIN o -> Azimuths], Distinct(o, z),
         NEW y \in DOMAIN o, NEW x \in Around(o, y),
         NEW p, p = nextCCW(Around(o, y), z, z[y]), x # p
  PROVE  p \in Around(o, y) /\ turn(z[x], z[p]) < turn(z[x], z[y])
<1> DEFINE S == Around(o, y)
<1>1. \A v \in S : v \in DOMAIN o /\ o[v] = o[y] /\ z[v] # z[y] /\ v # y
  BY DEF Distinct, Around
<1>2. p \in S /\ \A v \in S : turn(z[y], z[v]) <= turn(z[y], z[p])
  <2>1. \A v \in S : z[v] \in Azimuths /\ z[v] # z[y]
    BY <1>1
  <2>2. z[y] \in Azimuths /\ S # {} /\ p = nextCCW(S, z, z[y])
    OBVIOUS
  <2> HIDE DEF S
  <2> QED BY <2>1, <2>2, NextCCW
<1>3. z[x] # z[y] /\ z[y] # z[p] /\ turn(z[y], z[x]) <= turn(z[y], z[p])
  BY <1>1, <1>2
<1>4. z[x] # z[p]
  BY <1>1, <1>2 DEF Distinct
<1>5. z[x] \in Azimuths /\ z[p] \in Azimuths /\ z[y] \in Azimuths
  BY <1>1, <1>2
<1> QED BY <1>2, <1>3, <1>4, <1>5, NotBefore

\* Where edge e comes in among other darts, a dart x that is before neither of
\* its ends is still followed by t, the first of the others.
LEMMA OldFollows ==
  ASSUME NEW o, NEW z \in [DOMAIN o -> Azimuths], Distinct(o, z),
         NEW e \in Int, e # -e, e \in DOMAIN o, -e \in DOMAIN o,
         NEW x \in DOMAIN o \ {e, -e}, NEW t \in DOMAIN o \ {e, -e},
         o[t] = o[x],
         \A v \in DOMAIN o \ {e, -e} :
           o[v] = o[x] /\ v # t => turn(z[x], z[t]) < turn(z[x], z[v]),
         \A y \in {e, -e} : o[y] = o[x] => x # nextCCW(Around(o, y), z, z[y]),
         NEW y \in {e, -e}, o[y] = o[x]
  PROVE  turn(z[x], z[t]) < turn(z[x], z[y])
<1> DEFINE p(w) == nextCCW(Around(o, w), z, z[w])
<1>1. -y \in {e, -e} /\ y # -y /\ -(-y) = y /\ y \in DOMAIN o /\ -y \in DOMAIN o
  OBVIOUS
<1>2. \A v \in DOMAIN o : z[v] \in Azimuths
  OBVIOUS
<1>3. ASSUME NEW w \in {e, -e}, o[w] = o[x]
      PROVE  p(w) \in Around(o, w) /\ turn(z[x], z[p(w)]) < turn(z[x], z[w])
  <2>1. x \in Around(o, w) /\ w \in DOMAIN o /\ x # p(w)
    BY <1>3 DEF Around
  <2> QED BY <2>1, NotLast
<1>4. ASSUME NEW w \in {e, -e}, o[w] = o[x], p(w) \notin {e, -e}
      PROVE  turn(z[x], z[t]) < turn(z[x], z[w])
  <2>1. p(w) \in DOMAIN o \ {e, -e} /\ o[p(w)] = o[x]
    BY <1>3, <1>4 DEF Around
  <2>2. p(w) = t \/ turn(z[x], z[t]) < turn(z[x], z[p(w)])
    BY <2>1
  <2>3. turn(z[x], z[t]) \in Int /\ turn(z[x], z[p(w)]) \in Int /\ turn(z[x], z[w]) \in Int
    BY <1>2, <2>1, TurnInjective
  <2> QED BY <1>3, <1>4, <2>2, <2>3
<1>5. CASE p(y) \notin {e, -e}
  BY <1>4, <1>5
<1>6. CASE p(y) \in {e, -e}
  <2>1. p(y) = -y /\ o[-y] = o[x]
    BY <1>1, <1>3, <1>6 DEF Around
  <2>2. turn(z[x], z[-y]) < turn(z[x], z[y])
    BY <1>3, <2>1
  <2>3. p(-y) \notin {e, -e}
    <3> SUFFICES ASSUME p(-y) \in {e, -e} PROVE FALSE
      OBVIOUS
    <3>1. p(-y) = y
      BY <1>1, <1>3, <2>1 DEF Around
    <3>2. turn(z[x], z[y]) < turn(z[x], z[-y])
      BY <1>1, <1>3, <2>1, <3>1
    <3>3. turn(z[x], z[-y]) \in Int /\ turn(z[x], z[y]) \in Int
      BY <1>1, <1>2, TurnInjective
    <3> QED BY <2>2, <3>2, <3>3
  <2>4. turn(z[x], z[t]) < turn(z[x], z[-y])
    BY <1>1, <1>4, <2>1, <2>3
  <2>5. /\ turn(z[x], z[-y]) \in Int /\ turn(z[x], z[y]) \in Int
        /\ turn(z[x], z[t]) \in Int
    BY <1>1, <1>2, TurnInjective
  <2> QED BY <2>2, <2>4, <2>5
<1> QED BY <1>5, <1>6

-----------------------------------------------------------------------------
(* Functions on darts. *)

\* Pairs stay pairs when an edge comes or goes.
LEMMA PairedWith ==
  ASSUME NEW D, Paired(D), NEW e \in EdgeIds
  PROVE  Paired(D \cup {e, -e})
BY LinksAssumption DEF Paired, EdgeIds

\* The same for an edge that goes.
LEMMA PairedWithout ==
  ASSUME NEW D, Paired(D), NEW e \in Int
  PROVE  Paired(D \ {e, -e})
BY DEF Paired

\* A new identifier names no dart yet.
LEMMA Fresh ==
  ASSUME LinkInv, NEW e \in NewEdgeIds(Edges)
  PROVE  e \in EdgeIds /\ e \in Int /\ e # -e /\ e \notin Darts /\ -e \notin Darts
<1>1. e \in EdgeIds /\ e \notin Edges /\ e \in Int /\ e > 0 /\ e # -e /\ -(-e) = e
  BY LinksAssumption DEF NewEdgeIds, EdgeIds
<1>2. Paired(Darts)
  BY DEF LinkInv, Good, Typed, Darts
<1> QED BY <1>1, <1>2 DEF Paired, Edges

-----------------------------------------------------------------------------
(* The operations, one by one. *)

\* What the invariant says of each dart.
LEMMA GoodFacts ==
  ASSUME NEW ns, NEW o, NEW z, NEW nx, Good(ns, o, z, nx)
  PROVE  /\ ns \in SUBSET Nodes
         /\ DOMAIN o = DOMAIN nx /\ DOMAIN z = DOMAIN nx
         /\ z \in [DOMAIN o -> Azimuths]
         /\ \A d \in DOMAIN nx : /\ d \in Int /\ -d \in DOMAIN nx /\ -(-d) = d /\ d # -d
                                 /\ o[d] \in ns /\ z[d] \in Azimuths
                                 /\ nx[d] \in DOMAIN nx
                                 /\ Follows(o, z, d, nx[d])
         /\ Paired(DOMAIN nx) /\ Distinct(o, z)
<1>1. \A d \in EdgeIds : d \in Int /\ d > 0
  BY LinksAssumption DEF EdgeIds
<1> QED BY <1>1 DEF Good, Typed, Rotated, Paired

LEMMA InvFacts ==
  ASSUME LinkInv
  PROVE  /\ nodes \in SUBSET Nodes
         /\ DOMAIN org = Darts /\ DOMAIN az = Darts /\ DOMAIN next = Darts
         /\ \A d \in Darts : /\ d \in Int /\ -d \in Darts /\ -(-d) = d /\ d # -d
                             /\ org[d] \in nodes /\ az[d] \in Azimuths
                             /\ next[d] \in Darts
                             /\ Follows(org, az, d, next[d])
         /\ Paired(Darts) /\ Distinct(org, az)
BY GoodFacts DEF LinkInv, Darts

\* An empty topology has it.
LEMMA StartInv == LinkInit => LinkInv
BY DEF LinkInit, LinkInv, Good, Typed, Paired, Distinct, Rotated

\* Nodes without edges come and go.
LEMMA AddIsoNodeInv ==
  ASSUME LinkInv, NEW n \in Nodes, LinkAddIsoNode(n)
  PROVE  LinkInv'
<1>1. nodes' = nodes \cup {n} /\ org' = org /\ az' = az /\ next' = next
  BY DEF LinkAddIsoNode
<1> QED BY <1>1 DEF LinkInv, Good, Typed

\* No edge refers to a node that goes.
LEMMA RemoveIsoNodeInv ==
  ASSUME LinkInv, NEW n \in Nodes, LinkRemoveIsoNode(n)
  PROVE  LinkInv'
<1>1. nodes' = nodes \ {n} /\ org' = org /\ az' = az /\ next' = next /\ Out(n) = {}
  BY DEF LinkRemoveIsoNode
<1>2. \A d \in DOMAIN next : org[d] # n
  BY <1>1 DEF Out, Darts
<1> QED BY <1>1, <1>2 DEF LinkInv, Good, Typed

\* What a new edge keeps of types and of distinct azimuths.
LEMMA NewEdgeTyped ==
  ASSUME LinkInv, NEW e \in NewEdgeIds(Edges), NEW m \in nodes, NEW n \in nodes,
         NEW a \in Azimuths, NEW b \in Azimuths,
         Free(m, a, {}), Free(n, b, {}), m = n => a # b
  PROVE  /\ With(org, e, m, n) \in [Darts \cup {e, -e} -> nodes]
         /\ With(az, e, a, b) \in [Darts \cup {e, -e} -> Azimuths]
         /\ Distinct(With(org, e, m, n), With(az, e, a, b))
<1> DEFINE o == With(org, e, m, n)
           z == With(az, e, a, b)
<1>1. /\ e # -e /\ e \in Int /\ e \notin Darts /\ -e \notin Darts
      /\ DOMAIN org = Darts /\ DOMAIN az = Darts
  BY Fresh, InvFacts
<1>2. /\ DOMAIN o = Darts \cup {e, -e} /\ o[e] = m /\ o[-e] = n
      /\ \A d \in Darts : o[d] = org[d]
  BY <1>1 DEF With
<1>3. /\ DOMAIN z = Darts \cup {e, -e} /\ z[e] = a /\ z[-e] = b
      /\ \A d \in Darts : z[d] = az[d]
  BY <1>1 DEF With
<1>4. o \in [Darts \cup {e, -e} -> nodes] /\ z \in [Darts \cup {e, -e} -> Azimuths]
  <2>1. \A d \in Darts \cup {e, -e} : o[d] \in nodes /\ z[d] \in Azimuths
    BY <1>2, <1>3, InvFacts
  <2>2. o = [d \in DOMAIN o |-> o[d]] /\ z = [d \in DOMAIN z |-> z[d]]
    BY DEF With
  <2> QED BY <1>2, <1>3, <2>1, <2>2
<1>5. Distinct(o, z)
  <2>1. \A d \in Darts : (org[d] = m => az[d] # a) /\ (org[d] = n => az[d] # b)
    BY DEF Free, Out
  <2>2. \A x, y \in Darts : org[x] = org[y] /\ az[x] = az[y] => x = y
    BY InvFacts DEF Distinct
  <2> HIDE DEF o, z
  <2> QED BY <1>2, <1>3, <2>1, <2>2 DEF Distinct
<1> QED BY <1>4, <1>5

\* An edge between nodes without edges is followed by itself.
LEMMA AddIsoEdgeInv ==
  ASSUME LinkInv, NEW e \in NewEdgeIds(Edges), NEW m \in Nodes, NEW n \in Nodes,
         NEW a \in Azimuths, NEW b \in Azimuths, LinkAddIsoEdge(e, m, n, a, b)
  PROVE  LinkInv'
<1>1. /\ m \in nodes /\ n \in nodes /\ m # n /\ Out(m) = {} /\ Out(n) = {}
      /\ org' = With(org, e, m, n) /\ az' = With(az, e, a, b)
      /\ next' = With(next, e, -e, e) /\ nodes' = nodes
  BY DEF LinkAddIsoEdge
<1>2. /\ e # -e /\ e \in Int /\ e \notin Darts /\ -e \notin Darts /\ e \in EdgeIds /\ -(-e) = e
      /\ DOMAIN org = Darts /\ DOMAIN az = Darts /\ DOMAIN next = Darts
  BY Fresh, InvFacts
<1>3. /\ org' \in [Darts \cup {e, -e} -> nodes] /\ az' \in [Darts \cup {e, -e} -> Azimuths]
      /\ Distinct(org', az')
  <2>1. Free(m, a, {}) /\ Free(n, b, {})
    BY <1>1 DEF Free
  <2> QED BY <1>1, <2>1, NewEdgeTyped
<1>4. /\ DOMAIN next' = Darts \cup {e, -e} /\ next'[e] = -e /\ next'[-e] = e
      /\ \A d \in Darts : next'[d] = next[d]
  BY <1>1, <1>2 DEF With
<1>5. /\ DOMAIN org' = Darts \cup {e, -e} /\ org'[e] = m /\ org'[-e] = n
      /\ \A d \in Darts : org'[d] = org[d] /\ org[d] # m /\ org[d] # n
  BY <1>1, <1>2 DEF With, Out
<1>6. /\ az'[e] = a /\ az'[-e] = b /\ \A d \in Darts : az'[d] = az[d]
  BY <1>1, <1>2 DEF With
<1>7. next' \in [DOMAIN next' -> DOMAIN next']
  <2>1. \A d \in DOMAIN next' : next'[d] \in DOMAIN next'
    BY <1>4, InvFacts
  <2>2. next' = [d \in DOMAIN next' |-> next'[d]]
    BY <1>1 DEF With
  <2> QED BY <2>1, <2>2
<1>8. Paired(DOMAIN next')
  BY <1>2, <1>4, InvFacts, PairedWith
<1>9. ASSUME NEW d \in DOMAIN next' PROVE Follows(org', az', d, next'[d])
  <2>1. CASE d \in {e, -e}
    BY <1>1, <1>2, <1>4, <1>5, <2>1 DEF Follows
  <2>2. CASE d \in Darts
    <3>1. /\ -d \in Darts /\ next[d] \in Darts /\ org[next[d]] = org[-d]
          /\ \A x \in Darts : org[x] = org[-d] /\ x # next[d]
                                => turn(az[-d], az[next[d]]) < turn(az[-d], az[x])
      BY <2>2, InvFacts DEF Follows
    <3> QED BY <1>4, <1>5, <1>6, <2>2, <3>1 DEF Follows
  <2> QED BY <1>4, <2>1, <2>2
<1> QED BY <1>1, <1>3, <1>4, <1>7, <1>8, <1>9, InvFacts DEF LinkInv, Good, Typed, Rotated

\* The new edge comes between its neighbours at each of its ends.
LEMMA AddEdgeInv ==
  ASSUME LinkInv, NEW e \in NewEdgeIds(Edges), NEW m \in Nodes, NEW n \in Nodes,
         NEW a \in Azimuths, NEW b \in Azimuths, LinkAddEdge(e, m, n, a, b)
  PROVE  LinkInv'
<1> DEFINE D == Darts \cup {e, -e}
           o == With(org, e, m, n)
           z == With(az, e, a, b)
           right == IF Around(o, e) = {} THEN e ELSE nextCW(Around(o, e), z, z[e])
           left  == IF Around(o, -e) = {} THEN -e ELSE nextCW(Around(o, -e), z, z[-e])
           prevL == IF Around(o, e) = {} THEN -e ELSE -nextCCW(Around(o, e), z, z[e])
           prevR == IF Around(o, -e) = {} THEN e ELSE -nextCCW(Around(o, -e), z, z[-e])
           old(d) == IF d = prevR THEN -e ELSE IF d = prevL THEN e ELSE next[d]
<1>1. /\ m \in nodes /\ n \in nodes
      /\ Free(m, a, {}) /\ Free(n, b, {})
      /\ m = n => a # b
      /\ org' = o /\ az' = z /\ nodes' = nodes
      /\ next' = AddLinks(e, m, n, z)
  BY DEF LinkAddEdge
<1>2. /\ e # -e /\ e \in Int /\ -e \in Int /\ -(-e) = e
      /\ e \notin Darts /\ -e \notin Darts /\ e \in EdgeIds
      /\ DOMAIN org = Darts /\ DOMAIN az = Darts /\ DOMAIN next = Darts
  BY Fresh, InvFacts
<1>3. o \in [D -> nodes] /\ z \in [D -> Azimuths] /\ Distinct(o, z)
  BY <1>1, NewEdgeTyped
<1>4. /\ DOMAIN o = D /\ o[e] = m /\ o[-e] = n /\ \A d \in Darts : o[d] = org[d]
      /\ \A d \in Darts : z[d] = az[d]
  BY <1>2 DEF With
<1>5. /\ Around(o, e) = Out(m) \cup (IF m = n THEN {-e} ELSE {})
      /\ Around(o, -e) = Out(n) \cup (IF m = n THEN {e} ELSE {})
  <2> HIDE DEF o
  <2> QED BY <1>2, <1>4 DEF Around, Out
<1>6. next' = With([d \in Darts |-> old(d)], e, left, right)
  <2> HIDE DEF o, z
  <2> QED BY <1>1, <1>5 DEF AddLinks
<1>7. /\ DOMAIN next' = D /\ next'[e] = left /\ next'[-e] = right
      /\ \A d \in Darts : next'[d] = old(d)
      /\ next' = [d \in D |-> next'[d]]
  <2> HIDE DEF o, z, left, right, old
  <2> QED BY <1>2, <1>6 DEF With
<1> HIDE DEF o, z
<1>8. left \in D /\ Follows(o, z, e, left)
  <2>1. -e \in DOMAIN o /\ z \in [DOMAIN o -> Azimuths]
    BY <1>3, <1>4
  <2> QED BY <1>2, <1>3, <1>4, <2>1, NewFollows
<1>9. right \in D /\ Follows(o, z, -e, right)
  <2>1. e \in DOMAIN o /\ z \in [DOMAIN o -> Azimuths]
    BY <1>3, <1>4
  <2> QED BY <1>2, <1>3, <1>4, <2>1, NewFollows
<1>10. ASSUME NEW d \in Darts PROVE old(d) \in D /\ Follows(o, z, d, old(d))
  <2>1. DOMAIN o \in SUBSET Int /\ z \in [DOMAIN o -> Azimuths] /\ d \in Int
    BY <1>2, <1>3, <1>4, InvFacts
  <2>2. ASSUME NEW y \in {e, -e}, Around(o, y) # {}, d = -nextCCW(Around(o, y), z, z[y])
        PROVE  Follows(o, z, d, y)
    BY <1>2, <1>3, <1>4, <2>1, <2>2, PrevFollows
  <2>3. CASE d = prevR
    <3>1. Around(o, -e) # {} /\ d = -nextCCW(Around(o, -e), z, z[-e])
      BY <1>2, <2>3
    <3> QED BY <2>2, <2>3, <3>1
  <2>4. CASE d # prevR /\ d = prevL
    <3>1. Around(o, e) # {} /\ d = -nextCCW(Around(o, e), z, z[e])
      BY <1>2, <2>4
    <3> QED BY <2>2, <2>4, <3>1
  <2>5. CASE d # prevR /\ d # prevL
    <3> DEFINE t == next[d]
    <3>1. /\ -d \in Darts /\ -(-d) = d /\ t \in Darts /\ org[t] = org[-d]
          /\ \A x \in Darts : org[x] = org[-d] /\ x # t
                                => turn(az[-d], az[t]) < turn(az[-d], az[x])
      BY InvFacts DEF Follows
    <3>2. old(d) = t
      BY <2>5
    <3> HIDE DEF t
    <3>3. \A y \in {e, -e} : o[y] = o[-d] => -d # nextCCW(Around(o, y), z, z[y])
      <4> SUFFICES ASSUME NEW y \in {e, -e}, o[y] = o[-d],
                          -d = nextCCW(Around(o, y), z, z[y])
                   PROVE  FALSE
        OBVIOUS
      <4>1. -d \in Around(o, y) /\ d = -nextCCW(Around(o, y), z, z[y])
        BY <1>2, <1>4, <3>1 DEF Around
      <4> QED BY <1>2, <2>5, <4>1
    <3>4. /\ -d \in DOMAIN o \ {e, -e} /\ t \in DOMAIN o \ {e, -e} /\ o[t] = o[-d]
          /\ DOMAIN o \ {e, -e} = Darts
          /\ \A v \in DOMAIN o \ {e, -e} :
               o[v] = o[-d] /\ v # t => turn(z[-d], z[t]) < turn(z[-d], z[v])
      BY <1>2, <1>4, <3>1
    <3>5. ASSUME NEW y \in {e, -e}, o[y] = o[-d]
          PROVE  turn(z[-d], z[t]) < turn(z[-d], z[y])
      <4>1. e \in DOMAIN o /\ -e \in DOMAIN o
        BY <1>4
      <4> QED BY <1>2, <1>3, <2>1, <3>3, <3>4, <3>5, <4>1, OldFollows
    <3>6. Follows(o, z, d, t)
      BY <1>4, <3>4, <3>5 DEF Follows
    <3> QED BY <3>1, <3>2, <3>6
  <2> QED BY <2>3, <2>4, <2>5
<1>11. \A d \in D : next'[d] \in D /\ Follows(o, z, d, next'[d])
  <2> HIDE DEF left, right, old
  <2> QED BY <1>7, <1>8, <1>9, <1>10
<1>12. next' \in [DOMAIN next' -> DOMAIN next'] /\ Paired(DOMAIN next')
  BY <1>2, <1>7, <1>11, InvFacts, PairedWith
<1> QED BY <1>1, <1>3, <1>7, <1>11, <1>12, InvFacts DEF LinkInv, Good, Typed, Rotated

\* Only one dart is first.
LEMMA OneFirst ==
  ASSUME NEW o, NEW z \in [DOMAIN o -> Azimuths], NEW d, -d \in DOMAIN o,
         NEW s \in DOMAIN o, NEW t \in DOMAIN o,
         Follows(o, z, d, s), Follows(o, z, d, t)
  PROVE  s = t
<1> SUFFICES ASSUME s # t PROVE FALSE
  OBVIOUS
<1>1. turn(z[-d], z[s]) < turn(z[-d], z[t]) /\ turn(z[-d], z[t]) < turn(z[-d], z[s])
  BY DEF Follows
<1>2. turn(z[-d], z[s]) \in Int /\ turn(z[-d], z[t]) \in Int
  BY TurnInjective
<1> QED BY <1>1, <1>2

\* The darts in C are darts tau[v] of o and z under other names; the others leave
\* nodes of their own, no two of them at the same azimuth.
Copies(o, z, o2, z2, C, tau) ==
  /\ C \in SUBSET DOMAIN o2
  /\ tau \in [C -> DOMAIN o]
  /\ \A v \in C : o2[v] = o[tau[v]] /\ z2[v] = z[tau[v]]
  /\ \A u, v \in C : tau[u] = tau[v] => u = v
  /\ \A u \in C : \A v \in DOMAIN o2 \ C : o2[v] # o2[u]
  /\ \A u, v \in DOMAIN o2 \ C : z2[u] = z2[v] => u = v

\* What follows a dart follows it under its other name.
LEMMA Renamed ==
  ASSUME NEW o, NEW z, NEW o2, NEW z2, NEW C, NEW tau, Copies(o, z, o2, z2, C, tau),
         NEW d, -d \in C, NEW t \in C,
         NEW w, -w = tau[-d], Follows(o, z, w, tau[t])
  PROVE  Follows(o2, z2, d, t)
<1>1. o2[t] = o2[-d]
  BY DEF Follows, Copies
<1>2. ASSUME NEW v \in DOMAIN o2, o2[v] = o2[-d], v # t
      PROVE  turn(z2[-d], z2[t]) < turn(z2[-d], z2[v])
  <2>1. v \in C /\ tau[v] # tau[t] /\ tau[v] \in DOMAIN o /\ o[tau[v]] = o[-w]
    BY <1>2 DEF Copies
  <2> QED BY <2>1 DEF Follows, Copies
<1> QED BY <1>1, <1>2 DEF Follows

\* Azimuths that are distinct under one name are under the other.
LEMMA RenamedDistinct ==
  ASSUME NEW o, NEW z, NEW o2, NEW z2, NEW C, NEW tau, Copies(o, z, o2, z2, C, tau),
         Distinct(o, z)
  PROVE  Distinct(o2, z2)
<1> SUFFICES ASSUME NEW u \in DOMAIN o2, NEW v \in DOMAIN o2, o2[u] = o2[v], z2[u] = z2[v]
             PROVE  u = v
  BY DEF Distinct
<1>1. CASE u \in C /\ v \in C
  BY <1>1 DEF Distinct, Copies
<1>2. CASE ~(u \in C /\ v \in C)
  BY <1>2 DEF Copies
<1> QED BY <1>1, <1>2

\* The halves of the split edge keep its outer ends; only they meet at n.
LEMMA ModEdgeSplitInv ==
  ASSUME LinkInv, NEW e \in Edges, NEW n \in Nodes, NEW f \in NewEdgeIds(Edges),
         NEW a \in Azimuths, NEW b \in Azimuths, LinkModEdgeSplit(e, n, f, a, b)
  PROVE  LinkInv'
<1> DEFINE D == Darts \cup {f, -f}
           C == D \ {-e, f}
           tau == [d \in C |-> IF d = -f THEN -e ELSE d]
<1>1. n \notin nodes /\ a # b /\ nodes' = nodes \cup {n}
  BY DEF LinkModEdgeSplit
<1>2. /\ f # -f /\ f \in Int /\ -f \in Int /\ -(-f) = f
      /\ f \notin Darts /\ -f \notin Darts
      /\ DOMAIN org = Darts /\ DOMAIN az = Darts /\ DOMAIN next = Darts
      /\ e \in Darts /\ -e \in Darts /\ e \in Int /\ -(-e) = e /\ e # -e
  BY Fresh, InvFacts DEF Edges
<1>3. /\ DOMAIN org' = D /\ org' = [d \in D |-> org'[d]]
      /\ DOMAIN az' = D /\ az' = [d \in D |-> az'[d]]
      /\ DOMAIN next' = D /\ next' = [d \in D |-> next'[d]]
  BY <1>2 DEF LinkModEdgeSplit, With, SplitLinks
<1>4. /\ org'[-e] = n /\ org'[f] = n /\ org'[-f] = org[-e]
      /\ \A d \in Darts \ {-e} : org'[d] = org[d]
  BY <1>2 DEF LinkModEdgeSplit, With
<1>5. /\ az'[-e] = a /\ az'[f] = b /\ az'[-f] = az[-e]
      /\ \A d \in Darts \ {-e} : az'[d] = az[d]
  BY <1>2 DEF LinkModEdgeSplit, With
<1>6. /\ next'[e] = f /\ next'[-f] = -e
      /\ next'[f] = IF next[e] = -e THEN -f ELSE next[e]
      /\ \A d \in Darts \ {e} : next'[d] = IF next[d] = -e /\ org[-d] = org[-e]
                                           THEN -f ELSE next[d]
  BY <1>2 DEF LinkModEdgeSplit, With, SplitLinks
<1>7. /\ \A v : v \in D <=> v \in Darts \/ v = f \/ v = -f
      /\ \A v : v \in C <=> v \in D /\ v # -e /\ v # f
  OBVIOUS
<1>8. tau \in [C -> Darts] /\ \A v \in C : tau[v] = IF v = -f THEN -e ELSE v
  BY <1>2
<1> HIDE DEF D, C, tau
<1>9. \A v \in C : v \in Darts \ {-e} \/ v = -f
  BY <1>7
<1>10. \A u, v \in C : tau[u] = tau[v] => u = v
  BY <1>2, <1>8, <1>9
<1>11. \A v \in C : org'[v] = org[tau[v]] /\ az'[v] = az[tau[v]]
  BY <1>2, <1>4, <1>5, <1>8, <1>9
<1>12. \A v \in C : org'[v] \in nodes /\ org'[v] # n
  BY <1>1, <1>8, <1>11, InvFacts
<1>13. \A v \in D \ C : (v = -e \/ v = f) /\ org'[v] = n
  BY <1>4, <1>7
<1>14. \A v \in D : org'[v] = n => v = -e \/ v = f
  BY <1>12, <1>13
<1>15. /\ org' \in [D -> nodes'] /\ az' \in [D -> Azimuths]
  <2>1. \A d \in D : org'[d] \in nodes'
    BY <1>1, <1>12, <1>13
  <2>2. \A d \in D : az'[d] \in Azimuths
    <3>1. ASSUME NEW d \in C PROVE az'[d] \in Azimuths
      BY <1>8, <1>11, InvFacts
    <3> QED BY <1>5, <1>13, <3>1
  <2> QED BY <1>3, <2>1, <2>2
<1>16. Copies(org, az, org', az', C, tau)
  <2>1. C \in SUBSET DOMAIN org' /\ tau \in [C -> DOMAIN org]
    BY <1>2, <1>3, <1>7, <1>8
  <2>2. \A u, v \in DOMAIN org' \ C : az'[u] = az'[v] => u = v
    BY <1>1, <1>3, <1>5, <1>13
  <2>3. \A u \in C : \A v \in DOMAIN org' \ C : org'[v] # org'[u]
    BY <1>3, <1>12, <1>13
  <2> QED BY <1>10, <1>11, <2>1, <2>2, <2>3, Zenon DEF Copies
<1>17. Distinct(org', az')
  BY <1>16, InvFacts, RenamedDistinct
<1>18. turn(a, b) < turn(a, a) /\ turn(b, a) < turn(b, b)
  BY <1>1, TurnInjective
<1>19. ASSUME NEW d \in D PROVE next'[d] \in D /\ Follows(org', az', d, next'[d])
  <2>1. CASE d = e
    <3>1. f \in D
      BY <1>7
    <3> QED BY <1>3, <1>4, <1>5, <1>6, <1>14, <1>18, <2>1, <3>1 DEF Follows
  <2>2. CASE d = -f
    <3>1. -e \in D
      BY <1>2, <1>7
    <3> QED BY <1>2, <1>3, <1>4, <1>5, <1>6, <1>14, <1>18, <2>2, <3>1 DEF Follows
  <2>3. CASE d \notin {e, -f}
    <3> DEFINE w == IF d = f THEN e ELSE d
               t == IF next[w] = -e THEN -f ELSE next[w]
    <3>1. w \in Darts /\ -w \in Darts /\ next[w] \in Darts /\ Follows(org, az, w, next[w])
      BY <1>2, <1>7, <2>3, InvFacts
    <3>2. -d \in C /\ -w = tau[-d]
      <4>1. CASE d = f
        <5>1. w = e /\ -d = -f /\ -f \in D /\ -f # -e /\ -f # f
          BY <1>2, <1>7, <4>1
        <5> QED BY <1>7, <1>8, <5>1
      <4>2. CASE d # f
        <5>1. d \in Darts /\ -d \in Darts /\ -d # -e
          BY <1>2, <1>7, <2>3, <4>2, InvFacts
        <5> QED BY <1>2, <1>7, <1>8, <4>2, <5>1
      <4> QED BY <4>1, <4>2
    <3>3. next'[d] = t
      <4>1. next[w] = -e => org[-w] = org[-e]
        BY <3>1 DEF Follows
      <4> QED BY <1>2, <1>6, <1>7, <2>3, <4>1
    <3>4. t \in C /\ tau[t] = next[w]
      BY <1>2, <1>7, <1>8, <3>1
    <3> HIDE DEF w, t
    <3>5. Follows(org', az', d, t)
      BY <1>16, <3>1, <3>2, <3>4, Renamed
    <3> QED BY <1>7, <3>3, <3>4, <3>5
  <2> QED BY <2>1, <2>2, <2>3
<1>20. next' \in [D -> D] /\ Paired(D)
  <2>1. f \in EdgeIds /\ Paired(Darts)
    BY Fresh, InvFacts
  <2>2. Paired(D)
    BY <2>1, PairedWith DEF D
  <2> QED BY <1>3, <1>19, <2>2
<1>21. nodes' \in SUBSET Nodes
  BY <1>1, InvFacts
<1> QED BY <1>3, <1>15, <1>17, <1>19, <1>20, <1>21 DEF LinkInv, Good, Typed, Rotated

\* A second new identifier.
LEMMA FreshNext ==
  ASSUME LinkInv, NEW f \in NewEdgeIds(Edges), NEW g \in NewEdgeIds(Edges \cup {f})
  PROVE  /\ g \in EdgeIds /\ g \in Int /\ g # -g /\ -(-g) = g
         /\ g \notin Darts /\ -g \notin Darts /\ g # f /\ g # -f /\ -g # f /\ -g # -f
<1>1. /\ f \in EdgeIds /\ g \in EdgeIds /\ g \notin Edges /\ g # f
      /\ g \in Int /\ g > 0 /\ f \in Int /\ f > 0
  BY LinksAssumption DEF NewEdgeIds, EdgeIds
<1>2. Paired(Darts)
  BY DEF LinkInv, Good, Typed, Darts
<1>3. g # -g /\ -(-g) = g /\ g # -f /\ -g # f /\ -g # -f
  BY <1>1
<1> QED BY <1>1, <1>2, <1>3 DEF Paired, Edges

\* The same with two new edges.  What refers to the old edge where another edge
\* starts would be taken for the wrong half; AnySplit = FALSE leaves none.
LEMMA NewEdgesSplitInv ==
  ASSUME LinkInv, AnySplit = FALSE, NEW e \in Edges, NEW n \in Nodes,
         NEW f \in NewEdgeIds(Edges), NEW g \in NewEdgeIds(Edges \cup {f}),
         NEW a \in Azimuths, NEW b \in Azimuths, LinkNewEdgesSplit(e, n, f, g, a, b)
  PROVE  LinkInv'
<1> DEFINE D == (((Darts \ {e, -e}) \cup {f, -f}) \cup {g, -g})
           C == D \ {-f, g}
           tau == [d \in C |-> IF d = f THEN e ELSE IF d = -g THEN -e ELSE d]
<1>1. /\ n \notin nodes /\ a # b /\ nodes' = nodes \cup {n}
      /\ \A d \in Edges \ {e} : org[d] # org[e] /\ org[d] # org[-e]
  BY DEF LinkNewEdgesSplit
<1>2. /\ f # -f /\ f \in Int /\ -f \in Int /\ -(-f) = f
      /\ f \notin Darts /\ -f \notin Darts
      /\ DOMAIN org = Darts /\ DOMAIN az = Darts /\ DOMAIN next = Darts
      /\ e \in Darts /\ -e \in Darts /\ e \in Int /\ -(-e) = e /\ e # -e
  BY Fresh, InvFacts DEF Edges
<1>3. /\ g \in Int /\ g # -g /\ -(-g) = g
      /\ g \notin Darts /\ -g \notin Darts /\ g # f /\ g # -f /\ -g # f /\ -g # -f
  BY FreshNext
<1>4. /\ DOMAIN org' = D /\ org' = [d \in D |-> org'[d]]
      /\ DOMAIN az' = D /\ az' = [d \in D |-> az'[d]]
  BY <1>2 DEF LinkNewEdgesSplit, With, Without
<1>5. DOMAIN next' = D /\ next' = [d \in D |-> next'[d]]
  BY <1>2 DEF LinkNewEdgesSplit, With, NewSplitLinks
<1>6. /\ org'[f] = org[e] /\ org'[-f] = n /\ org'[g] = n /\ org'[-g] = org[-e]
      /\ \A d \in Darts \ {e, -e} : org'[d] = org[d]
  BY <1>2, <1>3 DEF LinkNewEdgesSplit, With, Without
<1>7. /\ az'[f] = az[e] /\ az'[-f] = a /\ az'[g] = b /\ az'[-g] = az[-e]
      /\ \A d \in Darts \ {e, -e} : az'[d] = az[d]
  BY <1>2, <1>3 DEF LinkNewEdgesSplit, With, Without
<1>8. /\ next'[f] = g /\ next'[-g] = -f
      /\ next'[-f] = IF next[-e] = e THEN f ELSE IF next[-e] = -e THEN -g ELSE next[-e]
      /\ next'[g] = IF next[e] = e THEN f ELSE IF next[e] = -e THEN -g ELSE next[e]
      /\ \A d \in Darts \ {e, -e} :
           next'[d] = IF next[d] = e /\ org[-d] = org[e] THEN IF d < 0 THEN g ELSE f
                      ELSE IF next[d] = -e /\ org[-d] = org[-e]
                           THEN IF d < 0 THEN -f ELSE -g
                           ELSE next[d]
  BY <1>2, <1>3 DEF LinkNewEdgesSplit, With, NewSplitLinks
<1>9. /\ \A v : v \in D <=> (v \in Darts /\ v # e /\ v # -e) \/ v \in {f, -f, g, -g}
      /\ \A v : v \in C <=> v \in D /\ v # -f /\ v # g
  OBVIOUS
<1>10. /\ tau \in [C -> Darts]
       /\ \A v \in C : tau[v] = IF v = f THEN e ELSE IF v = -g THEN -e ELSE v
  <2>1. \A v \in C : v \in Darts \/ v = f \/ v = -g
    BY <1>9
  <2> QED BY <1>2, <2>1
<1> HIDE DEF D, C, tau
<1>11. \A v \in C : v \in Darts \ {e, -e} \/ v = f \/ v = -g
  BY <1>9
<1>12. \A u, v \in C : tau[u] = tau[v] => u = v
  <2>1. \A v \in C : v = f => tau[v] = e
    BY <1>10
  <2>2. \A v \in C : v = -g => tau[v] = -e
    BY <1>3, <1>10
  <2>3. \A v \in C : v \in Darts => tau[v] = v /\ v # e /\ v # -e
    BY <1>2, <1>3, <1>10, <1>11
  <2> SUFFICES ASSUME NEW u \in C, NEW v \in C, tau[u] = tau[v] PROVE u = v
    OBVIOUS
  <2>4. CASE u = f
    BY <1>2, <1>11, <2>1, <2>2, <2>3, <2>4
  <2>5. CASE u = -g
    BY <1>2, <1>11, <2>1, <2>2, <2>3, <2>5
  <2>6. CASE u \in Darts
    BY <1>2, <1>11, <2>1, <2>2, <2>3, <2>6
  <2> QED BY <1>11, <2>4, <2>5, <2>6
<1>13. \A v \in C : org'[v] = org[tau[v]] /\ az'[v] = az[tau[v]]
  <2> SUFFICES ASSUME NEW v \in C PROVE org'[v] = org[tau[v]] /\ az'[v] = az[tau[v]]
    OBVIOUS
  <2>1. CASE v = f
    BY <1>6, <1>7, <1>10, <2>1
  <2>2. CASE v = -g
    BY <1>3, <1>6, <1>7, <1>10, <2>2
  <2>3. CASE v \in Darts \ {e, -e}
    BY <1>2, <1>3, <1>6, <1>7, <1>10, <2>3
  <2> QED BY <1>11, <2>1, <2>2, <2>3
<1>14. \A v \in C : org'[v] \in nodes /\ org'[v] # n
  BY <1>1, <1>10, <1>13, InvFacts
<1>15. \A v \in D \ C : (v = -f \/ v = g) /\ org'[v] = n
  BY <1>6, <1>9
<1>16. \A v \in D : org'[v] = n => v = -f \/ v = g
  BY <1>14, <1>15
<1>17. /\ org' \in [D -> nodes'] /\ az' \in [D -> Azimuths]
  <2>1. \A d \in D : org'[d] \in nodes'
    BY <1>1, <1>14, <1>15
  <2>2. \A d \in D : az'[d] \in Azimuths
    <3>1. ASSUME NEW d \in C PROVE az'[d] \in Azimuths
      BY <1>10, <1>13, InvFacts
    <3> QED BY <1>7, <1>15, <3>1
  <2> QED BY <1>4, <2>1, <2>2
<1>18. Copies(org, az, org', az', C, tau)
  <2>1. C \in SUBSET DOMAIN org' /\ tau \in [C -> DOMAIN org]
    BY <1>2, <1>4, <1>9, <1>10
  <2>2. \A u, v \in DOMAIN org' \ C : az'[u] = az'[v] => u = v
    BY <1>1, <1>4, <1>7, <1>15
  <2>3. \A u \in C : \A v \in DOMAIN org' \ C : org'[v] # org'[u]
    BY <1>4, <1>14, <1>15
  <2> QED BY <1>12, <1>13, <2>1, <2>2, <2>3, Zenon DEF Copies
<1>19. Distinct(org', az')
  BY <1>18, InvFacts, RenamedDistinct
<1>20. turn(a, b) < turn(a, a) /\ turn(b, a) < turn(b, b)
  BY <1>1, TurnInjective
<1>21. ASSUME NEW d \in D PROVE next'[d] \in D /\ Follows(org', az', d, next'[d])
  <2>1. CASE d = f
    <3>1. g \in D
      BY <1>9
    <3> QED BY <1>4, <1>6, <1>7, <1>8, <1>16, <1>20, <2>1, <3>1 DEF Follows
  <2>2. CASE d = -g
    <3>1. -f \in D
      BY <1>9
    <3> QED BY <1>3, <1>4, <1>6, <1>7, <1>8, <1>16, <1>20, <2>2, <3>1 DEF Follows
  <2>3. CASE d \notin {f, -g}
    <3> DEFINE w == IF d = -f THEN -e ELSE IF d = g THEN e ELSE d
               t == IF next[w] = e THEN f ELSE IF next[w] = -e THEN -g ELSE next[w]
    <3>1. w \in Darts /\ -w \in Darts /\ next[w] \in Darts /\ Follows(org, az, w, next[w])
      BY <1>2, <1>9, <2>3, InvFacts
    <3>2. -d \in C /\ -w = tau[-d]
      <4>1. CASE d = -f
        <5>1. w = -e /\ -d = f /\ f \in D /\ f # -f /\ f # g
          BY <1>2, <1>3, <1>9, <4>1
        <5> QED BY <1>2, <1>9, <1>10, <5>1
      <4>2. CASE d = g
        <5>1. w = e /\ -d = -g /\ -g \in D /\ -g # -f /\ -g # g /\ -g # f
          BY <1>2, <1>3, <1>9, <4>2
        <5> QED BY <1>9, <1>10, <5>1
      <4>3. CASE d # -f /\ d # g
        <5>1. d \in Darts /\ -d \in Darts /\ -d # -e /\ -d # e
          BY <1>2, <1>9, <2>3, <4>3, InvFacts
        <5> QED BY <1>2, <1>3, <1>9, <1>10, <4>3, <5>1
      <4> QED BY <4>1, <4>2, <4>3
    <3>3. next'[d] = t
      <4>1. CASE d \in Darts
        <5>1. d # e /\ d # -e /\ d \in Int /\ -d \in Int
          BY <1>2, <1>3, <1>9, <4>1, InvFacts
        <5>2. org[next[d]] = org[-d]
          BY <4>1, InvFacts DEF Follows
        <5>3. d < 0 => org[-d] # org[e] /\ org[-d] # org[-e]
          <6> SUFFICES ASSUME d < 0 PROVE org[-d] # org[e] /\ org[-d] # org[-e]
            OBVIOUS
          <6>1. -d \in Edges /\ -d # e
            BY <1>2, <4>1, <5>1, InvFacts DEF Edges
          <6> QED BY <1>1, <6>1
        <5>4. w = d
          BY <1>2, <1>3, <4>1
        <5> QED BY <1>8, <4>1, <5>1, <5>2, <5>3, <5>4
      <4>2. CASE d \notin Darts
        BY <1>2, <1>3, <1>8, <1>9, <2>3, <4>2
      <4> QED BY <4>1, <4>2
    <3>4. t \in C /\ tau[t] = next[w]
      BY <1>2, <1>3, <1>9, <1>10, <3>1
    <3> HIDE DEF w, t
    <3>5. Follows(org', az', d, t)
      BY <1>18, <3>1, <3>2, <3>4, Renamed
    <3> QED BY <1>9, <3>3, <3>4, <3>5
  <2> QED BY <2>1, <2>2, <2>3
<1>22. next' \in [D -> D] /\ Paired(D)
  <2>1. Paired(Darts \ {e, -e}) /\ f \in EdgeIds /\ g \in EdgeIds
    BY <1>2, Fresh, FreshNext, InvFacts, PairedWithout
  <2>2. Paired(D)
    BY <2>1, PairedWith DEF D
  <2> QED BY <1>5, <1>21, <2>2
<1>23. nodes' \in SUBSET Nodes
  BY <1>1, InvFacts
<1> QED BY <1>4, <1>5, <1>17, <1>19, <1>21, <1>22, <1>23 DEF LinkInv, Good, Typed, Rotated

\* The darts x and y of the healed edges are those of edge k.
Healed(f, x, y, k) ==
  LET kd == IF x > 0 THEN k ELSE -k
  IN  [d \in (DOMAIN f \ {x, -x, y, -y}) \cup {kd, -kd} |->
         IF d = kd THEN f[x] ELSE IF d = -kd THEN f[y] ELSE f[d]]

\* One edge in place of two: its darts are the outer darts of both.
LEMMA HealedGood ==
  ASSUME NEW ns, NEW o, NEW z, NEW nx, Good(ns, o, z, nx),
         NEW x \in DOMAIN nx, NEW y \in DOMAIN nx, NEW k \in EdgeIds,
         x # y, x # -y, o[x] # o[-x], o[y] # o[-y],
         {d \in DOMAIN nx : o[d] = o[-x]} = {-x, -y},
         (IF x > 0 THEN k ELSE -k) = x \/ (k \notin DOMAIN nx /\ -k \notin DOMAIN nx),
         NEW ns2, ns2 = ns \ {o[-x]},
         NEW o2, o2 = Healed(o, x, y, k), NEW z2, z2 = Healed(z, x, y, k),
         NEW nx2, nx2 = HealLinks(nx, x, y, k)
  PROVE  Good(ns2, o2, z2, nx2)
<1> DEFINE kd == IF x > 0 THEN k ELSE -k
           D == (DOMAIN nx \ {x, -x, y, -y}) \cup {kd, -kd}
           tau == [d \in D |-> IF d = kd THEN x ELSE IF d = -kd THEN y ELSE d]
           n == o[-x]
           ref(t) == IF t = y THEN -kd ELSE IF t = x THEN kd ELSE t
<1> DEFINE Out2 == {d \in DOMAIN nx : o[d] = n}
<1>1. /\ x # y /\ x # -y /\ o[x] # n /\ o[y] # o[-y] /\ Out2 = {-x, -y}
      /\ ns2 = ns \ {n}
  OBVIOUS
<1>2. /\ DOMAIN o = DOMAIN nx /\ DOMAIN z = DOMAIN nx
      /\ x \in DOMAIN nx /\ -x \in DOMAIN nx /\ x \in Int /\ -(-x) = x /\ x # -x
      /\ y \in DOMAIN nx /\ -y \in DOMAIN nx /\ y \in Int /\ -(-y) = y /\ y # -y
  BY GoodFacts
<1>3. /\ kd \in Int /\ -(-kd) = kd /\ kd # -kd
      /\ kd \in {k, -k}
      /\ kd = x \/ (kd \notin DOMAIN nx /\ -kd \notin DOMAIN nx)
  <2>1. k \in Int /\ k # -k /\ -(-k) = k
    BY LinksAssumption DEF EdgeIds
  <2> QED BY <2>1
<1>4. /\ DOMAIN o2 = D /\ o2 = [d \in D |-> o2[d]]
      /\ DOMAIN z2 = D /\ z2 = [d \in D |-> z2[d]]
      /\ DOMAIN nx2 = D /\ nx2 = [d \in D |-> nx2[d]]
  BY <1>2 DEF Healed, HealLinks
<1>5. \A d \in D : /\ o2[d] = IF d = kd THEN o[x] ELSE IF d = -kd THEN o[y] ELSE o[d]
                   /\ z2[d] = IF d = kd THEN z[x] ELSE IF d = -kd THEN z[y] ELSE z[d]
  BY <1>2 DEF Healed
<1>6. \A d \in D : nx2[d] = IF d = kd THEN ref(nx[-y])
                              ELSE IF d = -kd THEN ref(nx[-x]) ELSE ref(nx[d])
  BY <1>2 DEF Healed, HealLinks
<1>7. \A v : v \in D <=> (v \in DOMAIN nx /\ v # x /\ v # -x /\ v # y /\ v # -y) \/ v = kd \/ v = -kd
  OBVIOUS
<1>8. /\ tau \in [D -> DOMAIN nx]
      /\ \A v \in D : tau[v] = IF v = kd THEN x ELSE IF v = -kd THEN y ELSE v
  <2> HIDE DEF kd
  <2> QED BY <1>2, <1>3
<1> HIDE DEF kd, D, tau
<1>9. \A v \in D : tau[v] \in DOMAIN nx /\ o[tau[v]] # n
  <2> SUFFICES ASSUME NEW v \in D PROVE tau[v] \in DOMAIN nx /\ o[tau[v]] # n
    OBVIOUS
  <2>1. CASE v = kd
    BY <1>1, <1>2, <1>8, <2>1
  <2>2. CASE v = -kd
    <3>1. o[-y] = n
      BY <1>1, <1>2 DEF Out2
    <3> QED BY <1>1, <1>2, <1>3, <1>8, <2>2, <3>1
  <2>3. CASE v # kd /\ v # -kd
    <3>1. v \in DOMAIN nx /\ v \notin {-x, -y} /\ tau[v] = v
      BY <1>7, <1>8, <2>3
    <3> QED BY <1>1, <3>1 DEF Out2
  <2> QED BY <2>1, <2>2, <2>3
<1>10. \A u, v \in D : tau[u] = tau[v] => u = v
  <2> SUFFICES ASSUME NEW u \in D, NEW v \in D, tau[u] = tau[v] PROVE u = v
    OBVIOUS
  <2>1. \A d \in D : d = kd => tau[d] = x
    BY <1>8
  <2>2. \A d \in D : d = -kd => tau[d] = y
    BY <1>3, <1>8
  <2>3. \A d \in D : d # kd /\ d # -kd => tau[d] = d /\ d # x /\ d # y
    BY <1>7, <1>8
  <2>4. CASE u = kd
    BY <1>1, <2>1, <2>2, <2>3, <2>4
  <2>5. CASE u = -kd
    BY <1>1, <2>1, <2>2, <2>3, <2>5
  <2>6. CASE u # kd /\ u # -kd
    BY <1>1, <2>1, <2>2, <2>3, <2>6
  <2> QED BY <2>4, <2>5, <2>6
<1>11. \A v \in D : o2[v] = o[tau[v]] /\ z2[v] = z[tau[v]]
  <2> SUFFICES ASSUME NEW v \in D PROVE o2[v] = o[tau[v]] /\ z2[v] = z[tau[v]]
    OBVIOUS
  <2>1. CASE v = kd
    BY <1>5, <1>8, <2>1
  <2>2. CASE v = -kd
    BY <1>3, <1>5, <1>8, <2>2
  <2>3. CASE v # kd /\ v # -kd
    BY <1>5, <1>8, <2>3
  <2> QED BY <2>1, <2>2, <2>3
<1>12. Copies(o, z, o2, z2, D, tau)
  <2>1. D \in SUBSET DOMAIN o2 /\ tau \in [D -> DOMAIN o]
    BY <1>2, <1>4, <1>8
  <2>2. \A u, v \in DOMAIN o2 \ D : z2[u] = z2[v] => u = v
    BY <1>4
  <2>3. \A u \in D : \A v \in DOMAIN o2 \ D : o2[v] # o2[u]
    BY <1>4
  <2> QED BY <1>10, <1>11, <2>1, <2>2, <2>3, Zenon DEF Copies
<1>13. Distinct(o2, z2)
  BY <1>12, GoodFacts, RenamedDistinct
<1>14. o2 \in [D -> ns2] /\ z2 \in [D -> Azimuths]
  <2>1. \A d \in D : o2[d] \in ns2 /\ z2[d] \in Azimuths
    BY <1>1, <1>9, <1>11, GoodFacts
  <2> QED BY <1>4, <2>1
<1>15. ASSUME NEW d \in D PROVE nx2[d] \in D /\ Follows(o2, z2, d, nx2[d])
  <2> DEFINE w == IF d = kd THEN -y ELSE IF d = -kd THEN -x ELSE d
             t == ref(nx[w])
  <2>1. w \in DOMAIN nx /\ -w \in DOMAIN nx /\ nx[w] \in DOMAIN nx /\ Follows(o, z, w, nx[w])
    BY <1>2, <1>3, <1>7, GoodFacts
  <2>2. -d \in D /\ -w = tau[-d]
    <3>1. CASE d = kd
      <4>1. w = -y /\ -d \in D /\ -d = -kd /\ -d # kd
        BY <1>3, <1>7, <3>1
      <4> QED BY <1>2, <1>8, <4>1
    <3>2. CASE d = -kd
      <4>1. w = -x /\ -d \in D /\ -d = kd
        BY <1>3, <1>7, <3>2
      <4> QED BY <1>2, <1>8, <4>1
    <3>3. CASE d # kd /\ d # -kd
      <4>1. d \in DOMAIN nx /\ d # x /\ d # -x /\ d # y /\ d # -y /\ d \in Int /\ -(-d) = d
        BY <1>7, <3>3, GoodFacts
      <4>2. -d \in DOMAIN nx /\ -d # x /\ -d # -x /\ -d # y /\ -d # -y /\ -d # kd /\ -d # -kd
        BY <1>2, <1>3, <3>3, <4>1, GoodFacts
      <4> QED BY <1>7, <1>8, <3>3, <4>2
    <3> QED BY <3>1, <3>2, <3>3
  <2>3. nx2[d] = t
    BY <1>3, <1>6
  <2>4. nx[w] # -x /\ nx[w] # -y
    <3>1. o[nx[w]] # n
      BY <1>9, <2>1, <2>2 DEF Follows
    <3>2. o[-y] = n
      BY <1>1, <1>2 DEF Out2
    <3> QED BY <3>1, <3>2
  <2> HIDE DEF w
  <2>5. t \in D /\ tau[t] = nx[w]
    <3>1. CASE nx[w] = y
      BY <1>3, <1>7, <1>8, <3>1
    <3>2. CASE nx[w] = x /\ x # y
      BY <1>3, <1>7, <1>8, <3>2
    <3>3. CASE nx[w] # x /\ nx[w] # y
      <4>1. t = nx[w] /\ t # -x
        BY <2>4, <3>3
      <4>2. t # kd /\ t # -kd
        BY <1>3, <2>1, <3>3, <4>1
      <4> QED BY <1>7, <1>8, <2>1, <2>4, <3>3, <4>1, <4>2
    <3> QED BY <1>1, <3>1, <3>2, <3>3
  <2> HIDE DEF t
  <2>6. Follows(o2, z2, d, t)
    BY <1>12, <2>1, <2>2, <2>5, Renamed
  <2> QED BY <2>3, <2>5, <2>6
<1>16. nx2 \in [D -> D] /\ Paired(D)
  <2>1. Paired(DOMAIN nx) /\ k \in EdgeIds
    BY GoodFacts
  <2>2. Paired((DOMAIN nx \ {x, -x}) \ {y, -y})
    BY <1>2, <2>1, PairedWithout
  <2>3. D = ((DOMAIN nx \ {x, -x}) \ {y, -y}) \cup {k, -k}
    <3>1. {kd, -kd} = {k, -k}
      <4>1. k \in Int /\ -(-k) = k
        BY <2>1, LinksAssumption DEF EdgeIds
      <4> QED BY <4>1 DEF kd
    <3> QED BY <3>1 DEF D
  <2>4. Paired(D)
    BY <2>1, <2>2, <2>3, PairedWith
  <2>5. nx2 \in [D -> D]
    <3> HIDE DEF ref
    <3> QED BY <1>4, <1>15
  <2> QED BY <2>4, <2>5
<1>17. ns2 \in SUBSET Nodes
  BY <1>1, GoodFacts
<1> QED BY <1>4, <1>13, <1>14, <1>15, <1>16, <1>17 DEF Good, Typed, Rotated

LEMMA HealEdgesInv ==
  ASSUME LinkInv, NEW e1 \in Edges, NEW e2 \in Edges,
         NEW x \in {e1, -e1}, NEW y \in {e2, -e2},
         NEW k \in {e1} \cup NewEdgeIds(Edges),
         HealsAt(e1, e2, x, y), LinkHealEdges(x, y, k)
  PROVE  LinkInv'
<1>1. /\ x # y /\ x # -y /\ org[x] # org[-x] /\ org[y] # org[-y]
      /\ Out(org[-x]) = {-x, -y}
  BY DEF HealsAt, Healable
<1>2. \A e \in Edges : /\ e \in EdgeIds /\ e \in Int /\ e > 0 /\ ~(-e > 0)
                       /\ e \in Darts /\ -e \in Darts
  BY InvFacts, LinksAssumption DEF Edges, Paired, EdgeIds
<1>3. x \in Darts /\ y \in Darts
  BY <1>2
<1>4. k \in EdgeIds
  BY <1>2 DEF NewEdgeIds
<1>5. (IF x > 0 THEN k ELSE -k) = x \/ (k \notin Darts /\ -k \notin Darts)
  <2>1. CASE k = e1
    BY <1>2, <2>1
  <2>2. CASE k \in NewEdgeIds(Edges)
    BY <2>2, Fresh
  <2> QED BY <2>1, <2>2
<1>6. /\ nodes' = nodes \ {org[-x]} /\ next' = HealLinks(next, x, y, k)
      /\ org' = Healed(org, x, y, k) /\ az' = Healed(az, x, y, k)
  BY DEF LinkHealEdges, Healed
<1>7. {d \in DOMAIN next : org[d] = org[-x]} = {-x, -y}
  BY <1>1 DEF Out, Darts
<1> QED BY <1>1, <1>3, <1>4, <1>5, <1>6, <1>7, HealedGood DEF LinkInv, Darts

\* Among the darts that are not in X, t is the first from -d.
FollowsBut(o, z, d, t, X) ==
  /\ o[t] = o[-d]
  /\ \A x \in DOMAIN o \ X : o[x] = o[-d] /\ x # t => turn(z[-d], z[t]) < turn(z[-d], z[x])

\* Without c, which is first, the first from c is.
LEMMA SkipDart ==
  ASSUME NEW o, NEW z \in [DOMAIN o -> Azimuths], Distinct(o, z),
         NEW X, NEW d, -d \in DOMAIN o, NEW c \in DOMAIN o, c # -d, FollowsBut(o, z, d, c, X),
         NEW w, -w = c, NEW s \in DOMAIN o \ X, s # c, Follows(o, z, w, s)
  PROVE  FollowsBut(o, z, d, s, X \cup {c})
<1>1. o[s] = o[-d] /\ o[c] = o[-d]
  BY DEF Follows, FollowsBut
<1>2. ASSUME NEW v \in DOMAIN o \ (X \cup {c}), o[v] = o[-d], v # s
      PROVE  turn(z[-d], z[s]) < turn(z[-d], z[v])
  <2>1. turn(z[-d], z[c]) < turn(z[-d], z[v]) /\ turn(z[-d], z[c]) < turn(z[-d], z[s])
    BY <1>1, <1>2 DEF FollowsBut
  <2>2. turn(z[c], z[s]) < turn(z[c], z[v])
    BY <1>1, <1>2 DEF Follows
  <2>3. z[-d] # z[c]
    BY <1>1 DEF Distinct
  <2>4. /\ z[-d] \in Azimuths /\ z[c] \in Azimuths /\ z[s] \in Azimuths /\ z[v] \in Azimuths
    BY <1>2
  <2> QED BY <2>1, <2>2, <2>3, <2>4, Skip
<1> QED BY <1>1, <1>2 DEF FollowsBut

\* A dart is followed by its reverse only where no other edge ends.
LEMMA NotSelf ==
  ASSUME NEW o, NEW z \in [DOMAIN o -> Azimuths],
         NEW w, NEW c \in DOMAIN o, -w = c, NEW x \in DOMAIN o, x # c, o[x] = o[c]
  PROVE  ~Follows(o, z, w, c)
<1> SUFFICES ASSUME Follows(o, z, w, c) PROVE FALSE
  OBVIOUS
<1>1. turn(z[c], z[c]) < turn(z[c], z[x])
  BY DEF Follows
<1> QED BY <1>1, TurnInjective

\* What RemLinks puts in the place of dart c of the removed edge.
LEMMA Removed ==
  ASSUME NEW ns, NEW o, NEW z, NEW nx, Good(ns, o, z, nx),
         NEW c \in DOMAIN nx, NEW d \in DOMAIN nx \ {c, -c}, nx[d] = c,
         NEW s, s = IF nx[-c] # -c THEN nx[-c] ELSE nx[c]
  PROVE  s \in DOMAIN nx \ {c, -c} /\ FollowsBut(o, z, d, s, {c, -c})
<1>1. /\ DOMAIN o = DOMAIN nx /\ Distinct(o, z) /\ z \in [DOMAIN o -> Azimuths]
      /\ c \in Int /\ -c \in DOMAIN nx /\ -(-c) = c /\ c # -c
      /\ d \in Int /\ -d \in DOMAIN nx /\ -(-d) = d /\ -d # c /\ -d # -c
      /\ nx[c] \in DOMAIN nx /\ nx[-c] \in DOMAIN nx
      /\ Follows(o, z, d, c)
      /\ Follows(o, z, c, nx[c]) /\ Follows(o, z, -c, nx[-c])
  BY GoodFacts
<1>2. o[c] = o[-d] /\ o[nx[-c]] = o[c]
  BY <1>1 DEF Follows
<1>3. nx[-c] # c
  BY <1>1, <1>2, NotSelf
<1>4. FollowsBut(o, z, d, c, {})
  BY <1>1 DEF Follows, FollowsBut
<1>5. CASE nx[-c] # -c
  <2>1. s = nx[-c] /\ s \in DOMAIN o \ {} /\ s # c
    BY <1>1, <1>3, <1>5
  <2>2. FollowsBut(o, z, d, s, {} \cup {c})
    BY <1>1, <1>4, <2>1, SkipDart
  <2>3. s # -c
    BY <1>5, <2>1
  <2> QED BY <1>1, <2>1, <2>2, <2>3 DEF FollowsBut
<1>6. CASE nx[-c] = -c
  <2>1. s = nx[c] /\ o[-c] = o[-d] /\ o[-c] = o[c]
    BY <1>2, <1>6
  <2>2. FollowsBut(o, z, d, -c, {} \cup {c})
    <3>1. -c \in DOMAIN o \ {} /\ Follows(o, z, -c, -c)
      BY <1>1, <1>6
    <3> QED BY <1>1, <1>4, <3>1, SkipDart
  <2>3. s # -c
    BY <1>1, <2>1, NotSelf
  <2>4. s # c
    <3> SUFFICES ASSUME s = c PROVE FALSE
      OBVIOUS
    <3>1. turn(z[-c], z[c]) < turn(z[-c], z[-d])
      BY <1>1, <2>1 DEF Follows
    <3>2. turn(z[-d], z[c]) < turn(z[-d], z[-c])
      BY <1>1, <2>1 DEF Follows
    <3>3. z[c] # z[-c] /\ z[-c] # z[-d] /\ z[c] # z[-d]
      BY <1>1, <1>2, <2>1 DEF Distinct
    <3>4. z[c] \in Azimuths /\ z[-c] \in Azimuths /\ z[-d] \in Azimuths
      BY <1>1
    <3>5. /\ turn(z[-c], z[c]) \in Int /\ turn(z[-c], z[-d]) \in Int
          /\ turn(z[-d], z[c]) \in Int /\ turn(z[-d], z[-c]) \in Int
      BY <3>4, TurnInjective
    <3>6. turn(z[-d], z[-c]) < turn(z[-d], z[c])
      BY <3>1, <3>3, <3>4, <3>5, OneOrder
    <3> QED BY <3>2, <3>5, <3>6
  <2>5. FollowsBut(o, z, d, s, ({} \cup {c}) \cup {-c})
    <3>1. s \in DOMAIN o \ ({} \cup {c})
      BY <1>1, <2>1, <2>4
    <3> HIDE DEF FollowsBut
    <3> QED BY <1>1, <2>1, <2>2, <2>3, <3>1, SkipDart
  <2>6. ({} \cup {c}) \cup {-c} = {c, -c}
    OBVIOUS
  <2> QED BY <1>1, <2>1, <2>3, <2>4, <2>5, <2>6
<1> QED BY <1>5, <1>6

\* What led to the removed edge leads to what followed it.
LEMMA RemovedGood ==
  ASSUME NEW ns, NEW o, NEW z, NEW nx, Good(ns, o, z, nx), NEW e \in DOMAIN nx,
         NEW o2, o2 = Without(o, e), NEW z2, z2 = Without(z, e),
         NEW nx2, nx2 = RemLinks(o, nx, e)
  PROVE  Good(ns, o2, z2, nx2)
<1> DEFINE D == DOMAIN nx \ {e, -e}
<1>1. /\ DOMAIN o = DOMAIN nx /\ DOMAIN z = DOMAIN nx
      /\ e \in DOMAIN nx /\ -e \in DOMAIN nx /\ e \in Int /\ -(-e) = e /\ e # -e
  BY GoodFacts
<1>2. /\ DOMAIN o2 = D /\ o2 = [d \in D |-> o2[d]]
      /\ DOMAIN z2 = D /\ z2 = [d \in D |-> z2[d]]
      /\ DOMAIN nx2 = D /\ nx2 = [d \in D |-> nx2[d]]
  BY <1>1 DEF Without, RemLinks
<1>3. \A d \in D : o2[d] = o[d] /\ z2[d] = z[d]
  BY <1>1 DEF Without
<1>4. \A d \in D : nx2[d] =
        IF {o[d], o[-d]} \cap {o[e], o[-e]} = {} THEN nx[d]
        ELSE IF nx[d] = -e THEN IF nx[e] # e THEN nx[e] ELSE nx[-e]
        ELSE IF nx[d] = e THEN IF nx[-e] # -e THEN nx[-e] ELSE nx[e]
        ELSE nx[d]
  BY <1>1 DEF RemLinks
<1>5. o2 \in [D -> ns] /\ z2 \in [D -> Azimuths]
  BY <1>2, <1>3, GoodFacts
<1>6. Distinct(o2, z2)
  <2>1. Distinct(o, z)
    BY GoodFacts
  <2> QED BY <1>1, <1>2, <1>3, <2>1 DEF Distinct
<1>7. ASSUME NEW d \in D PROVE nx2[d] \in D /\ Follows(o2, z2, d, nx2[d])
  <2>1. /\ -d \in D /\ nx[d] \in DOMAIN nx /\ Follows(o, z, d, nx[d])
        /\ d \in DOMAIN nx /\ d \in Int /\ -(-d) = d
    BY <1>1, GoodFacts
  <2>2. nx2[d] \in D /\ FollowsBut(o, z, d, nx2[d], {e, -e})
    <3>1. CASE nx[d] = e
      <4>1. ~({o[d], o[-d]} \cap {o[e], o[-e]} = {})
        BY <2>1, <3>1 DEF Follows
      <4>2. nx2[d] = IF nx[-e] # -e THEN nx[-e] ELSE nx[e]
        BY <1>1, <1>4, <3>1, <4>1
      <4>3. d \in DOMAIN nx \ {e, -e}
        OBVIOUS
      <4>4. nx2[d] \in DOMAIN nx \ {e, -e} /\ FollowsBut(o, z, d, nx2[d], {e, -e})
        <5> DEFINE s == nx2[d]
        <5>1. s = IF nx[-e] # -e THEN nx[-e] ELSE nx[e]
          BY <4>2
        <5> HIDE DEF D, s
        <5>2. s \in DOMAIN nx \ {e, -e} /\ FollowsBut(o, z, d, s, {e, -e})
          BY <3>1, <4>3, <5>1, Removed
        <5> QED BY <5>2 DEF s
      <4> QED BY <4>4
    <3>2. CASE nx[d] = -e
      <4>1. ~({o[d], o[-d]} \cap {o[e], o[-e]} = {})
        BY <2>1, <3>2 DEF Follows
      <4>2. nx2[d] = IF nx[-(-e)] # -(-e) THEN nx[-(-e)] ELSE nx[-e]
        BY <1>1, <1>4, <3>2, <4>1
      <4>3. d \in DOMAIN nx \ {-e, -(-e)} /\ {-e, -(-e)} = {e, -e}
        BY <1>1
      <4> QED BY <1>1, <2>1, <3>2, <4>2, <4>3, Removed
    <3>3. CASE nx[d] # e /\ nx[d] # -e
      BY <1>1, <1>4, <2>1, <3>3 DEF Follows, FollowsBut
    <3> QED BY <3>1, <3>2, <3>3
  <2> QED BY <1>1, <1>2, <1>3, <2>1, <2>2 DEF Follows, FollowsBut
<1>8. nx2 \in [D -> D] /\ Paired(D)
  BY <1>1, <1>2, <1>7, GoodFacts, PairedWithout
<1> QED BY <1>2, <1>5, <1>6, <1>7, <1>8, GoodFacts DEF Good, Typed, Rotated

LEMMA RemEdgeInv ==
  ASSUME LinkInv, NEW e \in Edges, LinkRemEdge(e)
  PROVE  LinkInv'
<1>1. e \in DOMAIN next
  BY DEF Edges, Darts
<1> QED BY <1>1, RemovedGood DEF LinkInv, LinkRemEdge

\* The new directions of the edge's ends are between the same neighbours.
LEMMA ChangeEdgeGeomInv ==
  ASSUME LinkInv, NEW e \in Edges, NEW a \in Azimuths, NEW b \in Azimuths,
         LinkChangeEdgeGeom(e, a, b)
  PROVE  LinkInv'
<1> DEFINE z == [az EXCEPT ![e] = a, ![-e] = b]
<1>1. /\ DOMAIN org = Darts /\ DOMAIN az = Darts /\ DOMAIN next = Darts
      /\ e \in Darts /\ -e \in Darts /\ e \in Int /\ -e \in Int /\ -(-e) = e /\ e # -e
  BY InvFacts DEF Edges
<1>2. /\ org' = org /\ next' = next /\ nodes' = nodes /\ az' = z
      /\ Free(org[e], a, {e, -e}) /\ Free(org[-e], b, {e, -e})
      /\ org[e] = org[-e] => a # b
      /\ SameNeighbours(e, z) /\ SameNeighbours(-e, z)
  BY DEF LinkChangeEdgeGeom
<1>3. /\ z[e] = a /\ z[-e] = b /\ \A d \in Darts \ {e, -e} : z[d] = az[d]
      /\ DOMAIN z = Darts /\ z = [d \in Darts |-> z[d]]
  BY <1>1
<1> HIDE DEF z
<1>4. z \in [DOMAIN org -> Azimuths] /\ az \in [DOMAIN org -> Azimuths]
  <2>1. \A d \in Darts : z[d] \in Azimuths
    BY <1>3, InvFacts
  <2>2. az \in [DOMAIN org -> Azimuths]
    BY <1>1 DEF LinkInv, Good, Typed
  <2> QED BY <1>1, <1>3, <2>1, <2>2
<1>5. Distinct(org, az) /\ Distinct(org, z)
  <2>1. \A d \in Darts \ {e, -e} : (org[d] = org[e] => z[d] # a) /\ (org[d] = org[-e] => z[d] # b)
    BY <1>2, <1>3 DEF Free, Out
  <2>2. \A x, y \in Darts : org[x] = org[y] /\ az[x] = az[y] => x = y
    BY <1>1, InvFacts DEF Distinct
  <2>3. ASSUME NEW x \in Darts, NEW y \in Darts, org[x] = org[y], z[x] = z[y]
        PROVE  x = y
    <3>1. CASE x = e
      BY <1>2, <1>3, <2>1, <2>3, <3>1
    <3>2. CASE x = -e
      BY <1>2, <1>3, <2>1, <2>3, <3>2
    <3>3. CASE x # e /\ x # -e
      BY <1>2, <1>3, <2>1, <2>2, <2>3, <3>3
    <3> QED BY <3>1, <3>2, <3>3
  <2> QED BY <1>1, <2>3, InvFacts DEF Distinct
<1>6. ASSUME NEW y \in {e, -e}, Around(org, y) # {}
      PROVE  /\ nextCW(Around(org, y), z, z[y]) = nextCW(Around(org, y), az, az[y])
             /\ nextCCW(Around(org, y), z, z[y]) = nextCCW(Around(org, y), az, az[y])
  <2>1. Around(org, y) = Out(org[y]) \ {y}
    BY <1>1 DEF Around, Out
  <2>2. SameNeighbours(y, z)
    BY <1>2
  <2> QED BY <1>6, <2>1, <2>2, Zenon DEF SameNeighbours
<1>7. ASSUME NEW d \in Darts PROVE Follows(org, z, d, next[d])
  <2> DEFINE t == next[d]
  <2>1. /\ d \in Int /\ -d \in Darts /\ -(-d) = d /\ t \in Darts
        /\ Follows(org, az, d, t) /\ org[t] = org[-d]
    BY InvFacts DEF Follows
  <2> HIDE DEF t
  <2>2. ASSUME NEW y \in {e, -e}, -d = y PROVE Follows(org, z, d, t)
    <3> DEFINE S == Around(org, y)
    <3>1. y \in DOMAIN org /\ y \in Int /\ d = -y
      BY <1>1, <2>1, <2>2
    <3>2. CASE S = {}
      <4>1. t = y
        BY <1>1, <2>1, <2>2, <3>2 DEF Around
      <4> QED BY <1>4, <1>5, <3>1, <3>2, <4>1, NewFollows
    <3>3. CASE S # {}
      <4> DEFINE s == nextCW(S, az, az[y])
      <4> HIDE DEF S
      <4>1. s = nextCW(S, z, z[y])
        BY <1>6, <3>3 DEF S
      <4> HIDE DEF s
      <4>2. s \in DOMAIN org /\ Follows(org, az, -y, s)
        BY <1>4, <1>5, <3>1, <3>3, NewFollows DEF S, s
      <4>3. Follows(org, z, -y, s)
        BY <1>4, <1>5, <3>1, <3>3, <4>1, NewFollows DEF S
      <4>4. s = t
        BY <1>1, <1>4, <2>1, <3>1, <4>2, OneFirst
      <4> QED BY <3>1, <4>3, <4>4
    <3> QED BY <3>2, <3>3
  <2>3. CASE -d # e /\ -d # -e
    <3>1. -d \in DOMAIN org \ {e, -e} /\ z[-d] = az[-d]
      BY <1>1, <1>3, <2>1, <2>3
    <3>2. DOMAIN org \in SUBSET Int
      BY <1>1, InvFacts
    <3>3. ASSUME NEW y \in {e, -e}, org[y] = org[-d],
                 -d = nextCCW(Around(org, y), z, z[y])
          PROVE  t = y /\ Follows(org, z, d, y)
      <4>1. y \in DOMAIN org /\ Around(org, y) # {}
        BY <1>1, <2>3, <3>1, <3>3 DEF Around
      <4>2. -d = nextCCW(Around(org, y), az, az[y])
        BY <1>6, <3>3, <4>1
      <4>3. Follows(org, z, -(-d), y)
        BY <1>4, <1>5, <3>2, <3>3, <4>1, PrevFollows
      <4>4. Follows(org, az, -(-d), y)
        BY <1>4, <1>5, <3>2, <4>1, <4>2, PrevFollows
      <4>5. t = y
        BY <1>1, <1>4, <2>1, <4>1, <4>4, OneFirst
      <4> QED BY <2>1, <4>3, <4>5
    <3>4. ASSUME t \in {e, -e} PROVE Follows(org, z, d, t)
      <4> DEFINE p == nextCCW(Around(org, t), az, az[t])
      <4>1. t \in DOMAIN org /\ -d \in Around(org, t) /\ Around(org, t) # {}
        BY <1>1, <2>1, <3>1, <3>4 DEF Around
      <4>2. p = nextCCW(Around(org, t), z, z[t])
        BY <1>6, <3>4, <4>1
      <4>3. -d = p
        <5> SUFFICES ASSUME -d # p PROVE FALSE
          OBVIOUS
        <5>1. p \in Around(org, t) /\ turn(az[-d], az[p]) < turn(az[-d], az[t])
          <6> HIDE DEF p
          <6>1. p = nextCCW(Around(org, t), az, az[t])
            BY DEF p
          <6> QED BY <1>4, <1>5, <4>1, <6>1, NotLast
        <5> HIDE DEF p
        <5>2. turn(az[-d], az[t]) < turn(az[-d], az[p])
          BY <2>1, <5>1 DEF Follows, Around
        <5>3. turn(az[-d], az[t]) \in Int /\ turn(az[-d], az[p]) \in Int
          BY <1>1, <1>4, <2>1, <5>1, TurnInjective DEF Around
        <5> QED BY <5>1, <5>2, <5>3
      <4> QED BY <2>1, <3>3, <3>4, <4>2, <4>3
    <3>5. ASSUME t \notin {e, -e} PROVE Follows(org, z, d, t)
      <4>1. \A y \in {e, -e} : org[y] = org[-d] => -d # nextCCW(Around(org, y), z, z[y])
        BY <3>3, <3>5
      <4>2. t \in DOMAIN org \ {e, -e} /\ e \in DOMAIN org /\ -e \in DOMAIN org
        BY <1>1, <2>1, <3>5
      <4>3. \A v \in DOMAIN org \ {e, -e} :
              org[v] = org[-d] /\ v # t => turn(z[-d], z[t]) < turn(z[-d], z[v])
        BY <1>1, <1>3, <2>1, <3>1, <4>2 DEF Follows
      <4>4. ASSUME NEW y \in {e, -e}, org[y] = org[-d]
            PROVE  turn(z[-d], z[t]) < turn(z[-d], z[y])
        BY <1>1, <1>4, <1>5, <2>1, <3>1, <4>1, <4>2, <4>3, <4>4, OldFollows
      <4> QED BY <2>1, <4>3, <4>4 DEF Follows
    <3> QED BY <3>4, <3>5 DEF t
  <2>4. -d = e \/ -d = -e \/ (-d # e /\ -d # -e)
    OBVIOUS
  <2> QED BY <2>2, <2>3, <2>4 DEF t
<1>8. Good(nodes, org, z, next)
  <2>1. Typed(nodes, org, z, next)
    BY <1>1, <1>4 DEF LinkInv, Good, Typed
  <2> QED BY <1>1, <1>5, <1>7, <2>1 DEF Good, Rotated
<1> QED BY <1>2, <1>8 DEF LinkInv

-----------------------------------------------------------------------------
(* The theorems. *)

\* Every operation keeps the invariant.
LEMMA StepInv ==
  ASSUME AnySplit = FALSE, LinkInv, [LinkNext]_linkVars
  PROVE  LinkInv'
<1>1. ASSUME NEW n \in Nodes, LinkAddIsoNode(n) PROVE LinkInv'
  BY <1>1, AddIsoNodeInv
<1>2. ASSUME NEW n \in Nodes, LinkRemoveIsoNode(n) PROVE LinkInv'
  BY <1>2, RemoveIsoNodeInv
<1>3. ASSUME NEW m \in Nodes, NEW n \in Nodes, NEW a \in Azimuths, NEW b \in Azimuths,
             NEW f \in NewEdgeIds(Edges), LinkAddIsoEdge(f, m, n, a, b)
      PROVE  LinkInv'
  BY <1>3, AddIsoEdgeInv
<1>4. ASSUME NEW m \in Nodes, NEW n \in Nodes, NEW a \in Azimuths, NEW b \in Azimuths,
             NEW f \in NewEdgeIds(Edges), LinkAddEdge(f, m, n, a, b)
      PROVE  LinkInv'
  BY <1>4, AddEdgeInv
<1>5. ASSUME NEW e \in Edges, NEW n \in Nodes, NEW a \in Azimuths, NEW b \in Azimuths,
             NEW f \in NewEdgeIds(Edges), LinkModEdgeSplit(e, n, f, a, b)
      PROVE  LinkInv'
  BY <1>5, ModEdgeSplitInv
<1>6. ASSUME NEW e \in Edges, NEW n \in Nodes, NEW a \in Azimuths, NEW b \in Azimuths,
             NEW f \in NewEdgeIds(Edges), NEW g \in NewEdgeIds(Edges \cup {f}),
             LinkNewEdgesSplit(e, n, f, g, a, b)
      PROVE  LinkInv'
  BY <1>6, NewEdgesSplitInv
<1>7. ASSUME NEW e \in Edges, LinkRemEdge(e) PROVE LinkInv'
  BY <1>7, RemEdgeInv
<1>8. ASSUME NEW e1 \in Edges, NEW e2 \in Edges, NEW x \in {e1, -e1}, NEW y \in {e2, -e2},
             NEW k \in {e1} \cup NewEdgeIds(Edges),
             HealsAt(e1, e2, x, y), LinkHealEdges(x, y, k)
      PROVE  LinkInv'
  BY <1>8, HealEdgesInv
<1>9. ASSUME NEW e \in Edges, NEW a \in Azimuths, NEW b \in Azimuths,
             LinkChangeEdgeGeom(e, a, b)
      PROVE  LinkInv'
  BY <1>9, ChangeEdgeGeomInv
<1>10. ASSUME UNCHANGED linkVars PROVE LinkInv'
  BY <1>10 DEF linkVars, LinkInv
<1>11. CASE \E n \in Nodes : LinkAddIsoNode(n) \/ LinkRemoveIsoNode(n)
  BY <1>1, <1>2, <1>11
<1>12. CASE \E m, n \in Nodes, a, b \in Azimuths, f \in NewEdgeIds(Edges) :
              LinkAddIsoEdge(f, m, n, a, b) \/ LinkAddEdge(f, m, n, a, b)
  BY <1>3, <1>4, <1>12
<1>13. CASE \E e \in Edges, n \in Nodes, a, b \in Azimuths :
              \E f \in NewEdgeIds(Edges) :
                \/ LinkModEdgeSplit(e, n, f, a, b)
                \/ \E g \in NewEdgeIds(Edges \cup {f}) : LinkNewEdgesSplit(e, n, f, g, a, b)
  BY <1>5, <1>6, <1>13
<1>14. CASE \E e \in Edges : LinkRemEdge(e)
  BY <1>7, <1>14
<1>15. CASE \E e1, e2 \in Edges : \E x \in {e1, -e1}, y \in {e2, -e2} :
              \E k \in {e1} \cup NewEdgeIds(Edges) :
                HealsAt(e1, e2, x, y) /\ LinkHealEdges(x, y, k)
  BY <1>8, <1>15
<1>16. CASE \E e \in Edges, a, b \in Azimuths : LinkChangeEdgeGeom(e, a, b)
  BY <1>9, <1>16
<1> QED BY <1>10, <1>11, <1>12, <1>13, <1>14, <1>15, <1>16, Zenon DEF LinkNext

-----------------------------------------------------------------------------
(* Operations that undo others. *)

\* Origins and azimuths leave no choice of links that follow the plane.
LEMMA OneLinking ==
  ASSUME NEW ns, NEW ns2, NEW o, NEW z, NEW nx, NEW nx2,
         Good(ns, o, z, nx), Good(ns2, o, z, nx2)
  PROVE  nx = nx2
<1>1. /\ DOMAIN nx = DOMAIN o /\ DOMAIN nx2 = DOMAIN o /\ z \in [DOMAIN o -> Azimuths]
      /\ nx \in [DOMAIN nx -> DOMAIN nx] /\ nx2 \in [DOMAIN nx2 -> DOMAIN nx2]
  BY GoodFacts DEF Good, Typed
<1>2. ASSUME NEW d \in DOMAIN o  PROVE nx[d] = nx2[d]
  <2>1. /\ -d \in DOMAIN o /\ nx[d] \in DOMAIN o /\ nx2[d] \in DOMAIN o
        /\ Follows(o, z, d, nx[d]) /\ Follows(o, z, d, nx2[d])
    BY <1>1, GoodFacts
  <2> QED BY <1>1, <2>1, OneFirst
<1> QED BY <1>1, <1>2

\* What a step does that adds an edge but no node.
LEMMA Added ==
  ASSUME LinkInv, LinkNext, NEW e \in Edges' \ Edges, nodes' = nodes
  PROVE  /\ e \in NewEdgeIds(Edges)
         /\ \E m, n, a, b : org' = With(org, e, m, n) /\ az' = With(az, e, a, b)
<1>1. e \in DOMAIN next' /\ e > 0 /\ e \notin DOMAIN next
  BY DEF Edges, Darts
<1>2. ASSUME NEW m \in Nodes, NEW n \in Nodes, NEW a \in Azimuths, NEW b \in Azimuths,
             NEW f \in NewEdgeIds(Edges),
             LinkAddIsoEdge(f, m, n, a, b) \/ LinkAddEdge(f, m, n, a, b)
      PROVE  e = f /\ org' = With(org, f, m, n) /\ az' = With(az, f, a, b)
  <2>1. org' = With(org, f, m, n) /\ az' = With(az, f, a, b)
    BY <1>2 DEF LinkAddIsoEdge, LinkAddEdge
  <2>2. DOMAIN next' = DOMAIN next \cup {f, -f}
    <3>1. CASE LinkAddIsoEdge(f, m, n, a, b)
      BY <3>1 DEF LinkAddIsoEdge, With
    <3>2. CASE LinkAddEdge(f, m, n, a, b)
      BY <3>2 DEF LinkAddEdge, AddLinks, With, Darts
    <3> QED BY <1>2, <3>1, <3>2
  <2>3. f \in Int /\ f > 0 /\ ~(-f > 0)
    BY LinksAssumption DEF NewEdgeIds, EdgeIds
  <2> QED BY <1>1, <2>1, <2>2, <2>3
<1>3. ASSUME NEW n \in Nodes, LinkAddIsoNode(n) \/ LinkRemoveIsoNode(n)  PROVE FALSE
  BY <1>1, <1>3 DEF LinkAddIsoNode, LinkRemoveIsoNode
<1>4. ASSUME NEW d \in Edges, NEW n \in Nodes, NEW a, NEW b, NEW f, NEW g,
             LinkModEdgeSplit(d, n, f, a, b) \/ LinkNewEdgesSplit(d, n, f, g, a, b)
      PROVE  FALSE
  BY <1>4 DEF LinkModEdgeSplit, LinkNewEdgesSplit
<1>5. ASSUME NEW d \in Edges, LinkRemEdge(d)  PROVE FALSE
  BY <1>1, <1>5 DEF LinkRemEdge, RemLinks
<1>6. ASSUME NEW e1 \in Edges, NEW x \in {e1, -e1}, NEW y, NEW k, LinkHealEdges(x, y, k)
      PROVE  FALSE
  <2>1. -x \in Darts /\ org[-x] \in nodes
    BY InvFacts DEF Edges
  <2> QED BY <1>6, <2>1 DEF LinkHealEdges
<1>7. ASSUME NEW d, NEW a, NEW b, LinkChangeEdgeGeom(d, a, b)  PROVE FALSE
  BY <1>1, <1>7 DEF LinkChangeEdgeGeom
<1>8. \E m, n \in Nodes, a, b \in Azimuths, f \in NewEdgeIds(Edges) :
        LinkAddIsoEdge(f, m, n, a, b) \/ LinkAddEdge(f, m, n, a, b)
  BY <1>3, <1>4, <1>5, <1>6, <1>7, Zenon DEF LinkNext
<1> QED BY <1>2, <1>8

\* Removing it again.
LEMMA RemovalStep ==
  ASSUME LinkInv, LinkInv', LinkNext, NEW e \in Edges' \ Edges, nodes' = nodes
  PROVE  RemLinks(org', next', e) = next
<1>1. PICK m, n, a, b : org' = With(org, e, m, n) /\ az' = With(az, e, a, b)
  BY Added
<1>2. /\ e \notin Darts /\ -e \notin Darts /\ e \in DOMAIN next'
      /\ DOMAIN org = Darts /\ DOMAIN az = Darts
  BY Added, Fresh, InvFacts DEF Edges, Darts
<1>3. Without(org', e) = org /\ Without(az', e) = az
  <2>1. ASSUME NEW f, DOMAIN f = Darts, f = [d \in DOMAIN f |-> f[d]], NEW u, NEW v
        PROVE  Without(With(f, e, u, v), e) = f
    <3>1. (Darts \cup {e, -e}) \ {e, -e} = Darts
      BY <1>2
    <3> QED BY <1>2, <2>1, <3>1 DEF With, Without
  <2>2. org = [d \in DOMAIN org |-> org[d]] /\ az = [d \in DOMAIN az |-> az[d]]
    BY DEF LinkInv, Good, Typed
  <2> QED BY <1>1, <1>2, <2>1, <2>2
<1>4. Good(nodes', org, az, RemLinks(org', next', e))
  BY <1>2, <1>3, RemovedGood DEF LinkInv
<1> QED BY <1>4, OneLinking DEF LinkInv

\* What a step does that adds an edge f where edge e now ends, at a new node n.
LEMMA SplitOff ==
  ASSUME LinkInv, LinkNext, NEW e \in Edges, NEW f \in Edges' \ Edges,
         NEW n \in nodes' \ nodes, Edges \subseteq Edges', org'[-e] = n
  PROVE  /\ f \in NewEdgeIds(Edges)
         /\ \E a, b : LinkModEdgeSplit(e, n, f, a, b)
<1>1. /\ f \in DOMAIN next' /\ f > 0 /\ f \notin DOMAIN next
      /\ DOMAIN org = Darts /\ DOMAIN next = Darts
      /\ \A d \in Edges : /\ d \in Int /\ d > 0 /\ ~(-d > 0) /\ -(-d) = d
                          /\ d \in Darts /\ -d \in Darts /\ org[-d] \in nodes
  BY InvFacts DEF Edges, Darts
<1>2. ASSUME NEW e0 \in Edges, NEW n0 \in Nodes, NEW a, NEW b,
             NEW f0 \in NewEdgeIds(Edges), LinkModEdgeSplit(e0, n0, f0, a, b)
      PROVE  e = e0 /\ n = n0 /\ f = f0
  <2>1. /\ f0 \in Int /\ f0 > 0 /\ ~(-f0 > 0) /\ f0 \notin Darts /\ -f0 \notin Darts
    BY Fresh, LinksAssumption DEF NewEdgeIds, EdgeIds
  <2>2. n = n0
    BY <1>2 DEF LinkModEdgeSplit
  <2>3. DOMAIN next' = Darts \cup {f0, -f0}
    BY <1>2 DEF LinkModEdgeSplit, SplitLinks, With
  <2>4. f = f0
    BY <1>1, <2>1, <2>3
  <2>5. e = e0
    <3> SUFFICES ASSUME -e # -e0  PROVE FALSE
      BY <1>1
    <3> DEFINE o == [org EXCEPT ![-e0] = n0]
    <3>1. org' = With(o, f0, n0, org[-e0]) /\ DOMAIN o = Darts /\ o[-e] = org[-e]
      BY <1>1, <1>2 DEF LinkModEdgeSplit
    <3>2. -e \in Darts /\ -e # f0 /\ -e # -f0
      BY <1>1, <2>1
    <3> HIDE DEF o
    <3>3. org'[-e] = org[-e]
      BY <3>1, <3>2 DEF With
    <3> QED BY <1>1, <3>3
  <2> QED BY <2>2, <2>4, <2>5
<1>3. ASSUME NEW e0 \in Edges, NEW n0 \in Nodes, NEW a, NEW b, NEW f0 \in NewEdgeIds(Edges),
             NEW g0 \in NewEdgeIds(Edges \cup {f0}), LinkNewEdgesSplit(e0, n0, f0, g0, a, b)
      PROVE  FALSE
  <2>1. /\ f0 \in Int /\ f0 > 0 /\ ~(-f0 > 0) /\ f0 \notin Edges
        /\ g0 \in Int /\ g0 > 0 /\ ~(-g0 > 0) /\ g0 \notin Edges
    BY LinksAssumption DEF NewEdgeIds, EdgeIds
  <2>2. DOMAIN next' = ((Darts \ {e0, -e0}) \cup {f0, -f0}) \cup {g0, -g0}
    BY <1>3 DEF LinkNewEdgesSplit, NewSplitLinks, With
  <2>3. e0 \in DOMAIN next'
    BY DEF Edges, Darts
  <2>4. e0 # f0 /\ e0 # g0 /\ e0 # -f0 /\ e0 # -g0
    BY <1>1, <2>1
  <2> QED BY <2>2, <2>3, <2>4
<1>4. ASSUME NEW n0 \in Nodes, LinkAddIsoNode(n0) \/ LinkRemoveIsoNode(n0)  PROVE FALSE
  BY <1>1, <1>4 DEF LinkAddIsoNode, LinkRemoveIsoNode
<1>5. ASSUME NEW f0, NEW m, NEW k, NEW a, NEW b,
             LinkAddIsoEdge(f0, m, k, a, b) \/ LinkAddEdge(f0, m, k, a, b)
      PROVE  FALSE
  BY <1>5 DEF LinkAddIsoEdge, LinkAddEdge
<1>6. ASSUME NEW d, LinkRemEdge(d)  PROVE FALSE
  BY <1>6 DEF LinkRemEdge
<1>7. ASSUME NEW x, NEW y, NEW k, LinkHealEdges(x, y, k)  PROVE FALSE
  BY <1>7 DEF LinkHealEdges
<1>8. ASSUME NEW d, NEW a, NEW b, LinkChangeEdgeGeom(d, a, b)  PROVE FALSE
  BY <1>8 DEF LinkChangeEdgeGeom
<1>9. \E e0 \in Edges, n0 \in Nodes, a, b \in Azimuths : \E f0 \in NewEdgeIds(Edges) :
        LinkModEdgeSplit(e0, n0, f0, a, b)
  BY <1>3, <1>4, <1>5, <1>6, <1>7, <1>8, Zenon DEF LinkNext
<1> QED BY <1>2, <1>9

\* Something of each dart after the split: u where e now ends, v where f begins.
Halved(h, e, f, u, v) == With([h EXCEPT ![-e] = u], f, v, h[-e])

LEMMA HealedHalves ==
  ASSUME NEW D, NEW S, NEW h \in [D -> S], NEW u, NEW v,
         NEW e \in D, e > 0, -e \in D, -(-e) = e, e # -e,
         NEW f, f \notin D, -f \notin D, -(-f) = f, f # -f
  PROVE  /\ Halved(h, e, f, u, v)[-e] = u
         /\ Halved(h, e, f, u, v)[f] = v
         /\ Halved(h, e, f, u, v)[-f] = h[-e]
         /\ \A d \in D : d # -e => Halved(h, e, f, u, v)[d] = h[d]
         /\ Healed(Halved(h, e, f, u, v), e, -f, e) = h
<1> DEFINE hh == [h EXCEPT ![-e] = u]
           h2 == Halved(h, e, f, u, v)
           back == [d \in D |-> IF d = e THEN h2[e] ELSE IF d = -e THEN h2[-f] ELSE h2[d]]
<1>1. DOMAIN hh = D /\ hh[-e] = u /\ \A d \in D : d # -e => hh[d] = h[d]
  OBVIOUS
<1>2. h2 = With(hh, f, v, h[-e])
  BY DEF Halved
<1> HIDE DEF hh, h2
<1>3. h2 = [d \in D \cup {f, -f} |-> IF d = f THEN v ELSE IF d = -f THEN h[-e] ELSE hh[d]]
  BY <1>1, <1>2 DEF With
<1>4. /\ DOMAIN h2 = D \cup {f, -f} /\ h2[-e] = u /\ h2[f] = v /\ h2[-f] = h[-e]
      /\ \A d \in D : d # -e => h2[d] = h[d]
  BY <1>1, <1>3
<1>5. ((D \cup {f, -f}) \ {e, -e, -f, -(-f)}) \cup {e, -e} = D
  OBVIOUS
<1>6. Healed(h2, e, -f, e) = back
  BY <1>4, <1>5 DEF Healed
<1>7. \A d \in D : back[d] = h[d]
  BY <1>4
<1>8. back = h
  <2>1. h = [d \in D |-> h[d]]
    OBVIOUS
  <2> QED BY <1>7, <2>1
<1> HIDE DEF back
<1> QED BY <1>4, <1>6, <1>8 DEF h2

\* Healing the two halves again.
LEMMA HealingStep ==
  ASSUME LinkInv, LinkInv', LinkNext, NEW e \in Edges, NEW f \in Edges' \ Edges,
         NEW n \in nodes' \ nodes, Edges \subseteq Edges', org'[-e] = n
  PROVE  HealLinks(next', e, -f, e) = next
<1> DEFINE D == Darts \cup {f, -f}
<1>1. PICK a, b : LinkModEdgeSplit(e, n, f, a, b)
  BY SplitOff
<1>2. /\ f \in Int /\ f > 0 /\ f # -f /\ -(-f) = f /\ f \notin Darts /\ -f \notin Darts
      /\ e \in Int /\ e > 0 /\ e # -e /\ -(-e) = e /\ e \in Darts /\ -e \in Darts
      /\ e # f /\ e # -f /\ -e # f /\ -e # -f
      /\ e \in EdgeIds
      /\ DOMAIN org = Darts /\ DOMAIN az = Darts
      /\ \A d \in Darts : org[d] \in nodes
  <2>1. f \in NewEdgeIds(Edges)
    BY SplitOff
  <2>2. e \in EdgeIds /\ e \in Darts /\ -e \in Darts
    BY InvFacts, LinksAssumption DEF Edges, Paired, EdgeIds
  <2>3. f \in EdgeIds /\ f \notin Darts /\ -f \notin Darts
    BY <2>1, Fresh
  <2> QED BY <2>2, <2>3, InvFacts, LinksAssumption DEF EdgeIds
<1>3. /\ DOMAIN next' = D /\ DOMAIN org' = D /\ DOMAIN az' = D
      /\ org' = With([org EXCEPT ![-e] = n], f, n, org[-e])
      /\ az' = With([az EXCEPT ![-e] = a], f, b, az[-e])
  BY <1>1, <1>2 DEF LinkModEdgeSplit, SplitLinks, With
<1>5. /\ org'[-e] = n /\ org'[f] = n /\ org'[-f] = org[-e]
      /\ \A d \in Darts : d # -e => org'[d] = org[d]
      /\ Healed(org', e, -f, e) = org /\ Healed(az', e, -f, e) = az
  <2>1. org \in [Darts -> nodes] /\ az \in [Darts -> Azimuths]
    BY DEF LinkInv, Good, Typed, Darts
  <2>2. org' = Halved(org, e, f, n, n) /\ az' = Halved(az, e, f, a, b)
    BY <1>3 DEF Halved
  <2> HIDE DEF D
  <2>3. ASSUME NEW S, NEW h \in [Darts -> S], NEW u, NEW v
        PROVE  /\ Halved(h, e, f, u, v)[-e] = u /\ Halved(h, e, f, u, v)[f] = v
               /\ Halved(h, e, f, u, v)[-f] = h[-e]
               /\ \A d \in Darts : d # -e => Halved(h, e, f, u, v)[d] = h[d]
               /\ Healed(Halved(h, e, f, u, v), e, -f, e) = h
    <3>1. /\ e \in Darts /\ e > 0 /\ -e \in Darts /\ -(-e) = e /\ e # -e
          /\ f \notin Darts /\ -f \notin Darts /\ -(-f) = f /\ f # -f
      BY <1>2
    <3> QED BY ONLY <2>3, <3>1, HealedHalves
  <2>4. Healed(az', e, -f, e) = az
    BY <2>1, <2>2, <2>3
  <2>5. /\ org'[-e] = n /\ org'[f] = n /\ org'[-f] = org[-e]
        /\ \A d \in Darts : d # -e => org'[d] = org[d]
        /\ Healed(org', e, -f, e) = org
    BY <2>1, <2>2, <2>3
  <2> QED BY <2>4, <2>5
<1>6. {d \in DOMAIN next' : org'[d] = org'[-e]} = {-e, -(-f)}
  BY <1>2, <1>3, <1>5
<1>7. Good(nodes' \ {org'[-e]}, org, az, HealLinks(next', e, -f, e))
  <2>1. org'[e] # org'[-e] /\ org'[-f] # org'[-(-f)]
    BY <1>2, <1>5
  <2>2. e \in DOMAIN next' /\ -f \in DOMAIN next' /\ (IF e > 0 THEN e ELSE -e) = e
        /\ e # -f /\ e # -(-f)
    BY <1>2, <1>3
  <2> QED BY <1>2, <1>5, <1>6, <2>1, <2>2, HealedGood DEF LinkInv
<1> QED BY <1>7, OneLinking DEF LinkInv

-----------------------------------------------------------------------------
\* The invariant says what the runs check.
LEMMA InvTypes ==
  ASSUME LinkInv
  PROVE  LinkTypeOK
<1>1. Darts = Edges \cup {-e : e \in Edges}
  <2>1. \A d \in EdgeIds : d \in Int /\ d > 0 /\ -(-d) = d
    BY LinksAssumption DEF EdgeIds
  <2>2. ASSUME NEW d \in Darts PROVE d \in Edges \/ \E e \in Edges : d = -e
    <3>1. CASE d \in EdgeIds
      BY <2>1, <3>1 DEF Edges
    <3>2. CASE -d \in EdgeIds
      <4>1. -d \in Edges /\ d = -(-d)
        BY <2>1, <3>2, InvFacts DEF Edges
      <4> QED BY <4>1
    <3> QED BY <3>1, <3>2, InvFacts DEF Paired
  <2>3. \A e \in Edges : e \in Darts /\ -e \in Darts
    BY InvFacts DEF Edges
  <2> QED BY <2>2, <2>3
<1>2. Edges \in SUBSET EdgeIds
  BY InvFacts, LinksAssumption DEF Edges, Paired, EdgeIds
<1> QED BY <1>1, <1>2 DEF LinkTypeOK, LinkInv, Good, Typed, Darts

\* The first dart clockwise is the one that Rotation asks for.
LEMMA InvRotation ==
  ASSUME LinkInv
  PROVE  Rotation
<1> SUFFICES ASSUME NEW d \in Darts
             PROVE  /\ org[next[d]] = org[-d]
                    /\ \A x \in Out(org[-d]) \ {next[d]} : Turn(-d, next[d]) < Turn(-d, x)
  BY DEF Rotation
<1>1. DOMAIN org = Darts /\ Follows(org, az, d, next[d])
  BY InvFacts
<1>2. \A x, y \in Darts : Turn(x, y) = turn(az[x], az[y])
  BY DEF Turn, turn
<1>3. -d \in Darts /\ next[d] \in Darts
  BY InvFacts
<1> QED BY <1>1, <1>2, <1>3 DEF Follows, Out

\* Whatever functions are called, with any number of nodes, edges and directions:
\* edges refer to existing nodes and edges, and darts come in pairs.
THEOREM LinksTyped ==
  ASSUME AnySplit = FALSE
  PROVE  LinkSpec => []LinkTypeOK
<1>1. LinkInit => LinkInv
  BY StartInv
<1>2. LinkInv /\ [LinkNext]_linkVars => LinkInv'
  BY StepInv, Zenon
<1>3. LinkInv => LinkTypeOK
  BY InvTypes
<1> QED BY <1>1, <1>2, <1>3, PTL DEF LinkSpec

\* next_left and next_right name the first edge end met clockwise around the
\* node where the edge arrives, after any sequence of calls.
THEOREM LinksFollowPlane ==
  ASSUME AnySplit = FALSE
  PROVE  LinkSpec => []Rotation
<1>1. LinkInit => LinkInv
  BY StartInv
<1>2. LinkInv /\ [LinkNext]_linkVars => LinkInv'
  BY StepInv, Zenon
<1>3. LinkInv => Rotation
  BY InvRotation
<1> QED BY <1>1, <1>2, <1>3, PTL DEF LinkSpec

\* Removing an edge that any call has just added brings back the links that
\* were there before, in any topology.
THEOREM RemovalAlwaysUndoesAdd ==
  ASSUME AnySplit = FALSE
  PROVE  LinkSpec => RemovalUndoesAdd
<1> DEFINE Undone == \A e \in Edges' \ Edges :
                       nodes' = nodes => (Edges \ Edges' = {} => RemLinks(org', next', e) = next)
<1>1. LinkInit => LinkInv
  BY StartInv
<1>2. LinkInv /\ [LinkNext]_linkVars => LinkInv'
  BY StepInv, Zenon
<1>3. LinkInv /\ [LinkNext]_linkVars => [Undone]_linkVars
  <2>1. LinkInv /\ LinkNext => Undone
    BY <1>2, RemovalStep
  <2> QED BY <2>1
<1> QED BY <1>1, <1>2, <1>3, PTL DEF LinkSpec, RemovalUndoesAdd

\* And so does healing an edge with the half that ST_ModEdgeSplit has just made
\* of it.
THEOREM HealAlwaysUndoesSplit ==
  ASSUME AnySplit = FALSE
  PROVE  LinkSpec => HealUndoesSplit
<1> DEFINE Undone == \A e \in Edges, f \in Edges' \ Edges, n \in nodes' \ nodes :
                       Edges \subseteq Edges' /\ org'[-e] = n /\ org'[f] = n
                         => HealLinks(next', e, -f, e) = next
<1>1. LinkInit => LinkInv
  BY StartInv
<1>2. LinkInv /\ [LinkNext]_linkVars => LinkInv'
  BY StepInv, Zenon
<1>3. LinkInv /\ [LinkNext]_linkVars => [Undone]_linkVars
  <2>1. LinkInv /\ LinkNext => Undone
    BY <1>2, HealingStep
  <2> QED BY <2>1
<1> QED BY <1>1, <1>2, <1>3, PTL DEF LinkSpec, HealUndoesSplit
=============================================================================
