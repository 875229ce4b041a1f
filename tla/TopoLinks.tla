------------------------------ MODULE TopoLinks ------------------------------
(***************************************************************************)
(* The edge linking of a topology: the start_node, end_node, next_left and *)
(* next_right columns of edge_data and what each editing function of       *)
(* liblwgeom/lwgeom_topo.c does to them.                                   *)
(*                                                                         *)
(* Edge e has two darts: e runs from its start node to its end node, -e    *)
(* back.  With org[d] the node a dart leaves, start_node is org[e] and     *)
(* end_node is org[-e]; next_left is next[e] and next_right is next[-e],   *)
(* the dart that follows d when one walks with the left side of d at hand. *)
(* Of the geometry only the azimuth az[d] is kept at which d leaves its    *)
(* node, one of Directions directions counted clockwise from north.        *)
(***************************************************************************)
EXTENDS Integers, FiniteSets

CONSTANTS
  Nodes,       \* node identifiers
  MaxEdge,     \* bound: edge identifiers in use at one time
  Directions,  \* number of azimuths
  AnySplit     \* FALSE: ST_NewEdgesSplit is only called on edges that start
               \* no other edge at one of their nodes

ASSUME LinksAssumption ==
  /\ MaxEdge \in Nat
  /\ Directions \in Nat \ {0}
  /\ AnySplit \in BOOLEAN

Azimuths == 0 .. Directions - 1
EdgeIds  == 1 .. MaxEdge

VARIABLES
  nodes,  \* existing nodes
  org,    \* org[d]: node that dart d leaves
  az,     \* az[d]: azimuth at which it leaves
  next    \* next[d]: dart that follows d on its left

linkVars == <<nodes, org, az, next>>

Darts == DOMAIN next
Edges == {d \in Darts : d > 0}
Out(n) == {d \in Darts : org[d] = n}

\* The sequence of the identifiers: the lowest unused one.  The program never
\* uses one twice; nothing compares an identifier with one that is gone.
NewEdgeIds(used) ==
  {e \in EdgeIds : e \notin used /\ \A i \in EdgeIds : i < e => i \in used}

\* A function of darts with those of edge e added, or removed.
With(f, e, x, y) ==
  [d \in DOMAIN f \cup {e, -e} |-> IF d = e THEN x ELSE IF d = -e THEN y ELSE f[d]]

Without(f, e) == [d \in DOMAIN f \ {e, -e} |-> f[d]]

-----------------------------------------------------------------------------
(* Neighbours around a node. *)

\* Clockwise angle from azimuth a to azimuth b.
azdif(a, b) == IF b < a THEN b - a + Directions ELSE b - a

\* The first of the darts, with azimuths z, met clockwise and counterclockwise
\* from azimuth a.
nextCW(darts, z, a) ==
  CHOOSE x \in darts : \A y \in darts : azdif(a, z[x]) <= azdif(a, z[y])

nextCCW(darts, z, a) ==
  CHOOSE x \in darts : \A y \in darts : azdif(a, z[y]) <= azdif(a, z[x])

\* No edge leaves n at azimuth a: the two would overlap near the node.
Free(n, a, but) == \A d \in Out(n) \ but : az[d] # a

-----------------------------------------------------------------------------
(* Links after each operation. *)

\* mutant: the edge before the new one on its right is not relinked
AddLinksLeftOnly(e, m, n, z) ==
  LET start == Out(m) \cup (IF m = n THEN {-e} ELSE {})
      end   == Out(n) \cup (IF m = n THEN {e} ELSE {})
      right == IF start = {} THEN e  ELSE nextCW(start, z, z[e])
      left  == IF end = {}   THEN -e ELSE nextCW(end, z, z[-e])
      prevL == IF start = {} THEN -e ELSE -nextCCW(start, z, z[e])
  IN  With([d \in Darts |-> IF d = prevL THEN e ELSE next[d]], e, left, right)

\* The new edge e from m to n; z holds the azimuths of its darts as well.  The
\* other end of a closed edge counts among the darts around the node.
AddLinks(e, m, n, z) ==
  LET start == Out(m) \cup (IF m = n THEN {-e} ELSE {})
      end   == Out(n) \cup (IF m = n THEN {e} ELSE {})
      right == IF start = {} THEN e  ELSE nextCW(start, z, z[e])
      left  == IF end = {}   THEN -e ELSE nextCW(end, z, z[-e])
      prevL == IF start = {} THEN -e ELSE -nextCCW(start, z, z[e])
      prevR == IF end = {}   THEN e  ELSE -nextCCW(end, z, z[-e])
  IN  With([d \in Darts |-> IF d = prevR THEN -e
                            ELSE IF d = prevL THEN e ELSE next[d]], e, left, right)

\* Edge e keeps its first half, f is the second.
SplitLinks(e, f) ==
  With([d \in Darts |-> IF d = e THEN f
                        ELSE IF next[d] = -e /\ org[-d] = org[-e] THEN -f
                        ELSE next[d]],
       f, IF next[e] = -e THEN -f ELSE next[e], -e)

\* mutant: references to the old edge are only looked up where it starts
NewSplitLinksOneEnd(e, f, g) ==
  LET refs ==
        [d \in Darts \ {e, -e} |->
           IF next[d] = e /\ org[-d] = org[e] THEN IF d < 0 THEN g ELSE f
           ELSE next[d]]
      right == IF next[-e] = e THEN f ELSE IF next[-e] = -e THEN -g ELSE next[-e]
      left  == IF next[e] = -e THEN -g ELSE IF next[e] = e THEN f ELSE next[e]
  IN  With(With(refs, f, g, right), g, left, -f)

\* Edges f and g replace e; references to e are looked up by the node they are
\* made at, in next_right (d < 0) and in next_left (d > 0).
NewSplitLinks(e, f, g) ==
  LET refs ==
        [d \in Darts \ {e, -e} |->
           IF next[d] = e /\ org[-d] = org[e]
           THEN IF d < 0 THEN g ELSE f
           ELSE IF next[d] = -e /\ org[-d] = org[-e]
           THEN IF d < 0 THEN -f ELSE -g
           ELSE next[d]]
      right == IF next[-e] = e THEN f ELSE IF next[-e] = -e THEN -g ELSE next[-e]
      left  == IF next[e] = -e THEN -g ELSE IF next[e] = e THEN f ELSE next[e]
  IN  With(With(refs, f, g, right), g, left, -f)

\* mutant: what follows a loop is the loop itself
RemLinksLoop(o, nx, e) ==
  [d \in DOMAIN nx \ {e, -e} |->
     IF {o[d], o[-d]} \cap {o[e], o[-e]} = {} THEN nx[d]
     ELSE IF nx[d] = -e THEN nx[e]
     ELSE IF nx[d] = e THEN nx[-e]
     ELSE nx[d]]

\* Edge e is gone from origins o and links nx.
RemLinks(o, nx, e) ==
  [d \in DOMAIN nx \ {e, -e} |->
     IF {o[d], o[-d]} \cap {o[e], o[-e]} = {} THEN nx[d]
     ELSE IF nx[d] = -e THEN IF nx[e] # e THEN nx[e] ELSE nx[-e]
     ELSE IF nx[d] = e THEN IF nx[-e] # -e THEN nx[-e] ELSE nx[e]
     ELSE nx[d]]

\* mutant: a dead end of the second edge is left pointing at it
HealLinksDeadEnd(nx, x, y, k) ==
  LET kd == IF x > 0 THEN k ELSE -k
      ref(t) == IF t = y THEN -kd ELSE IF t = x THEN kd ELSE t
  IN  [d \in (DOMAIN nx \ {x, -x, y, -y}) \cup {kd, -kd} |->
         IF d = kd THEN IF nx[-y] = y THEN kd ELSE ref(nx[-y])
         ELSE IF d = -kd THEN ref(nx[-x]) ELSE ref(nx[d])]

\* Darts x and y end at the healed node; edge k, in the direction of the edge
\* of x, takes the place of both.
HealLinks(nx, x, y, k) ==
  LET kd == IF x > 0 THEN k ELSE -k
      ref(t) == IF t = y THEN -kd ELSE IF t = x THEN kd ELSE t
  IN  [d \in (DOMAIN nx \ {x, -x, y, -y}) \cup {kd, -kd} |->
         IF d = kd THEN ref(nx[-y])
         ELSE IF d = -kd THEN ref(nx[-x]) ELSE ref(nx[d])]

-----------------------------------------------------------------------------
(* Operations. *)

LinkInit ==
  /\ nodes = {}
  /\ org = [d \in {} |-> 0]
  /\ az = [d \in {} |-> 0]
  /\ next = [d \in {} |-> 0]

LinkAddIsoNode(n) ==
  /\ n \in Nodes \ nodes
  /\ nodes' = nodes \cup {n}
  /\ UNCHANGED <<org, az, next>>

LinkRemoveIsoNode(n) ==
  /\ n \in nodes
  /\ Out(n) = {}
  /\ nodes' = nodes \ {n}
  /\ UNCHANGED <<org, az, next>>

LinkAddIsoEdge(e, m, n, a, b) ==
  /\ m \in nodes /\ n \in nodes /\ m # n
  /\ org' = With(org, e, m, n)
  /\ Out(m) = {} /\ Out(n) = {}
  /\ az' = With(az, e, a, b)
  /\ next' = With(next, e, -e, e)
  /\ UNCHANGED nodes

LinkAddEdge(e, m, n, a, b) ==
  /\ m \in nodes /\ n \in nodes
  /\ org' = With(org, e, m, n)
  /\ az' = With(az, e, a, b)
  /\ Free(m, a, {}) /\ Free(n, b, {})
  /\ m = n => a # b
  /\ next' = AddLinks(e, m, n, With(az, e, a, b))
  /\ UNCHANGED nodes

\* Node n splits edge e: e arrives there against azimuth a, f leaves at b.
LinkModEdgeSplit(e, n, f, a, b) ==
  /\ n \in Nodes \ nodes
  /\ a # b
  /\ nodes' = nodes \cup {n}
  /\ org' = With([org EXCEPT ![-e] = n], f, n, org[-e])
  /\ az' = With([az EXCEPT ![-e] = a], f, b, az[-e])
  /\ next' = SplitLinks(e, f)

LinkNewEdgesSplit(e, n, f, g, a, b) ==
  /\ n \in Nodes \ nodes
  /\ a # b
  /\ AnySplit \/ \A d \in Edges \ {e} : org[d] # org[e] /\ org[d] # org[-e]
  /\ nodes' = nodes \cup {n}
  /\ org' = With(With(Without(org, e), f, org[e], n), g, n, org[-e])
  /\ az' = With(With(Without(az, e), f, az[e], a), g, b, az[-e])
  /\ next' = NewSplitLinks(e, f, g)

LinkRemEdge(e) ==
  /\ org' = Without(org, e)
  /\ az' = Without(az, e)
  /\ next' = RemLinks(org, next, e)
  /\ UNCHANGED nodes

\* Darts x and y of two open edges end at the same node and no other edge does.
Healable(x, y) ==
  /\ x # y /\ x # -y
  /\ org[x] # org[-x] /\ org[y] # org[-y]
  /\ Out(org[-x]) = {-x, -y}

\* The end node of the first edge is tried before its start node.
HealsAt(e1, e2, x, y) ==
  /\ Healable(x, y)
  /\ \/ x = e1
     \/ x = -e1 /\ \A z \in {e2, -e2} : ~Healable(e1, z)
  /\ y \in {e2, -e2}

LinkHealEdges(x, y, k) ==
  LET kd == IF x > 0 THEN k ELSE -k
      heal(f) == [d \in (DOMAIN f \ {x, -x, y, -y}) \cup {kd, -kd} |->
                    IF d = kd THEN f[x] ELSE IF d = -kd THEN f[y] ELSE f[d]]
  IN  /\ nodes' = nodes \ {org[-x]}
      /\ org' = heal(org)
      /\ az' = heal(az)
      /\ next' = HealLinks(next, x, y, k)

\* Around node n, the neighbours of dart d do not change with the azimuths z.
SameNeighbours(d, z) ==
  LET others == (Out(org[d]) \ {d})
  IN  others # {} =>
        /\ nextCW(others, z, z[d]) = nextCW(others, az, az[d])
        /\ nextCCW(others, z, z[d]) = nextCCW(others, az, az[d])

LinkChangeEdgeGeom(e, a, b) ==
  LET z == [az EXCEPT ![e] = a, ![-e] = b]
  IN  /\ UNCHANGED <<nodes, org, next>>
      /\ az' = z
      /\ Free(org[e], a, {e, -e}) /\ Free(org[-e], b, {e, -e})
      /\ org[e] = org[-e] => a # b
      /\ SameNeighbours(e, z) /\ SameNeighbours(-e, z)

LinkNext ==
  \/ \E n \in Nodes : LinkAddIsoNode(n) \/ LinkRemoveIsoNode(n)
  \/ \E m, n \in Nodes, a, b \in Azimuths, f \in NewEdgeIds(Edges) :
       LinkAddIsoEdge(f, m, n, a, b) \/ LinkAddEdge(f, m, n, a, b)
  \/ \E e \in Edges, n \in Nodes, a, b \in Azimuths :
       \E f \in NewEdgeIds(Edges) :
         \/ LinkModEdgeSplit(e, n, f, a, b)
         \/ \E g \in NewEdgeIds(Edges \cup {f}) : LinkNewEdgesSplit(e, n, f, g, a, b)
  \/ \E e \in Edges : LinkRemEdge(e)
  \/ \E e1, e2 \in Edges : \E x \in {e1, -e1}, y \in {e2, -e2} :
       \E k \in {e1} \cup NewEdgeIds(Edges) :
         HealsAt(e1, e2, x, y) /\ LinkHealEdges(x, y, k)
  \/ \E e \in Edges, a, b \in Azimuths : LinkChangeEdgeGeom(e, a, b)

LinkSpec == LinkInit /\ [][LinkNext]_linkVars

-----------------------------------------------------------------------------
\* Every dart leaves an existing node, in some direction, and has a successor.
LinkTypeOK ==
  /\ nodes \in SUBSET Nodes
  /\ Darts = Edges \cup {-e : e \in Edges}
  /\ Edges \in SUBSET EdgeIds
  /\ org \in [Darts -> nodes]
  /\ az \in [Darts -> Azimuths]
  /\ next \in [Darts -> Darts]

\* Clockwise angle from one dart of a node to another, a full turn to itself.
Turn(x, y) == IF az[y] <= az[x] THEN az[y] - az[x] + Directions ELSE az[y] - az[x]

\* Links follow the plane: the successor of a dart leaves the node where the
\* dart arrives, and is the first edge end met clockwise from it there.
Rotation ==
  \A d \in Darts :
    /\ org[next[d]] = org[-d]
    /\ \A x \in Out(org[-d]) \ {next[d]} : Turn(-d, next[d]) < Turn(-d, x)

\* Removing an edge that was just added leaves the links as they were.
RemovalUndoesAdd ==
  [][\A e \in Edges' \ Edges :
       nodes' = nodes => (Edges \ Edges' = {} => RemLinks(org', next', e) = next)]_linkVars

\* Healing an edge with the half that was just split from it leaves the links
\* as they were.
HealUndoesSplit ==
  [][\A e \in Edges, f \in Edges' \ Edges, n \in nodes' \ nodes :
       Edges \subseteq Edges' /\ org'[-e] = n /\ org'[f] = n
         => HealLinks(next', e, -f, e) = next]_linkVars
=============================================================================
