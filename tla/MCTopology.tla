----------------------------- MODULE MCTopology -----------------------------
(* Model-checking instances of Topology.  Lines are given vertex by vertex. *)
EXTENDS Polygonize, TLC

NodeSymmetry == Permutations(Nodes)

-----------------------------------------------------------------------------
(* Two cells side by side: chains, rings of one to three edges, edges that   *)
(* share a wall, dangling edges.                                             *)

PairSites == {<<0, 0>>, <<1, 0>>, <<1, 1>>}

PairLines == {
  << <<0, 0>>, <<1, 0>> >>,
  << <<1, 0>>, <<1, 1>> >>,
  << <<0, 0>>, <<1, 0>>, <<1, 1>> >>,
  << <<1, 1>>, <<0, 1>>, <<0, 0>> >>,
  << <<1, 0>>, <<2, 0>>, <<2, 1>>, <<1, 1>> >>,
  << <<1, 0>>, <<2, 0>>, <<2, 1>>, <<1, 1>>, <<1, 0>> >>,
  << <<1, 0>>, <<1, 1>>, <<2, 1>>, <<2, 0>>, <<1, 0>> >>,
  << <<0, 0>>, <<1, 0>>, <<2, 0>>, <<2, 1>>, <<1, 1>>, <<0, 1>>, <<0, 0>> >>}

\* The same cells with at most three edges: two rings that share a wall.
WallLines == {
  << <<1, 0>>, <<1, 1>> >>,
  << <<1, 0>>, <<2, 0>>, <<2, 1>>, <<1, 1>> >>,
  << <<1, 1>>, <<0, 1>>, <<0, 0>>, <<1, 0>> >>,
  << <<1, 0>>, <<1, 1>>, <<2, 1>>, <<2, 0>>, <<1, 0>> >>}

-----------------------------------------------------------------------------
(* A square of five by five cells: rings within rings in both directions, a  *)
(* bridge between the first two, a node, an edge or a third ring within.     *)

HoleSites == {<<2, 0>>, <<2, 1>>, <<2, 2>>}

OuterRing == << <<2, 0>>, <<3, 0>>, <<4, 0>>, <<5, 0>>, <<5, 1>>, <<5, 2>>, <<5, 3>>,
                <<5, 4>>, <<5, 5>>, <<4, 5>>, <<3, 5>>, <<2, 5>>, <<1, 5>>, <<0, 5>>,
                <<0, 4>>, <<0, 3>>, <<0, 2>>, <<0, 1>>, <<0, 0>>, <<1, 0>>, <<2, 0>> >>

InnerRing == << <<2, 1>>, <<3, 1>>, <<4, 1>>, <<4, 2>>, <<4, 3>>, <<4, 4>>, <<3, 4>>,
                <<2, 4>>, <<1, 4>>, <<1, 3>>, <<1, 2>>, <<1, 1>>, <<2, 1>> >>

HoleLines == {
  OuterRing, Reverse(InnerRing),
  << <<2, 0>>, <<2, 1>> >>,
  << <<2, 1>>, <<2, 2>> >>,
  << <<2, 2>>, <<3, 2>>, <<3, 3>>, <<2, 3>>, <<2, 2>> >>}
=============================================================================
