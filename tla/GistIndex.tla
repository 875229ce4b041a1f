----------------------------- MODULE GistIndex -----------------------------
(***************************************************************************)
(* The spatial index on boxes: postgis/gserialized_gist_2d.c, the support  *)
(* functions of a GiST over BOX2DF keys.                                   *)
(*                                                                         *)
(* The database keeps the tree: it takes a new row down to a leaf,         *)
(* widening the keys on the way by union and same, and has a page that     *)
(* became too full split by picksplit.  A scan goes down from the root     *)
(* wherever consistent says so.  What it finds must not depend on the      *)
(* tree.  NaN stands for no box in a key, and every comparison with it is  *)
(* false.                                                                  *)
(*                                                                         *)
(* Coordinates are finite here.  One operation of the index runs at a      *)
(* time: the database locks pages as it goes.                              *)
(***************************************************************************)
EXTENDS Integers, FiniteSets

CONSTANTS
  IndexRows,  \* rows of the table
  PageIds,    \* pages the index may use
  BoxOf,      \* BoxOf[r]: the box of the geometry in row r
  Queries,    \* boxes that are searched for
  PageSize    \* entries that fit on a page

BOX2DF == {b \in [xmin : Int, xmax : Int, ymin : Int, ymax : Int] :
             b.xmin <= b.xmax /\ b.ymin <= b.ymax}

\* The key of an empty geometry: all its coordinates are NaN.
EmptyBox == [xmin |-> "NaN"]

Entries == IndexRows \cup PageIds
NoPage  == 0

ASSUME GistAssumption ==
  /\ IndexRows \cap PageIds = {}
  /\ NoPage \notin Entries
  /\ IsFiniteSet(Entries)
  /\ PageIds # {}
  /\ PageSize \in Nat \ {0}
  /\ \A r \in IndexRows : BoxOf[r] \in BOX2DF \cup {EmptyBox}
  /\ \A q \in Queries : q \in BOX2DF

VARIABLES
  top,      \* the root page
  parent,   \* the page each row and page is on, NoPage if it is in no tree
  key,      \* the key it has there
  under,    \* rows below each page; not in the code, which follows links down
  gist      \* the insertion that runs

gistVars == <<top, parent, key, under, gist>>

-----------------------------------------------------------------------------
(* Boxes. *)

box2df_is_empty(a) == a = EmptyBox

NoneEmpty(a, b) == ~box2df_is_empty(a) /\ ~box2df_is_empty(b)

box2df_overlaps(a, b) ==
  /\ NoneEmpty(a, b)
  /\ a.xmin <= b.xmax /\ b.xmin <= a.xmax
  /\ a.ymin <= b.ymax /\ b.ymin <= a.ymax

\* With NaN on either side no comparison says that a does not contain b.
box2df_contains(a, b) ==
  NoneEmpty(a, b) =>
    /\ a.xmin <= b.xmin /\ a.xmax >= b.xmax
    /\ a.ymin <= b.ymin /\ a.ymax >= b.ymax

box2df_within(a, b) == box2df_contains(b, a)

box2df_equals(a, b) == a = b

box2df_left(a, b)      == NoneEmpty(a, b) /\ a.xmax < b.xmin
box2df_overleft(a, b)  == NoneEmpty(a, b) /\ a.xmax <= b.xmax
box2df_right(a, b)     == NoneEmpty(a, b) /\ a.xmin > b.xmax
box2df_overright(a, b) == NoneEmpty(a, b) /\ a.xmin >= b.xmin
box2df_below(a, b)     == NoneEmpty(a, b) /\ a.ymax < b.ymin
box2df_overbelow(a, b) == NoneEmpty(a, b) /\ a.ymax <= b.ymax
box2df_above(a, b)     == NoneEmpty(a, b) /\ a.ymin > b.ymax
box2df_overabove(a, b) == NoneEmpty(a, b) /\ a.ymin >= b.ymin

Lesser(x, y)  == IF x < y THEN x ELSE y
Greater(x, y) == IF x > y THEN x ELSE y

\* mutant: a key that began with an empty geometry stays NaN
MergeComparing(a, b) ==
  IF NoneEmpty(a, b)
  THEN [xmin |-> Lesser(a.xmin, b.xmin), xmax |-> Greater(a.xmax, b.xmax),
        ymin |-> Lesser(a.ymin, b.ymin), ymax |-> Greater(a.ymax, b.ymax)]
  ELSE a

\* box2df_merge and adjustBox: NaN gives way to a number and leaves one alone.
box2df_merge(a, b) ==
  IF box2df_is_empty(a) THEN b
  ELSE IF box2df_is_empty(b) THEN a
  ELSE [xmin |-> Lesser(a.xmin, b.xmin), xmax |-> Greater(a.xmax, b.xmax),
        ymin |-> Lesser(a.ymin, b.ymin), ymax |-> Greater(a.ymax, b.ymax)]

\* The square of box2df_distance, between boxes that are not empty: 0 along an
\* axis on which they overlap.
Gap(amin, amax, bmin, bmax) == Greater(0, Greater(bmin - amax, amin - bmax))

\* mutant: between the centres, in half units
CentresSquared(a, b) ==
  LET dx == (a.xmin + a.xmax) - (b.xmin + b.xmax)
      dy == (a.ymin + a.ymax) - (b.ymin + b.ymax)
  IN  dx * dx + dy * dy

DistanceSquared(a, b) ==
  LET dx == Gap(a.xmin, a.xmax, b.xmin, b.xmax)
      dy == Gap(a.ymin, a.ymax, b.ymin, b.ymax)
  IN  dx * dx + dy * dy

-----------------------------------------------------------------------------
(* Operators and scans. *)

Strategies ==
  {"&&", "~=", "~", "@", "<<", "&<", ">>", "&>", "<<|", "&<|", "|>>", "|&>"}

\* gserialized_gist_consistent_leaf_2d
consistent_leaf(k, q, op) ==
  \/ op = "&&"  /\ box2df_overlaps(k, q)
  \/ op = "~="  /\ box2df_equals(k, q)
  \/ op = "~"   /\ box2df_contains(k, q)
  \/ op = "@"   /\ box2df_within(k, q)
  \/ op = "|>>" /\ box2df_above(k, q)
  \/ op = "<<|" /\ box2df_below(k, q)
  \/ op = ">>"  /\ box2df_right(k, q)
  \/ op = "<<"  /\ box2df_left(k, q)
  \/ op = "|&>" /\ box2df_overabove(k, q)
  \/ op = "&<|" /\ box2df_overbelow(k, q)
  \/ op = "&>"  /\ box2df_overright(k, q)
  \/ op = "&<"  /\ box2df_overleft(k, q)

\* gserialized_gist_consistent_internal_2d: may any row below satisfy op?
consistent_internal(k, q, op) ==
  \/ op \in {"&&", "@"}  /\ box2df_overlaps(k, q)
  \/ op \in {"~=", "~"}  /\ box2df_contains(k, q)
  \/ op = "|>>" /\ ~box2df_overbelow(k, q)
  \/ op = "<<|" /\ ~box2df_overabove(k, q)
  \/ op = ">>"  /\ ~box2df_overleft(k, q)
  \/ op = "<<"  /\ ~box2df_overright(k, q)
  \/ op = "|&>" /\ ~box2df_below(k, q)
  \/ op = "&<|" /\ ~box2df_above(k, q)
  \/ op = "&>"  /\ ~box2df_left(k, q)
  \/ op = "&<"  /\ ~box2df_right(k, q)

\* gserialized_datum_predicate_2d: an empty geometry has no box to compare.
predicate(r, q, op) == ~box2df_is_empty(BoxOf[r]) /\ consistent_leaf(BoxOf[r], q, op)

InTree(x) == parent[x] # NoPage

Pages == {p \in PageIds : p = top \/ InTree(p)}

\* An index scan gets to row r: consistent let it pass on every page above.  A
\* server before 9.5 goes on to test the row itself with the operator.
Returned(r, q, op) ==
  /\ consistent_leaf(key[r], q, op)
  /\ \A p \in PageIds \ {top} : r \in under[p] => consistent_internal(key[p], q, op)

-----------------------------------------------------------------------------
(***************************************************************************)
(* An insertion: a row on its way down (op "descend"), a page with more    *)
(* entries than fit ("overfull"), or one that is being split ("split").    *)
(***************************************************************************)
NoInsertion == [op |-> "none"]

Descent(r, p, path) == [op |-> "descend", row |-> r, page |-> p, path |-> path]
Overfull(p)         == [op |-> "overfull", page |-> p]

On(p) == {x \in Entries : parent[x] = p}

AfterInto(p, n) == IF n > PageSize THEN Overfull(p) ELSE NoInsertion

GistInit ==
  /\ top = CHOOSE p \in PageIds : TRUE
  /\ parent = [x \in Entries |-> NoPage]
  /\ key = [x \in Entries |-> EmptyBox]
  /\ under = [p \in PageIds |-> {}]
  /\ gist = NoInsertion

GistInsert(r) ==
  /\ gist = NoInsertion
  /\ ~InTree(r)
  /\ gist' = Descent(r, top, {top})
  /\ UNCHANGED <<top, parent, key, under>>

\* The key of a page that gets a row with box b: union, unless it is the same.
Widened(k, b) ==
  LET u == box2df_merge(k, b) IN IF box2df_equals(k, u) THEN k ELSE u

\* Down to the page e, which the penalty prefers; any page may be.
Descend(e) ==
  /\ gist.op = "descend"
  /\ e \in PageIds /\ parent[e] = gist.page
  /\ key' = [key EXCEPT ![e] = Widened(key[e], BoxOf[gist.row])]
  /\ gist' = Descent(gist.row, e, gist.path \cup {e})
  /\ UNCHANGED <<top, parent, under>>

\* gserialized_gist_compress_2d: the box of the geometry, or NaN.
compress(r) == BoxOf[r]

Put ==
  /\ gist.op = "descend"
  /\ On(gist.page) \cap PageIds = {}
  /\ parent' = [parent EXCEPT ![gist.row] = gist.page]
  /\ key' = [key EXCEPT ![gist.row] = compress(gist.row)]
  /\ under' = [p \in PageIds |->
                 IF p \in gist.path THEN under[p] \cup {gist.row} ELSE under[p]]
  /\ gist' = AfterInto(gist.page, Cardinality(On(gist.page)) + 1)
  /\ UNCHANGED top

-----------------------------------------------------------------------------
(* gserialized_gist_picksplit_2d *)

Axes == {"x", "y"}

Low(b, axis)  == IF axis = "x" THEN b.xmin ELSE b.ymin
High(b, axis) == IF axis = "x" THEN b.xmax ELSE b.ymax

WithBox(S) == {x \in S : ~box2df_is_empty(key[x])}

EndsBy(S, axis, h)    == {x \in WithBox(S) : High(key[x], axis) <= h}
StartsFrom(S, axis, l) == {x \in WithBox(S) : Low(key[x], axis) >= l}

(***************************************************************************)
(* The splits of the entries S that are considered: the left group is to   *)
(* end by leftUpper, the right group to start from rightLower.  The first  *)
(* loop takes each rightLower with the least leftUpper, the second each    *)
(* leftUpper with the greatest rightLower.  minLeft and maxLeft are what   *)
(* the loops count: sorted by upper bounds, entries without a box come     *)
(* first and stop the count of the first loop at 0; sorted by lower        *)
(* bounds, they come last and stop that of the second.                     *)
(***************************************************************************)
FirstLoop(S, axis, leftUpper, rightLower) ==
  LET before == WithBox(S) \ StartsFrom(S, axis, rightLower)
  IN  /\ \E x \in WithBox(S) : Low(key[x], axis) = rightLower
      /\ \E x \in before : High(key[x], axis) = leftUpper
      /\ before \subseteq EndsBy(S, axis, leftUpper)

SecondLoop(S, axis, leftUpper, rightLower) ==
  LET after == WithBox(S) \ EndsBy(S, axis, leftUpper)
  IN  /\ \E x \in WithBox(S) : High(key[x], axis) = leftUpper
      /\ \E x \in after : Low(key[x], axis) = rightLower
      /\ after \subseteq StartsFrom(S, axis, rightLower)

minLeft(S, axis, rightLower) ==
  Cardinality(WithBox(S) \ StartsFrom(S, axis, rightLower))

maxLeft(S, axis, leftUpper) == Cardinality(EndsBy(S, axis, leftUpper))

LeftCount(n, atLeast, atMost) ==
  IF atLeast >= (n + 1) \div 2 THEN atLeast
  ELSE IF atMost <= n \div 2 THEN atMost
  ELSE n \div 2

\* ratio > LIMIT_RATIO; the float 0.1 is larger than the double it is compared to.
RatioOK(n, left) == 10 * Lesser(left, n - left) >= n

\* g_box_consider_split.  Among the acceptable splits the code prefers those of
\* little overlap and long range; here any may be selected.
Acceptable(S, axis, leftUpper, rightLower) ==
  LET n == Cardinality(S)
      allBoxes == WithBox(S) = S
  IN  \/ /\ FirstLoop(S, axis, leftUpper, rightLower)
         /\ RatioOK(n, LeftCount(n, minLeft(S, axis, rightLower),
                                 IF allBoxes THEN maxLeft(S, axis, leftUpper) ELSE 0))
      \/ /\ SecondLoop(S, axis, leftUpper, rightLower)
         /\ allBoxes
         /\ RatioOK(n, LeftCount(n, minLeft(S, axis, rightLower), maxLeft(S, axis, leftUpper)))

Bounds(S, axis) ==
  {Low(key[x], axis) : x \in WithBox(S)} \cup {High(key[x], axis) : x \in WithBox(S)}

Splits(S) ==
  {[axis |-> axis, leftUpper |-> u, rightLower |-> l] :
     axis \in Axes, u \in Bounds(S, "x") \cup Bounds(S, "y"),
     l \in Bounds(S, "x") \cup Bounds(S, "y")}

Group(S, box) == [items |-> S, box |-> box]
NoGroup       == Group({}, EmptyBox)

\* mutant: spl_nleft and spl_nright are not advanced
PlaceOver(group, x) ==
  Group({x}, IF group.items = {} THEN key[x] ELSE box2df_merge(group.box, key[x]))

\* PLACE_LEFT and PLACE_RIGHT
Place(group, x) ==
  Group(group.items \cup {x},
        IF group.items = {} THEN key[x] ELSE box2df_merge(group.box, key[x]))

Splitting(p, split, S) ==
  [op |-> "split", page |-> p, split |-> split, todo |-> S, common |-> {},
   left |-> NoGroup, right |-> NoGroup]

Halves == [axis |-> "none"]

\* fallbackSplit if no split is acceptable.
PickSplit ==
  /\ gist.op = "overfull"
  /\ LET S == On(gist.page)
         good == {split \in Splits(S) :
                    Acceptable(S, split.axis, split.leftUpper, split.rightLower)}
     IN  \E split \in IF good = {} THEN {Halves} ELSE good :
           gist' = Splitting(gist.page, split, S)
  /\ UNCHANGED <<top, parent, key, under>>

FitsLeft(b, split)  == box2df_is_empty(b) \/ High(b, split.axis) <= split.leftUpper
FitsRight(b, split) == box2df_is_empty(b) \/ Low(b, split.axis) >= split.rightLower

ToLeft(x)   == [gist EXCEPT !.left = Place(gist.left, x), !.todo = @ \ {x}]
ToRight(x)  == [gist EXCEPT !.right = Place(gist.right, x), !.todo = @ \ {x}]
ToCommon(x) == [gist EXCEPT !.common = @ \cup {x}, !.todo = @ \ {x}]

\* Entries that fit on one side only go there.  Entries come in the order of
\* the page, which nothing depends on.
Distribute ==
  /\ gist.op = "split"
  /\ gist.split # Halves
  /\ gist.todo # {}
  /\ LET x == CHOOSE y \in gist.todo : TRUE
     IN  gist' = IF ~FitsLeft(key[x], gist.split) THEN ToRight(x)
                 ELSE IF FitsRight(key[x], gist.split) THEN ToCommon(x)
                 ELSE ToLeft(x)
  /\ UNCHANGED <<top, parent, key, under>>

\* fallbackSplit: the first half goes to the left.
DistributeHalves ==
  /\ gist.op = "split"
  /\ gist.split = Halves
  /\ gist.todo # {}
  /\ LET x == CHOOSE y \in gist.todo : TRUE
     IN  gist' = IF Cardinality(gist.left.items) < Cardinality(On(gist.page)) \div 2
                 THEN ToLeft(x) ELSE ToRight(x)
  /\ UNCHANGED <<top, parent, key, under>>

\* The fewest entries that a group may have.
Limit(n) == (n + 9) \div 10

\* mutant: < for <=
NeededNow(group) ==
  Cardinality(group.items) + Cardinality(gist.common) < Limit(Cardinality(On(gist.page)))

\* All common entries that are left are needed for the group to reach the limit.
Needed(group) ==
  Cardinality(group.items) + Cardinality(gist.common) <= Limit(Cardinality(On(gist.page)))

CommonToLeft(x)  == [gist EXCEPT !.left = Place(gist.left, x), !.common = @ \ {x}]
CommonToRight(x) == [gist EXCEPT !.right = Place(gist.right, x), !.common = @ \ {x}]

\* A common entry, the most ambiguous first and where the penalty is less: any
\* entry here, and either group unless one needs it.
PlaceCommon(x) ==
  /\ gist.op = "split"
  /\ gist.todo = {}
  /\ x \in gist.common
  /\ gist' \in IF Needed(gist.left) THEN {CommonToLeft(x)}
               ELSE IF Needed(gist.right) THEN {CommonToRight(x)}
               ELSE {CommonToLeft(x), CommonToRight(x)}
  /\ UNCHANGED <<top, parent, key, under>>

Placed == gist.op = "split" /\ gist.todo = {} /\ gist.common = {}

Unused == PageIds \ Pages

\* The rows among the entries S or below them.
RowsOf(S) == (S \cap IndexRows) \cup UNION {under[c] : c \in S \cap PageIds}

\* The right group goes to the new page q, beside the page that was split.
SplitPage ==
  LET p == gist.page
      q == CHOOSE x \in Unused : TRUE
  IN  /\ Placed /\ p # top /\ Unused # {}
      /\ parent' = [x \in Entries |-> IF x \in gist.right.items THEN q
                                      ELSE IF x = q THEN parent[p] ELSE parent[x]]
      /\ key' = [key EXCEPT ![p] = gist.left.box, ![q] = gist.right.box]
      /\ under' = [under EXCEPT ![p] = RowsOf(gist.left.items),
                                ![q] = RowsOf(gist.right.items)]
      /\ gist' = AfterInto(parent[p], Cardinality(On(parent[p])) + 1)
      /\ UNCHANGED top

\* A new root r goes above the two.
SplitTop ==
  LET p == gist.page
      q == CHOOSE x \in Unused : TRUE
      r == CHOOSE x \in Unused \ {q} : TRUE
  IN  /\ Placed /\ p = top /\ Unused \ {q} # {}
      /\ parent' = [x \in Entries |-> IF x \in gist.right.items THEN q
                                      ELSE IF x \in {p, q} THEN r ELSE parent[x]]
      /\ key' = [key EXCEPT ![p] = gist.left.box, ![q] = gist.right.box]
      /\ under' = [under EXCEPT ![p] = RowsOf(gist.left.items),
                                ![q] = RowsOf(gist.right.items), ![r] = under[p]]
      /\ top' = r
      /\ gist' = NoInsertion

GistNext ==
  \/ \E r \in IndexRows : GistInsert(r)
  \/ \E e \in PageIds : Descend(e)
  \/ Put
  \/ PickSplit \/ Distribute \/ DistributeHalves
  \/ \E x \in Entries : PlaceCommon(x)
  \/ SplitPage \/ SplitTop

GistSpec == GistInit /\ [][GistNext]_gistVars

-----------------------------------------------------------------------------
Keys2D == BOX2DF \cup {EmptyBox}

Groups == [items : SUBSET Entries, box : Keys2D]

Insertions ==
  {NoInsertion}
    \cup [op : {"descend"}, row : IndexRows, page : PageIds, path : SUBSET PageIds]
    \cup [op : {"overfull"}, page : PageIds]
    \cup [op : {"split"}, page : PageIds,
          split : {Halves} \cup [axis : Axes, leftUpper : Int, rightLower : Int],
          todo : SUBSET Entries, common : SUBSET Entries, left : Groups, right : Groups]

\* The variables hold values of the types their declarations say: under is what
\* the links lead to.
GistTypeOK ==
  /\ top \in PageIds
  /\ parent \in [Entries -> PageIds \cup {NoPage}]
  /\ key \in [Entries -> Keys2D]
  /\ under \in [PageIds -> SUBSET IndexRows]
  /\ gist \in Insertions
  /\ \A p \in PageIds : under[p] = RowsOf(On(p))

\* An index scan returns the rows that the operator itself accepts: it misses
\* none, and returns no other except that ~ and @ let empty geometries pass, for
\* which the operator is false.
ScansAgree ==
  \A r \in {x \in IndexRows : InTree(x)} : \A q \in Queries, op \in Strategies :
    /\ predicate(r, q, op) => Returned(r, q, op)
    /\ Returned(r, q, op) =>
         predicate(r, q, op) \/ (op \in {"~", "@"} /\ box2df_is_empty(BoxOf[r]))

\* The distance given for a page is never more than that of a row below it, so
\* that ORDER BY distance may take the nearest page first; FLT_MAX is the
\* distance of what has no box.
NearestFirst ==
  \A p \in PageIds \ {top} : \A r \in under[p] :
    ~box2df_is_empty(BoxOf[r]) =>
      /\ ~box2df_is_empty(key[p])
      /\ \A q \in Queries : DistanceSquared(key[p], q) <= DistanceSquared(BoxOf[r], q)

\* "Each entry should fit on either left or right group", and neither group is
\* left with fewer entries than the limit: the database can do nothing with a
\* group of none.
SplitSound ==
  gist.op = "split" =>
    /\ gist.split # Halves =>
         /\ \A x \in gist.left.items : FitsLeft(key[x], gist.split)
         /\ \A x \in gist.right.items : FitsRight(key[x], gist.split)
    /\ Placed =>
         /\ gist.left.items \cup gist.right.items = On(gist.page)
         /\ gist.left.items \cap gist.right.items = {}
         /\ Cardinality(gist.left.items) >= Limit(Cardinality(On(gist.page)))
         /\ Cardinality(gist.right.items) >= Limit(Cardinality(On(gist.page)))
=============================================================================
