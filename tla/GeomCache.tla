----------------------------- MODULE GeomCache -----------------------------
(***************************************************************************)
(* What ST_Contains and ST_Intersects keep between the calls of one query: *)
(* libpgcommon/lwgeom_cache.c and shared_gserialized.c, with the users of  *)
(* the cache in postgis/lwgeom_geos.c, lwgeom_geos_prepared.c and          *)
(* lwgeom_rtree.c.                                                         *)
(*                                                                         *)
(* Each argument has a slot for the last geometry that was fetched from    *)
(* disk under a toast key.  Each kind of index - an R-tree of the edges of *)
(* a polygon, or a prepared geometry - has a slot for each argument of its *)
(* last call, and an index of one of them, built the second time the same  *)
(* value comes.  Slots share geometries, which are counted: the index      *)
(* points into the geometry it was built from.                             *)
(*                                                                         *)
(* A geometry is the value it holds; empty geometries return before the    *)
(* cache is reached, and are left out.                                     *)
(***************************************************************************)
EXTENDS Naturals, FiniteSets

CONSTANTS
  Points,   \* values that are points or multipoints
  Polys,    \* values that are polygons or multipolygons
  Others,   \* values of other types
  Keys,     \* toast keys (va_toastrelid, va_valueid)
  Stored,   \* Stored[k]: the value on disk under key k
  InRow,    \* values small enough to be kept in the row itself
  MaxCopies \* bound: geometries made for one slot and still held

ASSUME GeomCacheAssumption ==
  /\ MaxCopies \in Nat
  /\ Stored \in [Keys -> Points \cup Polys \cup Others]
  /\ InRow \subseteq Points \cup Polys \cup Others
  /\ 0 \notin Keys

Values == Points \cup Polys \cup Others
Kinds  == {"rtree", "prep"}
Args   == {1, 2}
Slots  == ({"toast"} \cup Kinds) \X Args

\* A counted geometry is named by the slot it was made for and a number.
Objs  == Slots \X (1 .. MaxCopies)
NoObj == <<>>

\* An argument of a call: a value on disk, or one in the row itself (key 0).
Datums == {[key |-> k, value |-> Stored[k]] : k \in Keys}
            \cup {[key |-> 0, value |-> v] : v \in InRow}

VARIABLES
  site,      \* the function the query calls
  geomMem,   \* the counted geometries, and the one each slot holds, if any
  toastKey,  \* the key of each argument's toast slot, 0 at first
  argnum,    \* the argument each index was built from, 0 without an index
  index,     \* the geometry each index points into, and its value then
  leftover,  \* a prepared geometry was begun and never finished
  geomCall   \* the call that runs

geomVars == <<site, geomMem, toastKey, argnum, index, leftover, geomCall>>

FreeObj  == [count |-> 0]
NoIndex  == [obj |-> NoObj]
NoCall   == [phase |-> "idle"]

\* A handle on a geometry: a counted one, or (NoObj) a copy for this call.
Handle(o, v) == [obj |-> o, value |-> v]
NoHandle     == [obj |-> NoObj]

\* The one geometry h, given as the first of two.
JustOne(h) == [i \in Args |-> IF i = 1 THEN h ELSE NoHandle]

EmptyMem == [heap |-> [o \in Objs |-> FreeObj], held |-> [s \in Slots |-> NoObj]]

-----------------------------------------------------------------------------
(* shared_gserialized.c *)

\* A slot's copies find room: the bound MaxCopies.
Room(heap, s) == \E n \in 1 .. MaxCopies : heap[<<s, n>>] = FreeObj

FreshObj(heap, s) ==
  <<s, CHOOSE n \in 1 .. MaxCopies : heap[<<s, n>>] = FreeObj>>

Counted(n, v) == [count |-> n, value |-> v]

\* mutant: a geometry that nothing holds any longer is not freed
UnrefOnly(heap, o) == [heap EXCEPT ![o] = Counted(heap[o].count - 1, heap[o].value)]

shared_gserialized_unref(heap, o) ==
  [heap EXCEPT ![o] = IF heap[o].count = 1 THEN FreeObj
                      ELSE Counted(heap[o].count - 1, heap[o].value)]

\* mutant: a geometry of the query's memory is shared without counting it
RefUncounted(heap, h, o) ==
  IF h.obj = o THEN heap ELSE [heap EXCEPT ![o] = Counted(1, h.value)]

\* A geometry of the query's memory is shared, any other one is copied, here
\* into the object o.
shared_gserialized_ref(heap, h, o) ==
  [heap EXCEPT ![o] = IF h.obj = o THEN Counted(heap[o].count + 1, heap[o].value)
                      ELSE Counted(1, h.value)]

\* The slot lets go of what it held.
Drop(m, s) ==
  IF m.held[s] = NoObj THEN m
  ELSE [heap |-> shared_gserialized_unref(m.heap, m.held[s]),
        held |-> [m.held EXCEPT ![s] = NoObj]]

Take(m, s, h) ==
  LET o == IF h.obj # NoObj THEN h.obj ELSE FreshObj(m.heap, s)
  IN  [heap |-> shared_gserialized_ref(m.heap, h, o), held |-> [m.held EXCEPT ![s] = o]]

Store(m, s, h) == IF h = NoHandle THEN m ELSE Take(Drop(m, s), s, h)

-----------------------------------------------------------------------------
NoCache ==
  /\ geomMem = EmptyMem
  /\ toastKey = [i \in Args |-> 0]
  /\ argnum = [k \in Kinds |-> 0]
  /\ index = [k \in Kinds |-> NoIndex]
  /\ leftover = FALSE
  /\ geomCall = NoCall

GeomInit == site \in {"contains", "intersects"} /\ NoCache

\* The query ends - at its last row, or with an error - and its memory goes.
QueryEnds ==
  /\ geomMem' = EmptyMem
  /\ toastKey' = [i \in Args |-> 0]
  /\ argnum' = [k \in Kinds |-> 0]
  /\ index' = [k \in Kinds |-> NoIndex]
  /\ leftover' = FALSE
  /\ geomCall' = NoCall
  /\ UNCHANGED site

EndQuery == geomCall = NoCall /\ geomMem # EmptyMem /\ QueryEnds

\* The call has fetched its first i arguments, the last of them as h.
Fetched(i, h) ==
  IF i = 1 THEN [phase |-> "first", handle |-> JustOne(h)]
           ELSE [phase |-> "both", handle |-> [geomCall.handle EXCEPT ![2] = h]]

\* The arguments are fetched in order; the first starts a call.
ToastCacheGetGeometry(i, d) ==
  LET slot == <<"toast", i>>
  IN  /\ geomCall.phase = IF i = 1 THEN "idle" ELSE "first"
      /\ UNCHANGED <<site, argnum, index, leftover>>
      /\ \/ /\ d.key = 0
            /\ geomCall' = Fetched(i, Handle(NoObj, d.value))
            /\ UNCHANGED <<geomMem, toastKey>>
         \/ /\ d.key # 0 /\ d.key = toastKey[i]
            /\ geomCall' = Fetched(i, Handle(geomMem.held[slot],
                                             geomMem.heap[geomMem.held[slot]].value))
            /\ UNCHANGED <<geomMem, toastKey>>
         \/ /\ d.key # 0 /\ d.key # toastKey[i]
            /\ Room(geomMem.heap, slot)
            /\ geomMem' = Store(geomMem, slot, Handle(NoObj, d.value))
            /\ toastKey' = [toastKey EXCEPT ![i] = d.key]
            /\ geomCall' = Fetched(i, Handle(geomMem'.held[slot], d.value))

AllFetched == geomCall.phase = "both"

\* A call that gets the index of kind k uses it in place of its argument arg.
Uses(k, arg) ==
  [phase |-> "using", kind |-> k, arg |-> arg, value |-> geomCall.handle[arg].value]

\* The arguments are told apart by their boxes, without the cache.
ShortCircuit ==
  /\ AllFetched
  /\ geomCall' = NoCall
  /\ UNCHANGED <<site, geomMem, toastKey, argnum, index, leftover>>

CallReturns ==
  /\ geomCall.phase = "using"
  /\ geomCall' = NoCall
  /\ UNCHANGED <<site, geomMem, toastKey, argnum, index, leftover>>

-----------------------------------------------------------------------------
(* GetGeomCache, for the index of kind k and the geometries g. *)

\* mutant: the tree on the other argument is taken for one on this
MatchesEither(k, g, i) ==
  LET o == geomMem.held[<<k, i>>]
  IN  g[i] # NoHandle /\ o # NoObj /\ g[i].value = geomMem.heap[o].value

\* g[i] is equal to the geometry of its slot, and no index is on the other one.
Matches(k, g, i) ==
  LET o == geomMem.held[<<k, i>>]
  IN  /\ g[i] # NoHandle
      /\ o # NoObj
      /\ argnum[k] # 3 - i
      /\ g[i].value = geomMem.heap[o].value

Hit(k, g) == IF Matches(k, g, 1) THEN 1 ELSE IF Matches(k, g, 2) THEN 2 ELSE 0

\* The index of kind k is given to a caller that takes it to be on argument arg.
Ready(k, g, arg) ==
  /\ Hit(k, g) # 0
  /\ argnum[k] # 0
  /\ geomCall' = Uses(k, arg)
  /\ UNCHANGED <<site, geomMem, toastKey, argnum, index, leftover>>

\* The second time a value comes: the index is built.
Build(k, g, arg) ==
  LET o == geomMem.held[<<k, Hit(k, g)>>]
  IN  /\ Hit(k, g) # 0
      /\ argnum[k] = 0
      /\ ~(k = "prep" /\ leftover)
      /\ argnum' = [argnum EXCEPT ![k] = Hit(k, g)]
      /\ index' = [index EXCEPT ![k] = [obj |-> o, value |-> geomMem.heap[o].value]]
      /\ geomCall' = Uses(k, arg)
      /\ UNCHANGED <<site, geomMem, toastKey, leftover>>

\* No hit: the index goes, and both slots take the arguments of this call.
Miss(k, g) ==
  /\ Hit(k, g) = 0
  /\ argnum' = [argnum EXCEPT ![k] = 0]
  /\ index' = [index EXCEPT ![k] = NoIndex]
  /\ \A i \in Args : Room(geomMem.heap, <<k, i>>)
  /\ geomMem' = Store(Store(geomMem, <<k, 1>>, g[1]), <<k, 2>>, g[2])
  /\ geomCall' = NoCall
  /\ UNCHANGED <<site, toastKey, leftover>>

GetGeomCache(k, g, arg) == Ready(k, g, arg) \/ Build(k, g, arg) \/ Miss(k, g)

\* GEOS cannot convert the geometry, or, having converted it, not prepare it:
\* the second leaves the converted geometry behind.
CannotPrepare(g) ==
  /\ Hit("prep", g) # 0
  /\ argnum["prep"] = 0
  /\ ~leftover
  /\ leftover' \in BOOLEAN
  /\ geomCall' = NoCall
  /\ UNCHANGED <<site, geomMem, toastKey, argnum, index>>

\* "asked to build new prepcache where one already exists": an error.
RefusesToPrepare(g) ==
  /\ Hit("prep", g) # 0
  /\ argnum["prep"] = 0
  /\ leftover
  /\ QueryEnds

-----------------------------------------------------------------------------
(* The two functions, once they have fetched their arguments. *)

ArgOf(V) == {i \in Args : geomCall.handle[i].value \in V}

\* The polygon is the one argument of the R-tree, whichever of the two it is.
AskRtree(i) ==
  /\ i \in ArgOf(Polys) /\ 3 - i \in ArgOf(Points)
  /\ site = "contains" => i = 1
  /\ GetGeomCache("rtree", JustOne(geomCall.handle[i]), i)

\* ST_Contains prepares its first argument only, ST_Intersects either; the
\* caller looks at argnum to see which.
AskPrep ==
  LET g == IF site = "contains" THEN JustOne(geomCall.handle[1]) ELSE geomCall.handle
  IN  /\ ~(1 \in ArgOf(Polys) /\ 2 \in ArgOf(Points))
      /\ site = "intersects" => ~(2 \in ArgOf(Polys) /\ 1 \in ArgOf(Points))
      /\ \/ GetGeomCache("prep", g, IF argnum["prep"] # 0 THEN argnum["prep"]
                                    ELSE Hit("prep", g))
         \/ CannotPrepare(g) \/ RefusesToPrepare(g)

Ask ==
  /\ AllFetched
  /\ AskPrep \/ \E i \in Args : AskRtree(i)

GeomNext ==
  \/ \E i \in Args, d \in Datums : ToastCacheGetGeometry(i, d)
  \/ ShortCircuit \/ CallReturns \/ Ask \/ EndQuery

GeomSpec == GeomInit /\ [][GeomNext]_geomVars

-----------------------------------------------------------------------------
Handles == [obj : Objs \cup {NoObj}, value : Values]

GeomCalls ==
  {NoCall}
    \cup [phase : {"first", "both"}, handle : [Args -> Handles \cup {NoHandle}]]
    \cup [phase : {"using"}, kind : Kinds, arg : Args, value : Values]

\* The variables hold values of the types their declarations say.
GeomTypeOK ==
  /\ site \in {"contains", "intersects"}
  /\ geomMem \in [heap : [Objs -> {FreeObj} \cup [count : Nat \ {0}, value : Values]],
                  held : [Slots -> Objs \cup {NoObj}]]
  /\ toastKey \in [Args -> Keys \cup {0}]
  /\ argnum \in [Kinds -> Args \cup {0}]
  /\ index \in [Kinds -> {NoIndex} \cup [obj : Objs, value : Values]]
  /\ leftover \in BOOLEAN
  /\ geomCall \in GeomCalls

Holders(o) == {s \in Slots : geomMem.held[s] = o}

\* The count of every geometry is the number of slots that hold it, so that it
\* is freed when the last lets go and never before: no slot holds a geometry
\* that was freed, none is lost.
GeomRefsExact ==
  \A o \in Objs : geomMem.heap[o].count = Cardinality(Holders(o))

\* An index only lives while its slot holds the geometry it was built from and
\* points into, and the call that uses it has a geometry of that value in the
\* argument it uses it for.
GeomIndexCurrent ==
  /\ \A k \in Kinds :
       argnum[k] # 0 =>
         /\ index[k].obj # NoObj
         /\ geomMem.held[<<k, argnum[k]>>] = index[k].obj
         /\ geomMem.heap[index[k].obj] # FreeObj
         /\ geomMem.heap[index[k].obj].value = index[k].value
  /\ geomCall.phase = "using" =>
       /\ argnum[geomCall.kind] # 0
       /\ geomCall.value = index[geomCall.kind].value
=============================================================================
