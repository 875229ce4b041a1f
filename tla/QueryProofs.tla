---------------------------- MODULE QueryProofs ----------------------------
(***************************************************************************)
(* What a query relies on: the cache of its geometries, and the index.     *)
(*                                                                         *)
(* For any geometries, toast keys and numbers of copies: the reference     *)
(* counts of the geometries that the slots share are exact, and no index   *)
(* is used for a geometry other than the one it was built from.            *)
(*                                                                         *)
(* For any rows, boxes and sizes of pages: a scan of the index returns the *)
(* rows that the operator accepts, the distance to a page is a lower bound *)
(* for the rows below it, and a page is split into two groups of at least  *)
(* the limit, each entry into one on whose side it fits.                   *)
(***************************************************************************)
EXTENDS GeomCache, GistIndex, FiniteSetTheorems, TLAPS

Live(m, o) == m.heap[o] # FreeObj

MemType ==
  [heap : [Objs -> {FreeObj} \cup [count : Nat \ {0}, value : Values]],
   held : [Slots -> Objs \cup {NoObj}]]

HoldersIn(m, o) == {s \in Slots : m.held[s] = o}

\* A memory in which every count is exact.
MemOK(m) ==
  /\ m \in MemType
  /\ \A o \in Objs : m.heap[o].count = Cardinality(HoldersIn(m, o))

\* What no step may take from under a slot: its geometry and the value of it.
Keeps(m, n, s) ==
  /\ n.held[s] = m.held[s]
  /\ m.held[s] # NoObj => n.heap[m.held[s]].value = m.heap[m.held[s]].value

\* A handle of m: a copy for this call, or a counted geometry that slot s holds.
HandleOK(m, h, s) ==
  /\ h \in Handles
  /\ h.obj # NoObj =>
       /\ h.obj = m.held[s]
       /\ h.value = m.heap[h.obj].value

-----------------------------------------------------------------------------
LEMMA NoObjOutside == NoObj \notin Objs
  BY DEF NoObj, Objs, Slots

LEMMA SlotsFinite == IsFiniteSet(Slots)
<1>1. IsFiniteSet({"toast"} \cup Kinds)
  <2>1. {"toast"} \cup Kinds = (({} \cup {"toast"}) \cup {"rtree"}) \cup {"prep"}
    BY DEF Kinds
  <2>2. QED  BY <2>1, FS_EmptySet, FS_AddElement
<1>2. IsFiniteSet(Args)
  <2>1. Args = ({} \cup {1}) \cup {2}  BY DEF Args
  <2>2. QED  BY <2>1, FS_EmptySet, FS_AddElement
<1>3. QED  BY <1>1, <1>2, FS_Product DEF Slots

LEMMA HoldersFinite ==
  ASSUME NEW m, NEW o
  PROVE  /\ IsFiniteSet(HoldersIn(m, o))
         /\ Cardinality(HoldersIn(m, o)) \in Nat
<1>1. HoldersIn(m, o) \in SUBSET Slots  BY DEF HoldersIn
<1>2. IsFiniteSet(HoldersIn(m, o))  BY <1>1, SlotsFinite, FS_Subset
<1>3. QED  BY <1>2, FS_CardinalityType

\* In an exact memory just the geometries that a slot holds are live.
LEMMA LiveHeld ==
  ASSUME NEW m, MemOK(m), NEW o \in Objs
  PROVE  /\ Live(m, o) <=> \E s \in Slots : m.held[s] = o
         /\ Live(m, o) => m.heap[o] \in [count : Nat \ {0}, value : Values]
<1>1. m.heap[o] \in {FreeObj} \cup [count : Nat \ {0}, value : Values]
  BY DEF MemOK, MemType
<1>2. m.heap[o].count = Cardinality(HoldersIn(m, o))  BY DEF MemOK
<1>3. Live(m, o) <=> m.heap[o].count # 0  BY <1>1 DEF Live, FreeObj
<1>4. Cardinality(HoldersIn(m, o)) = 0 <=> HoldersIn(m, o) = {}
  BY HoldersFinite, FS_EmptySet
<1>5. HoldersIn(m, o) = {} <=> ~(\E s \in Slots : m.held[s] = o)  BY DEF HoldersIn
<1>6. QED  BY <1>1, <1>2, <1>3, <1>4, <1>5 DEF Live

LEMMA DropOK ==
  ASSUME NEW m, MemOK(m), NEW s \in Slots
  PROVE  LET n == Drop(m, s)
         IN  /\ MemOK(n)
             /\ n.held[s] = NoObj
             /\ \A t \in Slots \ {s} : Keeps(m, n, t)
             /\ \A o \in Objs : ~Live(m, o) => ~Live(n, o)
<1> DEFINE n == Drop(m, s)
           g == m.held[s]
<1>1. CASE g = NoObj
  BY <1>1 DEF Drop, Keeps
<1>2. CASE g # NoObj
  <2>1. m \in MemType  BY DEF MemOK
  <2>2. g \in Objs  BY <1>2, <2>1 DEF MemType
  <2>3. Live(m, g) /\ m.heap[g] \in [count : Nat \ {0}, value : Values]
    BY <2>2, LiveHeld
  <2> DEFINE e == IF m.heap[g].count = 1 THEN FreeObj
                  ELSE Counted(m.heap[g].count - 1, m.heap[g].value)
  <2>4. n = [heap |-> [m.heap EXCEPT ![g] = e], held |-> [m.held EXCEPT ![s] = NoObj]]
    BY <1>2 DEF Drop, shared_gserialized_unref
  <2>5. /\ e \in {FreeObj} \cup [count : Nat \ {0}, value : Values]
        /\ e.count = m.heap[g].count - 1
        /\ e # FreeObj => e.value = m.heap[g].value
        /\ e = FreeObj <=> e.count = 0
    BY <2>3 DEF FreeObj, Counted
  <2> HIDE DEF e
  <2>6. /\ n.heap = [m.heap EXCEPT ![g] = e] /\ n.held = [m.held EXCEPT ![s] = NoObj]
        /\ n \in MemType
    BY <2>1, <2>2, <2>4, <2>5 DEF MemType
  <2>7. n.held[s] = NoObj /\ \A t \in Slots \ {s} : n.held[t] = m.held[t]
    BY <2>1, <2>6 DEF MemType
  <2>8. n.heap[g] = e /\ \A o \in Objs \ {g} : n.heap[o] = m.heap[o]
    BY <2>1, <2>2, <2>6 DEF MemType
  <2> HIDE DEF n
  <2>9. ASSUME NEW o \in Objs  PROVE n.heap[o].count = Cardinality(HoldersIn(n, o))
    <3>1. m.heap[o].count = Cardinality(HoldersIn(m, o))  BY DEF MemOK
    <3>2. CASE o = g
      <4>1. HoldersIn(n, o) = HoldersIn(m, o) \ {s}
        BY <2>2, <2>7, <3>2, NoObjOutside DEF HoldersIn
      <4>2. s \in HoldersIn(m, o)  BY <3>2 DEF HoldersIn
      <4>3. Cardinality(HoldersIn(n, o)) = Cardinality(HoldersIn(m, o)) - 1
        BY <4>1, <4>2, HoldersFinite, FS_RemoveElement
      <4>4. QED  BY <2>5, <2>8, <3>1, <3>2, <4>3
    <3>3. CASE o # g
      <4>1. HoldersIn(n, o) = HoldersIn(m, o)
        BY <2>7, <3>3, NoObjOutside DEF HoldersIn
      <4>2. QED  BY <2>8, <3>1, <3>3, <4>1
    <3>4. QED  BY <3>2, <3>3
  <2>10. MemOK(n)  BY <2>6, <2>9 DEF MemOK
  <2>11. ASSUME NEW t \in Slots \ {s}  PROVE Keeps(m, n, t)
    <3>1. n.held[t] = m.held[t] /\ m.held[t] \in Objs \cup {NoObj}
      BY <2>1, <2>7 DEF MemType
    <3>2. CASE m.held[t] = g
      <4>1. Live(n, g)  BY <2>2, <2>10, <3>1, <3>2, LiveHeld
      <4>2. e.value = m.heap[g].value  BY <2>5, <2>8, <4>1 DEF Live
      <4>3. QED  BY <2>8, <3>1, <3>2, <4>2 DEF Keeps
    <3>3. CASE m.held[t] # g  BY <2>8, <3>1, <3>3 DEF Keeps
    <3>4. QED  BY <3>2, <3>3
  <2>12. ASSUME NEW o \in Objs, ~Live(m, o)  PROVE ~Live(n, o)
    BY <2>3, <2>8, <2>12 DEF Live
  <2>13. QED  BY <2>7, <2>10, <2>11, <2>12 DEF n
<1>3. QED  BY <1>1, <1>2

\* A slot without a geometry takes one that another slot holds, or a new copy.
LEMMA TakeOK ==
  ASSUME NEW m, MemOK(m), NEW s \in Slots, m.held[s] = NoObj,
         NEW t \in Slots, NEW h, HandleOK(m, h, t), Room(m.heap, s)
  PROVE  LET n == Take(m, s, h)
         IN  /\ MemOK(n)
             /\ n.held[s] # NoObj
             /\ n.heap[n.held[s]].value = h.value
             /\ \A u \in Slots \ {s} : Keeps(m, n, u)
             /\ \A o \in Objs : o[1] # s /\ ~Live(m, o) => ~Live(n, o)
<1> DEFINE n == Take(m, s, h)
           o == IF h.obj # NoObj THEN h.obj ELSE FreshObj(m.heap, s)
           e == IF h.obj = o THEN Counted(m.heap[o].count + 1, m.heap[o].value)
                ELSE Counted(1, h.value)
<1>1. m \in MemType /\ h \in Handles  BY DEF MemOK, HandleOK
<1>2. ~Live(m, FreshObj(m.heap, s)) /\ FreshObj(m.heap, s) \in Objs
      /\ FreshObj(m.heap, s)[1] = s
  <2>1. PICK k \in 1 .. MaxCopies : m.heap[<<s, k>>] = FreeObj  BY DEF Room
  <2> DEFINE y == CHOOSE x \in 1 .. MaxCopies : m.heap[<<s, x>>] = FreeObj
  <2>2. y \in 1 .. MaxCopies /\ m.heap[<<s, y>>] = FreeObj  BY <2>1
  <2>3. FreshObj(m.heap, s) = <<s, y>>  BY DEF FreshObj
  <2> HIDE DEF y
  <2>4. QED  BY <2>2, <2>3 DEF Live, Objs
<1>3. o \in Objs /\ o # NoObj
  BY <1>1, <1>2, NoObjOutside DEF Handles
<1>4. n = [heap |-> [m.heap EXCEPT ![o] = e], held |-> [m.held EXCEPT ![s] = o]]
  BY DEF Take, shared_gserialized_ref
<1>5. h.obj # NoObj => Live(m, o) /\ m.heap[o].value = h.value
  <2>1. h.obj # NoObj => m.held[t] = o /\ m.heap[o].value = h.value
    BY DEF HandleOK
  <2>2. QED  BY <1>3, <2>1, LiveHeld
<1>6. h.obj = NoObj => ~Live(m, o) /\ o[1] = s  BY <1>2
<1>7. /\ e \in [count : Nat \ {0}, value : Values]
      /\ e.value = h.value
      /\ e.count = m.heap[o].count + 1
  <2>1. CASE h.obj # NoObj
    <3>1. m.heap[o] \in [count : Nat \ {0}, value : Values]
      BY <1>3, <1>5, <2>1, LiveHeld
    <3>2. QED  BY <1>5, <2>1, <3>1 DEF Counted
  <2>2. CASE h.obj = NoObj
    <3>1. m.heap[o].count = 0  BY <1>6, <2>2 DEF Live, FreeObj
    <3>2. h.obj # o /\ h.value \in Values  BY <1>1, <1>3, <2>2 DEF Handles
    <3>3. QED  BY <3>1, <3>2 DEF Counted
  <2>3. QED  BY <2>1, <2>2
<1> HIDE DEF e, o
<1>8. /\ n.heap = [m.heap EXCEPT ![o] = e] /\ n.held = [m.held EXCEPT ![s] = o]
      /\ n \in MemType
  BY <1>1, <1>3, <1>4, <1>7 DEF MemType
<1>9. n.held[s] = o /\ \A u \in Slots \ {s} : n.held[u] = m.held[u]
  BY <1>1, <1>8 DEF MemType
<1>10. n.heap[o] = e /\ \A x \in Objs \ {o} : n.heap[x] = m.heap[x]
  BY <1>1, <1>3, <1>8 DEF MemType
<1> HIDE DEF n
<1>11. ASSUME NEW x \in Objs  PROVE n.heap[x].count = Cardinality(HoldersIn(n, x))
  <2>1. m.heap[x].count = Cardinality(HoldersIn(m, x))  BY DEF MemOK
  <2>2. CASE x = o
    <3>1. HoldersIn(n, x) = HoldersIn(m, x) \cup {s}
      BY <1>9, <2>2 DEF HoldersIn
    <3>2. s \notin HoldersIn(m, x)  BY <1>3, <2>2 DEF HoldersIn
    <3>3. Cardinality(HoldersIn(n, x)) = Cardinality(HoldersIn(m, x)) + 1
      BY <3>1, <3>2, HoldersFinite, FS_AddElement
    <3>4. QED  BY <1>7, <1>10, <2>1, <2>2, <3>3
  <2>3. CASE x # o
    <3>1. HoldersIn(n, x) = HoldersIn(m, x)
      BY <1>9, <2>3, NoObjOutside DEF HoldersIn
    <3>2. QED  BY <1>10, <2>1, <2>3, <3>1
  <2>4. QED  BY <2>2, <2>3
<1>12. MemOK(n)  BY <1>8, <1>11 DEF MemOK
<1>13. ASSUME NEW u \in Slots \ {s}  PROVE Keeps(m, n, u)
  <2>1. n.held[u] = m.held[u] /\ m.held[u] \in Objs \cup {NoObj}
    BY <1>1, <1>9 DEF MemType
  <2>2. CASE m.held[u] = o
    <3>1. Live(m, o)  BY <1>3, <2>2, LiveHeld
    <3>2. m.heap[o].value = h.value  BY <1>5, <1>6, <3>1
    <3>3. QED  BY <1>7, <1>10, <2>1, <2>2, <3>2 DEF Keeps
  <2>3. CASE m.held[u] # o  BY <1>10, <2>1, <2>3 DEF Keeps
  <2>4. QED  BY <2>2, <2>3
<1>14. ASSUME NEW x \in Objs, x[1] # s, ~Live(m, x)  PROVE ~Live(n, x)
  BY <1>5, <1>6, <1>10, <1>14 DEF Live
<1>15. QED  BY <1>3, <1>7, <1>9, <1>10, <1>12, <1>13, <1>14 DEF n

LEMMA StoreOK ==
  ASSUME NEW m, MemOK(m), NEW s \in Slots, NEW t \in Slots \ {s}, NEW h,
         h = NoHandle \/ HandleOK(m, h, t), Room(m.heap, s)
  PROVE  LET n == Store(m, s, h)
         IN  /\ MemOK(n)
             /\ h # NoHandle => n.held[s] # NoObj /\ n.heap[n.held[s]].value = h.value
             /\ \A u \in Slots \ {s} : Keeps(m, n, u)
             /\ \A u \in Slots \ {s} : Room(m.heap, u) => Room(n.heap, u)
<1> DEFINE n == Store(m, s, h)
           d == Drop(m, s)
<1>1. CASE h = NoHandle
  BY <1>1 DEF Store, Keeps
<1>2. CASE h # NoHandle
  <2>1. HandleOK(m, h, t) /\ n = Take(d, s, h)  BY <1>2 DEF Store
  <2>2. /\ MemOK(d) /\ d.held[s] = NoObj
        /\ \A u \in Slots \ {s} : Keeps(m, d, u)
        /\ \A o \in Objs : ~Live(m, o) => ~Live(d, o)
    BY DropOK
  <2> HIDE DEF d, n
  <2>3. HandleOK(d, h, t)  BY <2>1, <2>2 DEF HandleOK, Keeps
  <2>4. Room(d.heap, s)  BY <2>2 DEF Room, Objs, Live
  <2>5. /\ MemOK(n) /\ n.held[s] # NoObj /\ n.heap[n.held[s]].value = h.value
        /\ \A u \in Slots \ {s} : Keeps(d, n, u)
        /\ \A o \in Objs : o[1] # s /\ ~Live(d, o) => ~Live(n, o)
    BY <2>1, <2>2, <2>3, <2>4, TakeOK
  <2>6. \A u \in Slots \ {s} : Keeps(m, n, u)  BY <2>2, <2>5 DEF Keeps
  <2>7. ASSUME NEW u \in Slots \ {s}, Room(m.heap, u)  PROVE Room(n.heap, u)
    <3>1. PICK x \in 1 .. MaxCopies : m.heap[<<u, x>>] = FreeObj  BY <2>7 DEF Room
    <3>2. <<u, x>> \in Objs /\ <<u, x>>[1] # s  BY DEF Objs
    <3>3. ~Live(n, <<u, x>>)  BY <2>2, <2>5, <3>1, <3>2 DEF Live
    <3>4. QED  BY <3>3 DEF Room, Live
  <2>8. QED  BY <2>5, <2>6, <2>7 DEF n
<1>3. QED  BY <1>1, <1>2

-----------------------------------------------------------------------------
(* The invariant. *)

Toast(i) == <<"toast", i>>

\* A toast slot with a key has a geometry.
ToastOK == \A i \in Args : toastKey[i] # 0 => geomMem.held[Toast(i)] # NoObj

\* The handles of a call are those of its toast slots, or copies.
HandlesOK ==
  /\ geomCall.phase \in {"first", "both"} => HandleOK(geomMem, geomCall.handle[1], Toast(1))
  /\ geomCall.phase = "both" => HandleOK(geomMem, geomCall.handle[2], Toast(2))

\* The index of kind k, where there is one, is on what its slot holds.
IndexOK(k) ==
  argnum[k] # 0 =>
    /\ index[k] # NoIndex
    /\ index[k].obj # NoObj
    /\ geomMem.held[<<k, argnum[k]>>] = index[k].obj
    /\ geomMem.heap[index[k].obj].value = index[k].value

UsingOK ==
  geomCall.phase = "using" =>
    /\ argnum[geomCall.kind] # 0
    /\ geomCall.value = index[geomCall.kind].value

GeomInv ==
  /\ GeomTypeOK
  /\ MemOK(geomMem)
  /\ ToastOK
  /\ HandlesOK
  /\ \A k \in Kinds : IndexOK(k)
  /\ UsingOK

LEMMA SlotNames ==
  /\ \A i \in Args : Toast(i) \in Slots
  /\ \A k \in Kinds, i \in Args : <<k, i>> \in Slots
  /\ \A k \in Kinds, i, j \in Args : Toast(i) # <<k, j>>
  BY DEF Toast, Slots, Kinds

LEMMA InvImplies ==
  ASSUME GeomInv
  PROVE  GeomTypeOK /\ GeomRefsExact /\ GeomIndexCurrent
<1>1. GeomRefsExact
  BY DEF GeomInv, MemOK, GeomRefsExact, HoldersIn, Holders
<1>2. ASSUME NEW k \in Kinds, argnum[k] # 0
      PROVE  /\ index[k].obj # NoObj
             /\ geomMem.held[<<k, argnum[k]>>] = index[k].obj
             /\ geomMem.heap[index[k].obj] # FreeObj
             /\ geomMem.heap[index[k].obj].value = index[k].value
  <2>1. argnum[k] \in Args  BY <1>2 DEF GeomInv, GeomTypeOK
  <2>2. <<k, argnum[k]>> \in Slots  BY <2>1, SlotNames
  <2>3. IndexOK(k)  BY DEF GeomInv
  <2>4. index[k].obj \in Objs
    BY <1>2, <2>2, <2>3 DEF IndexOK, GeomInv, MemOK, MemType
  <2>5. Live(geomMem, index[k].obj)
    BY <1>2, <2>2, <2>3, <2>4, LiveHeld DEF IndexOK, GeomInv
  <2>6. QED  BY <1>2, <2>3, <2>5 DEF IndexOK, Live
<1>3. GeomIndexCurrent
  BY <1>2 DEF GeomInv, UsingOK, GeomIndexCurrent
<1>4. QED  BY <1>1, <1>3 DEF GeomInv

LEMMA EmptyMemOK == MemOK(EmptyMem)
<1>1. EmptyMem \in MemType  BY DEF EmptyMem, MemType
<1>2. ASSUME NEW o \in Objs
      PROVE  EmptyMem.heap[o].count = Cardinality(HoldersIn(EmptyMem, o))
  <2>1. HoldersIn(EmptyMem, o) = {}  BY NoObjOutside DEF HoldersIn, EmptyMem
  <2>2. EmptyMem.heap[o].count = 0  BY DEF EmptyMem, FreeObj
  <2>3. QED  BY <2>1, <2>2, FS_EmptySet
<1>3. QED  BY <1>1, <1>2 DEF MemOK

\* A cache that nothing is in.
LEMMA EmptyInv == site \in {"contains", "intersects"} /\ NoCache => GeomInv
<1> SUFFICES ASSUME site \in {"contains", "intersects"}, NoCache  PROVE GeomInv
  OBVIOUS
<1>1. GeomTypeOK
  BY EmptyMemOK DEF NoCache, GeomTypeOK, MemOK, MemType, GeomCalls
<1>2. ToastOK /\ HandlesOK /\ UsingOK /\ \A k \in Kinds : IndexOK(k)
  BY DEF NoCache, ToastOK, HandlesOK, UsingOK, IndexOK, NoCall
<1>3. QED  BY <1>1, <1>2, EmptyMemOK DEF GeomInv, NoCache

LEMMA QueryEndsInv ==
  ASSUME GeomInv, QueryEnds
  PROVE  GeomInv'
<1>1. (site \in {"contains", "intersects"} /\ NoCache)'
  BY DEF GeomInv, GeomTypeOK, QueryEnds, NoCache
<1>2. QED  BY <1>1, EmptyInv, PTL

-----------------------------------------------------------------------------
(* The steps. *)

\* The call returns without any change to what the query keeps.
LEMMA CallOverInv ==
  ASSUME GeomInv, UNCHANGED <<site, geomMem, toastKey, argnum, index>>,
         leftover' \in BOOLEAN, geomCall' = NoCall
  PROVE  GeomInv'
<1>1. GeomTypeOK'  BY DEF GeomInv, GeomTypeOK, GeomCalls
<1>2. HandlesOK' /\ UsingOK'  BY DEF HandlesOK, UsingOK, NoCall
<1>3. ToastOK'  BY DEF GeomInv, ToastOK
<1>4. \A k \in Kinds : IndexOK(k)'  BY DEF GeomInv, IndexOK
<1>5. QED  BY <1>1, <1>2, <1>3, <1>4 DEF GeomInv, MemOK, HoldersIn

\* The indexes outlast a step that leaves them, and the geometries of their
\* slots, alone.
LEMMA IndexKept ==
  ASSUME GeomInv, NEW k \in Kinds, IndexOK(k),
         argnum'[k] = argnum[k], index'[k] = index[k],
         \A i \in Args : Keeps(geomMem, geomMem', <<k, i>>)
  PROVE  IndexOK(k)'
<1>1. argnum[k] \in Args \cup {0}  BY DEF GeomInv, GeomTypeOK
<1>2. CASE argnum[k] = 0  BY <1>2 DEF IndexOK
<1>3. CASE argnum[k] \in Args
  <2>1. Keeps(geomMem, geomMem', <<k, argnum[k]>>)  BY <1>3
  <2>2. argnum[k] # 0  BY <1>3 DEF Args
  <2>3. QED  BY <2>1, <2>2 DEF IndexOK, Keeps
<1>4. QED  BY <1>1, <1>2, <1>3

LEMMA FetchedType ==
  ASSUME NEW i \in Args, NEW h \in Handles, geomCall \in GeomCalls,
         geomCall.phase = IF i = 1 THEN "idle" ELSE "first"
  PROVE  /\ Fetched(i, h) \in GeomCalls
         /\ Fetched(i, h).phase = IF i = 1 THEN "first" ELSE "both"
         /\ Fetched(i, h).handle[i] = h
         /\ i = 2 => Fetched(i, h).handle[1] = geomCall.handle[1]
<1>1. CASE i = 1
  <2>1. JustOne(h) \in [Args -> Handles \cup {NoHandle}] /\ JustOne(h)[1] = h
    BY DEF JustOne, Args
  <2>2. QED  BY <1>1, <2>1 DEF Fetched, GeomCalls
<1>2. CASE i = 2
  <2>1. geomCall.handle \in [Args -> Handles \cup {NoHandle}]
    BY <1>2 DEF GeomCalls, NoCall
  <2>2. QED  BY <1>2, <2>1 DEF Fetched, GeomCalls, Args
<1>3. QED  BY <1>1, <1>2 DEF Args

\* The handle of the other argument stays good.
LEMMA HandlesKept ==
  ASSUME GeomInv, NEW i \in Args, NEW h,
         geomCall.phase = IF i = 1 THEN "idle" ELSE "first",
         geomCall' = Fetched(i, h), h \in Handles,
         HandleOK(geomMem', h, Toast(i)),
         \A t \in Slots \ {Toast(i)} : Keeps(geomMem, geomMem', t)
  PROVE  HandlesOK' /\ UsingOK' /\ geomCall' \in GeomCalls
<1>1. /\ geomCall' \in GeomCalls
      /\ geomCall'.phase = IF i = 1 THEN "first" ELSE "both"
      /\ geomCall'.handle[i] = h
      /\ i = 2 => geomCall'.handle[1] = geomCall.handle[1]
  BY FetchedType DEF GeomInv, GeomTypeOK
<1>2. CASE i = 1  BY <1>1, <1>2 DEF HandlesOK, HandleOK, UsingOK
<1>3. CASE i = 2
  <2>1. HandleOK(geomMem, geomCall.handle[1], Toast(1))  BY <1>3 DEF GeomInv, HandlesOK
  <2>2. Keeps(geomMem, geomMem', Toast(1))
    BY <1>3, SlotNames DEF Toast, Args
  <2>3. HandleOK(geomMem', geomCall.handle[1], Toast(1))
    BY <2>1, <2>2 DEF HandleOK, Keeps
  <2>4. QED  BY <1>1, <1>3, <2>3 DEF HandlesOK, HandleOK, UsingOK
<1>4. QED  BY <1>2, <1>3 DEF Args

LEMMA DatumType ==
  ASSUME NEW d \in Datums
  PROVE  d.value \in Values /\ d.key \in Keys \cup {0}
  BY GeomCacheAssumption DEF Datums, Values

LEMMA ToastInv ==
  ASSUME GeomInv, NEW i \in Args, NEW d \in Datums, ToastCacheGetGeometry(i, d)
  PROVE  GeomInv'
<1> DEFINE slot == Toast(i)
<1>1. /\ geomCall.phase = IF i = 1 THEN "idle" ELSE "first"
      /\ UNCHANGED <<site, argnum, index, leftover>>
  BY DEF ToastCacheGetGeometry
<1>2. slot \in Slots /\ d.value \in Values /\ d.key \in Keys \cup {0}
  BY SlotNames, DatumType
<1>3. ASSUME NEW h \in Handles, geomCall' = Fetched(i, h), UNCHANGED <<geomMem, toastKey>>,
             HandleOK(geomMem, h, slot)
      PROVE  GeomInv'
  <2>1. HandlesOK' /\ UsingOK' /\ geomCall' \in GeomCalls
    BY <1>1, <1>3, HandlesKept DEF Keeps
  <2>2. GeomTypeOK'  BY <1>1, <1>3, <2>1 DEF GeomInv, GeomTypeOK
  <2>3. ToastOK'  BY <1>3 DEF GeomInv, ToastOK
  <2>4. \A k \in Kinds : IndexOK(k)'  BY <1>1, <1>3 DEF GeomInv, IndexOK
  <2>5. QED  BY <1>3, <2>1, <2>2, <2>3, <2>4 DEF GeomInv, MemOK, HoldersIn
<1>4. CASE d.key = 0 /\ geomCall' = Fetched(i, Handle(NoObj, d.value))
           /\ UNCHANGED <<geomMem, toastKey>>
  <2>1. Handle(NoObj, d.value) \in Handles /\ HandleOK(geomMem, Handle(NoObj, d.value), slot)
    BY <1>2 DEF Handle, Handles, HandleOK
  <2>2. QED  BY <1>3, <1>4, <2>1
<1>5. CASE /\ d.key # 0 /\ d.key = toastKey[i]
           /\ geomCall' = Fetched(i, Handle(geomMem.held[slot],
                                             geomMem.heap[geomMem.held[slot]].value))
           /\ UNCHANGED <<geomMem, toastKey>>
  <2> DEFINE o == geomMem.held[slot]
             h == Handle(o, geomMem.heap[o].value)
  <2>1. o # NoObj  BY <1>5 DEF GeomInv, ToastOK
  <2>2. o \in Objs  BY <1>2, <2>1 DEF GeomInv, MemOK, MemType
  <2>3. geomMem.heap[o].value \in Values  BY <1>2, <2>2, LiveHeld DEF GeomInv
  <2>4. h \in Handles /\ HandleOK(geomMem, h, slot)
    BY <2>2, <2>3 DEF Handle, Handles, HandleOK
  <2>5. geomCall' = Fetched(i, h) /\ UNCHANGED <<geomMem, toastKey>>  BY <1>5
  <2> HIDE DEF h
  <2>6. QED  BY <1>3, <2>4, <2>5
<1>6. CASE /\ d.key # 0 /\ d.key # toastKey[i]
           /\ Room(geomMem.heap, slot)
           /\ geomMem' = Store(geomMem, slot, Handle(NoObj, d.value))
           /\ toastKey' = [toastKey EXCEPT ![i] = d.key]
           /\ geomCall' = Fetched(i, Handle(geomMem'.held[slot], d.value))
  <2> DEFINE h == Handle(NoObj, d.value)
             c == Handle(geomMem'.held[slot], d.value)
  <2>1. PICK t \in Slots \ {slot} : TRUE  BY SlotNames DEF Toast, Kinds
  <2>2. HandleOK(geomMem, h, t) /\ h # NoHandle
    BY <1>2 DEF Handle, Handles, HandleOK, NoHandle
  <2> HIDE DEF h
  <2>3. /\ MemOK(geomMem')
        /\ geomMem'.held[slot] # NoObj
        /\ geomMem'.heap[geomMem'.held[slot]].value = h.value
        /\ \A u \in Slots \ {slot} : Keeps(geomMem, geomMem', u)
    <3>1. geomMem' = Store(geomMem, slot, h)  BY <1>6 DEF h
    <3>2. QED  BY <1>2, <1>6, <2>1, <2>2, <3>1, StoreOK DEF GeomInv
  <2>4. h.value = d.value  BY DEF h, Handle
  <2>5. c \in Handles /\ HandleOK(geomMem', c, slot) /\ geomCall' = Fetched(i, c)
    <3>1. geomMem'.held[slot] \in Objs  BY <1>2, <2>3 DEF MemOK, MemType
    <3>2. QED  BY <1>2, <1>6, <2>3, <2>4, <3>1 DEF Handle, Handles, HandleOK
  <2> HIDE DEF c
  <2>6. HandlesOK' /\ UsingOK' /\ geomCall' \in GeomCalls
    BY <1>1, <2>3, <2>5, HandlesKept
  <2>7. GeomTypeOK'
    <3>1. toastKey' \in [Args -> Keys \cup {0}]
      BY <1>2, <1>6 DEF GeomInv, GeomTypeOK
    <3>2. QED  BY <1>1, <2>3, <2>6, <3>1 DEF GeomInv, GeomTypeOK, MemOK, MemType
  <2>8. ToastOK'
    <3>1. ASSUME NEW j \in Args, toastKey'[j] # 0  PROVE geomMem'.held[Toast(j)] # NoObj
      <4>1. CASE j = i  BY <2>3, <4>1
      <4>2. CASE j # i
        <5>1. toastKey'[j] = toastKey[j]  BY <1>6, <4>2 DEF GeomInv, GeomTypeOK
        <5>2. Toast(j) \in Slots \ {slot}  BY <4>2, SlotNames DEF Toast
        <5>3. QED  BY <2>3, <3>1, <5>1, <5>2 DEF GeomInv, ToastOK, Keeps
      <4>3. QED  BY <4>1, <4>2
    <3>2. QED  BY <3>1 DEF ToastOK
  <2>9. ASSUME NEW k \in Kinds  PROVE IndexOK(k)'
    <3>1. \A j \in Args : Keeps(geomMem, geomMem', <<k, j>>)
      BY <2>3, SlotNames
    <3>2. QED  BY <1>1, <3>1, IndexKept DEF GeomInv
  <2>10. QED  BY <2>3, <2>6, <2>7, <2>8, <2>9 DEF GeomInv, MemOK, HoldersIn
<1>7. QED  BY <1>4, <1>5, <1>6 DEF ToastCacheGetGeometry, Toast

\* What an Ask passes to GetGeomCache: handles of the call, and an argument
\* whose handle is the one the cache finds.
GivenOK(k, g, arg) ==
  /\ \A i \in Args : g[i] = NoHandle \/ \E j \in Args : HandleOK(geomMem, g[i], Toast(j))
  /\ Hit(k, g) # 0 =>
       /\ arg \in Args
       /\ geomCall.handle[arg] \in Handles
       /\ geomCall.handle[arg].value = g[Hit(k, g)].value

LEMMA HitMatches ==
  ASSUME NEW k, NEW g, Hit(k, g) # 0
  PROVE  Hit(k, g) \in Args /\ Matches(k, g, Hit(k, g))
  BY DEF Hit, Args

LEMMA UsesType ==
  ASSUME NEW k \in Kinds, NEW arg \in Args, geomCall.handle[arg] \in Handles
  PROVE  /\ Uses(k, arg) \in GeomCalls
         /\ Uses(k, arg).phase = "using"
         /\ Uses(k, arg).kind = k
         /\ Uses(k, arg).value = geomCall.handle[arg].value
  BY DEF Uses, GeomCalls, Handles

LEMMA ReadyInv ==
  ASSUME GeomInv, NEW k \in Kinds, NEW g, NEW arg, GivenOK(k, g, arg), Ready(k, g, arg)
  PROVE  GeomInv'
<1> DEFINE h == Hit(k, g)
           o == geomMem.held[<<k, h>>]
<1>1. /\ h # 0 /\ argnum[k] # 0 /\ geomCall' = Uses(k, arg)
      /\ UNCHANGED <<site, geomMem, toastKey, argnum, index, leftover>>
  BY DEF Ready
<1>2. h \in Args /\ Matches(k, g, h)  BY <1>1, HitMatches
<1>3. argnum[k] = h
  <2>1. argnum[k] \in Args /\ argnum[k] # 3 - h
    BY <1>1, <1>2 DEF GeomInv, GeomTypeOK, Matches
  <2>2. QED  BY <1>2, <2>1 DEF Args
<1>4. g[h].value = geomMem.heap[o].value  BY <1>2 DEF Matches
<1>5. index[k].value = g[h].value
  <2>1. IndexOK(k)  BY DEF GeomInv
  <2>2. QED  BY <1>1, <1>3, <1>4, <2>1 DEF IndexOK
<1>6. /\ geomCall' \in GeomCalls /\ geomCall'.phase = "using" /\ geomCall'.kind = k
      /\ geomCall'.value = g[h].value
  BY <1>1, UsesType DEF GivenOK
<1>7. UsingOK' /\ HandlesOK'  BY <1>1, <1>5, <1>6 DEF UsingOK, HandlesOK
<1>8. GeomTypeOK'  BY <1>1, <1>6 DEF GeomInv, GeomTypeOK
<1>9. ToastOK' /\ \A q \in Kinds : IndexOK(q)'
  BY <1>1 DEF GeomInv, ToastOK, IndexOK
<1>10. QED  BY <1>1, <1>7, <1>8, <1>9 DEF GeomInv, MemOK, HoldersIn

LEMMA BuildInv ==
  ASSUME GeomInv, NEW k \in Kinds, NEW g, NEW arg, GivenOK(k, g, arg), Build(k, g, arg)
  PROVE  GeomInv'
<1> DEFINE h == Hit(k, g)
           o == geomMem.held[<<k, h>>]
           x == [obj |-> o, value |-> geomMem.heap[o].value]
<1>1. /\ h # 0 /\ argnum[k] = 0 /\ geomCall' = Uses(k, arg)
      /\ argnum' = [argnum EXCEPT ![k] = h]
      /\ index' = [index EXCEPT ![k] = x]
      /\ UNCHANGED <<site, geomMem, toastKey, leftover>>
  BY DEF Build
<1>2. h \in Args /\ Matches(k, g, h) /\ <<k, h>> \in Slots
  BY <1>1, HitMatches, SlotNames
<1>3. o \in Objs /\ o # NoObj /\ g[h].value = geomMem.heap[o].value
  BY <1>2 DEF Matches, GeomInv, MemOK, MemType
<1>4. x \in [obj : Objs, value : Values] /\ x # NoIndex
      /\ x.obj = o /\ x.value = geomMem.heap[o].value
  <2>1. geomMem.heap[o].value \in Values  BY <1>2, <1>3, LiveHeld DEF GeomInv
  <2>2. QED  BY <1>3, <2>1 DEF NoIndex
<1>5. /\ geomCall' \in GeomCalls /\ geomCall'.phase = "using" /\ geomCall'.kind = k
      /\ geomCall'.value = g[h].value
  BY <1>1, UsesType DEF GivenOK
<1> HIDE DEF x, h
<1>6. argnum \in [Kinds -> Args \cup {0}]
      /\ index \in [Kinds -> {NoIndex} \cup [obj : Objs, value : Values]]
  BY DEF GeomInv, GeomTypeOK
<1>7. argnum'[k] = h /\ index'[k] = x
      /\ \A q \in Kinds \ {k} : argnum'[q] = argnum[q] /\ index'[q] = index[q]
  BY <1>1, <1>6
<1>8. /\ argnum' \in [Kinds -> Args \cup {0}]
      /\ index' \in [Kinds -> {NoIndex} \cup [obj : Objs, value : Values]]
  BY <1>1, <1>2, <1>4, <1>6
<1>9. UsingOK' /\ HandlesOK'
  BY <1>1, <1>3, <1>4, <1>5, <1>7 DEF UsingOK, HandlesOK
<1>10. GeomTypeOK'  BY <1>1, <1>5, <1>8 DEF GeomInv, GeomTypeOK
<1>11. ASSUME NEW q \in Kinds  PROVE IndexOK(q)'
  <2>1. CASE q = k  BY <1>1, <1>3, <1>4, <1>7, <2>1 DEF IndexOK
  <2>2. CASE q # k  BY <1>1, <1>7, <2>2, IndexKept DEF GeomInv, Keeps
  <2>3. QED  BY <2>1, <2>2
<1>12. ToastOK'  BY <1>1 DEF GeomInv, ToastOK
<1>13. QED  BY <1>1, <1>9, <1>10, <1>11, <1>12 DEF GeomInv, MemOK, HoldersIn

LEMMA MissInv ==
  ASSUME GeomInv, NEW k \in Kinds, NEW g, NEW arg, GivenOK(k, g, arg), Miss(k, g)
  PROVE  GeomInv'
<1> DEFINE s1 == <<k, 1>>
           s2 == <<k, 2>>
           n == Store(geomMem, s1, g[1])
<1>1. /\ argnum' = [argnum EXCEPT ![k] = 0]
      /\ index' = [index EXCEPT ![k] = NoIndex]
      /\ Room(geomMem.heap, s1) /\ Room(geomMem.heap, s2)
      /\ geomMem' = Store(n, s2, g[2])
      /\ geomCall' = NoCall
      /\ UNCHANGED <<site, toastKey, leftover>>
  BY DEF Miss, Args
<1>2. s1 \in Slots /\ s2 \in Slots /\ s1 # s2
      /\ \A j \in Args : Toast(j) \in Slots /\ Toast(j) # s1 /\ Toast(j) # s2
  BY SlotNames DEF Args
<1>3. PICK t1 \in Slots \ {s1, s2} : g[1] = NoHandle \/ HandleOK(geomMem, g[1], t1)
  <2>1. g[1] = NoHandle \/ \E j \in Args : HandleOK(geomMem, g[1], Toast(j))
    BY DEF GivenOK, Args
  <2>2. CASE g[1] = NoHandle  BY <1>2, <2>2 DEF Args
  <2>3. CASE g[1] # NoHandle  BY <1>2, <2>1, <2>3
  <2>4. QED  BY <2>2, <2>3
<1>4. PICK t2 \in Slots \ {s1, s2} : g[2] = NoHandle \/ HandleOK(geomMem, g[2], t2)
  <2>1. g[2] = NoHandle \/ \E j \in Args : HandleOK(geomMem, g[2], Toast(j))
    BY DEF GivenOK, Args
  <2>2. CASE g[2] = NoHandle  BY <1>2, <2>2 DEF Args
  <2>3. CASE g[2] # NoHandle  BY <1>2, <2>1, <2>3
  <2>4. QED  BY <2>2, <2>3
<1> HIDE DEF s1, s2
<1>5. /\ MemOK(n)
      /\ \A u \in Slots \ {s1} : Keeps(geomMem, n, u)
      /\ \A u \in Slots \ {s1} : Room(geomMem.heap, u) => Room(n.heap, u)
  <2>1. MemOK(geomMem)  BY DEF GeomInv
  <2>2. QED  BY <1>1, <1>2, <1>3, <2>1, StoreOK
<1> HIDE DEF n
<1>6. g[2] = NoHandle \/ HandleOK(n, g[2], t2)
  BY <1>4, <1>5 DEF HandleOK, Keeps
<1>7. /\ MemOK(geomMem')
      /\ \A u \in Slots \ {s2} : Keeps(n, geomMem', u)
  BY <1>1, <1>2, <1>4, <1>5, <1>6, StoreOK
<1>8. \A u \in Slots \ {s1, s2} : Keeps(geomMem, geomMem', u)
  BY <1>5, <1>7 DEF Keeps
<1>9. argnum \in [Kinds -> Args \cup {0}]
      /\ index \in [Kinds -> {NoIndex} \cup [obj : Objs, value : Values]]
  BY DEF GeomInv, GeomTypeOK
<1>10. argnum'[k] = 0
       /\ \A q \in Kinds \ {k} : argnum'[q] = argnum[q] /\ index'[q] = index[q]
  BY <1>1, <1>9
<1>11. ASSUME NEW q \in Kinds  PROVE IndexOK(q)'
  <2>1. CASE q = k  BY <1>10, <2>1 DEF IndexOK
  <2>2. CASE q # k
    <3>1. \A j \in Args : Keeps(geomMem, geomMem', <<q, j>>)
      BY <1>8, <2>2, SlotNames DEF s1, s2
    <3>2. QED  BY <1>10, <2>2, <3>1, IndexKept DEF GeomInv
  <2>3. QED  BY <2>1, <2>2
<1>12. ToastOK'
  <2>1. ASSUME NEW j \in Args, toastKey[j] # 0  PROVE geomMem'.held[Toast(j)] # NoObj
    BY <1>2, <1>8, <2>1 DEF GeomInv, ToastOK, Keeps
  <2>2. QED  BY <1>1, <2>1 DEF ToastOK
<1>13. GeomTypeOK'
  <2>1. /\ argnum' \in [Kinds -> Args \cup {0}]
        /\ index' \in [Kinds -> {NoIndex} \cup [obj : Objs, value : Values]]
    BY <1>1, <1>9
  <2>2. geomCall' \in GeomCalls  BY <1>1 DEF GeomCalls
  <2>3. QED  BY <1>1, <1>7, <2>1, <2>2 DEF GeomInv, GeomTypeOK, MemOK, MemType
<1>14. HandlesOK' /\ UsingOK'  BY <1>1 DEF HandlesOK, UsingOK, NoCall
<1>15. QED  BY <1>7, <1>11, <1>12, <1>13, <1>14 DEF GeomInv, MemOK, HoldersIn

LEMMA CacheInv ==
  ASSUME GeomInv, NEW k \in Kinds, NEW g, NEW arg, GivenOK(k, g, arg), GetGeomCache(k, g, arg)
  PROVE  GeomInv'
  BY ReadyInv, BuildInv, MissInv DEF GetGeomCache

\* When both arguments are fetched, each handle is one of its toast slot.
LEMMA BothFetched ==
  ASSUME GeomInv, AllFetched
  PROVE  \A i \in Args : /\ HandleOK(geomMem, geomCall.handle[i], Toast(i))
                         /\ geomCall.handle[i] \in Handles
  BY DEF AllFetched, GeomInv, HandlesOK, HandleOK, Args

LEMMA JustOneHit ==
  ASSUME NEW k, NEW h
  PROVE  /\ Hit(k, JustOne(h)) \in {0, 1}
         /\ JustOne(h)[1] = h /\ JustOne(h)[2] = NoHandle
<1>1. JustOne(h)[1] = h /\ JustOne(h)[2] = NoHandle  BY DEF JustOne, Args
<1>2. ~Matches(k, JustOne(h), 2)  BY <1>1 DEF Matches
<1>3. QED  BY <1>1, <1>2 DEF Hit

\* The R-tree of the only polygon.
LEMMA RtreeInv ==
  ASSUME GeomInv, AllFetched, NEW i \in Args, AskRtree(i)
  PROVE  GeomInv'
<1> DEFINE h == geomCall.handle[i]
           g == JustOne(h)
<1>1. GetGeomCache("rtree", g, i)  BY DEF AskRtree
<1>2. HandleOK(geomMem, h, Toast(i)) /\ h \in Handles  BY BothFetched
<1>3. Hit("rtree", g) \in {0, 1} /\ g[1] = h /\ g[2] = NoHandle  BY JustOneHit
<1> HIDE DEF g
<1>4. GivenOK("rtree", g, i)  BY <1>2, <1>3 DEF GivenOK, Args
<1>5. QED  BY <1>1, <1>4, CacheInv DEF Kinds

\* The prepared geometry: the caller reads from argnum which argument it is of.
LEMMA PrepInv ==
  ASSUME GeomInv, AllFetched, AskPrep
  PROVE  GeomInv'
<1> DEFINE g == IF site = "contains" THEN JustOne(geomCall.handle[1]) ELSE geomCall.handle
           hit == Hit("prep", g)
           arg == IF argnum["prep"] # 0 THEN argnum["prep"] ELSE hit
<1>1. GetGeomCache("prep", g, arg) \/ CannotPrepare(g) \/ RefusesToPrepare(g)
  BY DEF AskPrep
<1>2. CASE GetGeomCache("prep", g, arg)
  <2>1. \A i \in Args : /\ HandleOK(geomMem, geomCall.handle[i], Toast(i))
                        /\ geomCall.handle[i] \in Handles
    BY BothFetched
  <2>2. /\ g[1] = geomCall.handle[1]
        /\ g[2] \in {NoHandle, geomCall.handle[2]}
    BY JustOneHit
  <2>3. hit # 0 => hit \in Args /\ Matches("prep", g, hit)  BY HitMatches
  <2> HIDE DEF g, hit
  <2>4. hit # 0 => arg = hit
    <3>1. argnum["prep"] \in {0, 1, 2}  BY DEF GeomInv, GeomTypeOK, Kinds, Args
    <3>2. QED  BY <2>3, <3>1 DEF Matches, Args
  <2>5. hit # 0 => g[hit] = geomCall.handle[hit]
    BY <2>2, <2>3 DEF Matches, Args
  <2>6. \A i \in Args : g[i] = NoHandle \/ \E j \in Args : HandleOK(geomMem, g[i], Toast(j))
    BY <2>1, <2>2 DEF Args
  <2>7. GivenOK("prep", g, arg)
    BY <2>1, <2>3, <2>4, <2>5, <2>6 DEF GivenOK, hit
  <2>8. QED  BY <1>2, <2>7, CacheInv DEF Kinds
<1>3. CASE CannotPrepare(g)  BY <1>3, CallOverInv DEF CannotPrepare
<1>4. CASE RefusesToPrepare(g)  BY <1>4, QueryEndsInv DEF RefusesToPrepare
<1>5. QED  BY <1>1, <1>2, <1>3, <1>4

LEMMA GeomStepInv ==
  ASSUME GeomInv, [GeomNext]_geomVars
  PROVE  GeomInv'
<1>0. leftover \in BOOLEAN  BY DEF GeomInv, GeomTypeOK
<1>1. CASE \E i \in Args, d \in Datums : ToastCacheGetGeometry(i, d)
  BY <1>1, ToastInv
<1>2. CASE ShortCircuit  BY <1>0, <1>2, CallOverInv DEF ShortCircuit
<1>3. CASE CallReturns  BY <1>0, <1>3, CallOverInv DEF CallReturns
<1>4. CASE Ask  BY <1>4, RtreeInv, PrepInv DEF Ask
<1>5. CASE EndQuery  BY <1>5, QueryEndsInv DEF EndQuery
<1>6. CASE UNCHANGED geomVars
  BY <1>6 DEF GeomInv, GeomTypeOK, MemOK, MemType, HoldersIn, ToastOK, HandlesOK, HandleOK,
              IndexOK, UsingOK, geomVars
<1>7. QED  BY <1>1, <1>2, <1>3, <1>4, <1>5, <1>6 DEF GeomNext

-----------------------------------------------------------------------------
LEMMA GeomInvariant == GeomSpec => []GeomInv
<1>1. GeomInit => GeomInv  BY EmptyInv DEF GeomInit
<1>2. GeomInv /\ [GeomNext]_geomVars => GeomInv'  BY GeomStepInv
<1>3. QED  BY <1>1, <1>2, PTL DEF GeomSpec

\* The caches hold what their declarations say: ToastCacheGetGeometry,
\* GetGeomCache and the builders of the two indexes never store a handle, a
\* count or an argument number out of range.
THEOREM GeomTypeCorrect == GeomSpec => []GeomTypeOK
  BY GeomInvariant, InvImplies, PTL

\* Sharing is counted exactly: shared_gserialized_ref and _unref are called in
\* pairs by the slots, so that a geometry lives just as long as a slot has it.
THEOREM GeomRefsAlwaysExact == GeomSpec => []GeomRefsExact
  BY GeomInvariant, InvImplies, PTL

\* GetGeomCache never hands out an index of another geometry than the one the
\* call asks about, and never one whose geometry was freed.
THEOREM GeomIndexAlwaysCurrent == GeomSpec => []GeomIndexCurrent
  BY GeomInvariant, InvImplies, PTL

-----------------------------------------------------------------------------
(* The index. *)

\* The box k leaves out nothing of the box b.
Covers(k, b) ==
  \/ b = EmptyBox
  \/ /\ k # EmptyBox
     /\ k.xmin <= b.xmin /\ k.xmax >= b.xmax
     /\ k.ymin <= b.ymin /\ k.ymax >= b.ymax

-----------------------------------------------------------------------------
(* Boxes. *)

LEMMA EmptyIsNoBox == EmptyBox \notin BOX2DF
  BY SMT DEF EmptyBox, BOX2DF

LEMMA MergeCovers ==
  ASSUME NEW a \in Keys2D, NEW b \in Keys2D
  PROVE  /\ box2df_merge(a, b) \in Keys2D
         /\ Covers(box2df_merge(a, b), a)
         /\ Covers(box2df_merge(a, b), b)
<1>1. CASE a = EmptyBox  BY <1>1 DEF box2df_merge, box2df_is_empty, Covers, Keys2D, BOX2DF
<1>2. CASE b = EmptyBox  BY <1>2 DEF box2df_merge, box2df_is_empty, Covers, Keys2D, BOX2DF
<1>3. CASE a # EmptyBox /\ b # EmptyBox
  <2> DEFINE m == [xmin |-> Lesser(a.xmin, b.xmin), xmax |-> Greater(a.xmax, b.xmax),
                   ymin |-> Lesser(a.ymin, b.ymin), ymax |-> Greater(a.ymax, b.ymax)]
  <2>1. a \in BOX2DF /\ b \in BOX2DF  BY <1>3 DEF Keys2D
  <2>2. box2df_merge(a, b) = m  BY <1>3 DEF box2df_merge, box2df_is_empty
  <2>3. m \in BOX2DF  BY <2>1 DEF BOX2DF, Lesser, Greater
  <2>4. m # EmptyBox  BY <2>3, EmptyIsNoBox
  <2>5. /\ m.xmin <= a.xmin /\ m.xmax >= a.xmax /\ m.ymin <= a.ymin /\ m.ymax >= a.ymax
        /\ m.xmin <= b.xmin /\ m.xmax >= b.xmax /\ m.ymin <= b.ymin /\ m.ymax >= b.ymax
    BY <2>1 DEF BOX2DF, Lesser, Greater
  <2>6. QED  BY <2>2, <2>3, <2>4, <2>5 DEF Covers, Keys2D
<1>4. QED  BY <1>1, <1>2, <1>3

LEMMA CoversItself ==
  ASSUME NEW a \in Keys2D
  PROVE  Covers(a, a)
  BY DEF Covers, Keys2D, BOX2DF

LEMMA CoversCovers ==
  ASSUME NEW a \in Keys2D, NEW b \in Keys2D, NEW c \in Keys2D,
         Covers(a, b), Covers(b, c)
  PROVE  Covers(a, c)
  BY DEF Covers, Keys2D, BOX2DF

LEMMA WidenedCovers ==
  ASSUME NEW k \in Keys2D, NEW b \in Keys2D
  PROVE  /\ Widened(k, b) \in Keys2D
         /\ Covers(Widened(k, b), k)
         /\ Covers(Widened(k, b), b)
<1>1. Widened(k, b) = box2df_merge(k, b)  BY DEF Widened, box2df_equals
<1>2. QED  BY <1>1, MergeCovers

\* consistent never closes a page to a row below it that satisfies the operator.
LEMMA Admissible ==
  ASSUME NEW k \in Keys2D, NEW b \in BOX2DF, NEW q \in BOX2DF, NEW op \in Strategies,
         Covers(k, b), consistent_leaf(b, q, op)
  PROVE  consistent_internal(k, q, op)
<1>1. b # EmptyBox /\ q # EmptyBox  BY EmptyIsNoBox
<1>2. k # EmptyBox /\ k \in BOX2DF  BY <1>1 DEF Covers, Keys2D
<1>3. /\ k.xmin <= b.xmin /\ k.xmax >= b.xmax
      /\ k.ymin <= b.ymin /\ k.ymax >= b.ymax
  BY <1>1 DEF Covers
<1>4. NoneEmpty(k, q) /\ NoneEmpty(b, q) /\ NoneEmpty(q, b)
  BY <1>1, <1>2 DEF NoneEmpty, box2df_is_empty
<1>5. CASE op = "&&"
  <2>1. box2df_overlaps(b, q)  BY <1>5 DEF consistent_leaf
  <2>2. box2df_overlaps(k, q)
    BY <1>3, <1>4, <2>1, <1>2 DEF box2df_overlaps, BOX2DF
  <2>3. QED  BY <1>5, <2>2 DEF consistent_internal
<1>6. CASE op = "~="
  <2>1. box2df_equals(b, q)  BY <1>6 DEF consistent_leaf
  <2>2. box2df_contains(k, q)
    BY <1>3, <1>4, <2>1, <1>2 DEF box2df_contains, box2df_equals, BOX2DF
  <2>3. QED  BY <1>6, <2>2 DEF consistent_internal
<1>7. CASE op = "~"
  <2>1. box2df_contains(b, q)  BY <1>7 DEF consistent_leaf
  <2>2. box2df_contains(k, q)
    BY <1>3, <1>4, <2>1, <1>2 DEF box2df_contains, BOX2DF
  <2>3. QED  BY <1>7, <2>2 DEF consistent_internal
<1>8. CASE op = "@"
  <2>1. box2df_within(b, q)  BY <1>8 DEF consistent_leaf
  <2>2. box2df_overlaps(k, q)
    BY <1>3, <1>4, <2>1, <1>2 DEF box2df_contains, box2df_overlaps, box2df_within, BOX2DF
  <2>3. QED  BY <1>8, <2>2 DEF consistent_internal
<1>9. CASE op = "<<"
  <2>1. box2df_left(b, q)  BY <1>9 DEF consistent_leaf
  <2>2. ~box2df_overright(k, q)
    BY <1>3, <1>4, <2>1, <1>2 DEF box2df_left, box2df_overright, BOX2DF
  <2>3. QED  BY <1>9, <2>2 DEF consistent_internal
<1>10. CASE op = "&<"
  <2>1. box2df_overleft(b, q)  BY <1>10 DEF consistent_leaf
  <2>2. ~box2df_right(k, q)
    BY <1>3, <1>4, <2>1, <1>2 DEF box2df_overleft, box2df_right, BOX2DF
  <2>3. QED  BY <1>10, <2>2 DEF consistent_internal
<1>11. CASE op = ">>"
  <2>1. box2df_right(b, q)  BY <1>11 DEF consistent_leaf
  <2>2. ~box2df_overleft(k, q)
    BY <1>3, <1>4, <2>1, <1>2 DEF box2df_overleft, box2df_right, BOX2DF
  <2>3. QED  BY <1>11, <2>2 DEF consistent_internal
<1>12. CASE op = "&>"
  <2>1. box2df_overright(b, q)  BY <1>12 DEF consistent_leaf
  <2>2. ~box2df_left(k, q)
    BY <1>3, <1>4, <2>1, <1>2 DEF box2df_left, box2df_overright, BOX2DF
  <2>3. QED  BY <1>12, <2>2 DEF consistent_internal
<1>13. CASE op = "<<|"
  <2>1. box2df_below(b, q)  BY <1>13 DEF consistent_leaf
  <2>2. ~box2df_overabove(k, q)
    BY <1>3, <1>4, <2>1, <1>2 DEF box2df_below, box2df_overabove, BOX2DF
  <2>3. QED  BY <1>13, <2>2 DEF consistent_internal
<1>14. CASE op = "&<|"
  <2>1. box2df_overbelow(b, q)  BY <1>14 DEF consistent_leaf
  <2>2. ~box2df_above(k, q)
    BY <1>3, <1>4, <2>1, <1>2 DEF box2df_above, box2df_overbelow, BOX2DF
  <2>3. QED  BY <1>14, <2>2 DEF consistent_internal
<1>15. CASE op = "|>>"
  <2>1. box2df_above(b, q)  BY <1>15 DEF consistent_leaf
  <2>2. ~box2df_overbelow(k, q)
    BY <1>3, <1>4, <2>1, <1>2 DEF box2df_above, box2df_overbelow, BOX2DF
  <2>3. QED  BY <1>15, <2>2 DEF consistent_internal
<1>16. CASE op = "|&>"
  <2>1. box2df_overabove(b, q)  BY <1>16 DEF consistent_leaf
  <2>2. ~box2df_below(k, q)
    BY <1>3, <1>4, <2>1, <1>2 DEF box2df_below, box2df_overabove, BOX2DF
  <2>3. QED  BY <1>16, <2>2 DEF consistent_internal
<1>17. QED
  BY <1>5, <1>6, <1>7, <1>8, <1>9, <1>10, <1>11, <1>12, <1>13, <1>14, <1>15, <1>16 DEF Strategies

LEMMA SquaresGrow ==
  ASSUME NEW x \in Nat, NEW y \in Nat, x <= y
  PROVE  x * x <= y * y
  BY SMT

LEMMA GapsShrink ==
  ASSUME NEW k \in BOX2DF, NEW b \in BOX2DF, NEW q \in BOX2DF, Covers(k, b)
  PROVE  DistanceSquared(k, q) <= DistanceSquared(b, q)
<1> DEFINE kx == Gap(k.xmin, k.xmax, q.xmin, q.xmax)
           ky == Gap(k.ymin, k.ymax, q.ymin, q.ymax)
           bx == Gap(b.xmin, b.xmax, q.xmin, q.xmax)
           by == Gap(b.ymin, b.ymax, q.ymin, q.ymax)
<1>1. b # EmptyBox  BY EmptyIsNoBox
<1>2. kx \in Nat /\ bx \in Nat /\ kx <= bx
  BY <1>1 DEF Covers, Gap, Greater, BOX2DF
<1>3. ky \in Nat /\ by \in Nat /\ ky <= by
  BY <1>1 DEF Covers, Gap, Greater, BOX2DF
<1> HIDE DEF kx, ky, bx, by
<1>4. kx * kx <= bx * bx /\ ky * ky <= by * by  BY <1>2, <1>3, SquaresGrow
<1>5. kx * kx \in Int /\ bx * bx \in Int /\ ky * ky \in Int /\ by * by \in Int
  BY <1>2, <1>3
<1>6. kx * kx + ky * ky <= bx * bx + by * by  BY <1>4, <1>5
<1>7. QED  BY <1>6 DEF DistanceSquared, kx, ky, bx, by

-----------------------------------------------------------------------------
(***************************************************************************)
(* The tree: its links, the keys of its rows, and that no key of a page    *)
(* leaves out a row below it.                                              *)
(***************************************************************************)
TreeOK ==
  /\ top \in PageIds
  /\ parent \in [Entries -> PageIds \cup {NoPage}]
  /\ key \in [Entries -> Keys2D]
  /\ under \in [PageIds -> SUBSET IndexRows]
  /\ \A p \in PageIds : under[p] = RowsOf(On(p))
  /\ parent[top] = NoPage
  /\ \A x \in Entries : InTree(x) => parent[x] \in Pages /\ parent[x] # x
  /\ \A p \in PageIds : \A r \in under[p] : InTree(r)
  /\ \A r \in IndexRows : InTree(r) => key[r] = BoxOf[r]

RowsCovered ==
  \A p \in PageIds \ {top} : \A r \in under[p] : Covers(key[p], BoxOf[r])

\* The row has widened the keys of all pages that it went down through.
DescentOK ==
  gist.op = "descend" =>
    /\ ~InTree(gist.row)
    /\ gist.page \in gist.path
    /\ gist.path \subseteq Pages
    /\ \A c \in gist.path \ {top} : parent[c] \in gist.path
    /\ \A p \in gist.path \ {gist.page} : \E c \in gist.path : parent[c] = p
    /\ \A p \in gist.path \ {top} : Covers(key[p], BoxOf[gist.row])

OverfullOK ==
  gist.op = "overfull" =>
    /\ gist.page \in Pages
    /\ Cardinality(On(gist.page)) >= 2

BoxCovers(group) == \A x \in group.items : Covers(group.box, key[x])

Disjoint(A, B) == A \cap B = {}

\* Each entry of the page is somewhere, and only there.
Sorted ==
  /\ On(gist.page) = gist.todo \cup gist.common \cup gist.left.items \cup gist.right.items
  /\ Disjoint(gist.todo, gist.common)
  /\ Disjoint(gist.todo, gist.left.items) /\ Disjoint(gist.todo, gist.right.items)
  /\ Disjoint(gist.common, gist.left.items) /\ Disjoint(gist.common, gist.right.items)
  /\ Disjoint(gist.left.items, gist.right.items)

\* What the left group has or may still get, and the right one.
LeftSide ==
  {x \in On(gist.page) \ gist.right.items : FitsLeft(key[x], gist.split)}

RightSide ==
  {x \in On(gist.page) \ gist.left.items : FitsRight(key[x], gist.split)}

\* By a split: an entry is on a side it fits on, and both sides can be filled.
BySplit ==
  /\ gist.split # Halves =>
       /\ \A x \in On(gist.page) : FitsLeft(key[x], gist.split) \/ FitsRight(key[x], gist.split)
       /\ \A x \in gist.left.items : FitsLeft(key[x], gist.split)
       /\ \A x \in gist.right.items : FitsRight(key[x], gist.split)
       /\ \A x \in gist.common : FitsLeft(key[x], gist.split) /\ FitsRight(key[x], gist.split)
       /\ Cardinality(LeftSide) >= Limit(Cardinality(On(gist.page)))
       /\ Cardinality(RightSide) >= Limit(Cardinality(On(gist.page)))

\* By halves: the left group gets the first one.
ByHalves ==
  gist.split = Halves =>
    LET half == Cardinality(On(gist.page)) \div 2
    IN  /\ gist.common = {}
        /\ Cardinality(gist.left.items) <= half
        /\ gist.right.items # {} => Cardinality(gist.left.items) = half

SplitOK ==
  gist.op = "split" =>
    /\ gist.page \in Pages
    /\ Cardinality(On(gist.page)) >= 2
    /\ Sorted
    /\ BoxCovers(gist.left) /\ BoxCovers(gist.right)
    /\ BySplit
    /\ ByHalves

GistInv ==
  /\ gist \in Insertions
  /\ TreeOK /\ RowsCovered
  /\ DescentOK /\ OverfullOK /\ SplitOK

-----------------------------------------------------------------------------
(* The tree stays as it is while an entry is looked for a place. *)

LEMMA UnionHas ==
  ASSUME NEW f, NEW S, NEW x
  PROVE  x \in UNION {f[c] : c \in S} <=> \E c \in S : x \in f[c]
  OBVIOUS

LEMMA OnType ==
  ASSUME NEW p
  PROVE  On(p) \subseteq Entries /\ IsFiniteSet(On(p)) /\ Cardinality(On(p)) \in Nat
<1>1. On(p) \subseteq Entries  BY DEF On
<1>2. IsFiniteSet(Entries)  BY GistAssumption
<1>3. QED  BY <1>1, <1>2, FS_Subset, FS_CardinalityType

LEMMA TreeStays ==
  ASSUME TreeOK, RowsCovered, UNCHANGED <<top, parent, key, under>>
  PROVE  /\ TreeOK' /\ RowsCovered'
         /\ Pages' = Pages
         /\ \A p : On(p)' = On(p)
         /\ \A x : InTree(x)' = InTree(x)
  BY DEF TreeOK, RowsCovered, Pages, On, InTree, RowsOf

LEMMA OpOf ==
  ASSUME gist \in Insertions
  PROVE  /\ gist.op = "descend" =>
              gist \in [op : {"descend"}, row : IndexRows, page : PageIds, path : SUBSET PageIds]
         /\ gist.op = "overfull" => gist \in [op : {"overfull"}, page : PageIds]
         /\ gist.op = "split" =>
              gist \in [op : {"split"}, page : PageIds,
                        split : {Halves} \cup [axis : Axes, leftUpper : Int, rightLower : Int],
                        todo : SUBSET Entries, common : SUBSET Entries,
                        left : Groups, right : Groups]
  BY DEF Insertions, NoInsertion

LEMMA InsertInv ==
  ASSUME GistInv, NEW r \in IndexRows, GistInsert(r)
  PROVE  GistInv'
<1>1. TreeOK /\ RowsCovered /\ ~InTree(r) /\ gist' = Descent(r, top, {top})
      /\ UNCHANGED <<top, parent, key, under>>
  BY DEF GistInv, GistInsert
<1>2. TreeOK' /\ RowsCovered' /\ Pages' = Pages /\ InTree(r)' = InTree(r)
  BY <1>1, TreeStays
<1>3. gist' \in Insertions  BY <1>1 DEF Insertions, Descent, TreeOK
<1>4. DescentOK'
  <2>1. /\ gist'.row = r /\ gist'.page = top /\ gist'.path = {top}
    BY <1>1 DEF Descent
  <2>2. top \in Pages  BY <1>1 DEF Pages, TreeOK
  <2>3. QED  BY <1>1, <1>2, <2>1, <2>2 DEF DescentOK
<1>5. gist'.op = "descend"  BY <1>1 DEF Descent
<1>6. OverfullOK' /\ SplitOK'  BY <1>5 DEF OverfullOK, SplitOK
<1>7. QED  BY <1>2, <1>3, <1>4, <1>6 DEF GistInv

LEMMA DescendInv ==
  ASSUME GistInv, NEW e \in PageIds, Descend(e)
  PROVE  GistInv'
<1> DEFINE row == gist.row  path == gist.path  page == gist.page
<1>1. /\ TreeOK /\ RowsCovered /\ gist.op = "descend" /\ DescentOK
      /\ parent[e] = page /\ gist' = Descent(row, e, path \cup {e})
      /\ key' = [key EXCEPT ![e] = Widened(key[e], BoxOf[row])]
      /\ UNCHANGED <<top, parent, under>>
  BY DEF GistInv, Descend
<1>2. row \in IndexRows /\ page \in PageIds /\ path \subseteq PageIds
  BY <1>1, OpOf DEF GistInv
<1>3. BoxOf[row] \in Keys2D  BY <1>2, GistAssumption DEF Keys2D
<1>4. key[e] \in Keys2D /\ e \in Entries  BY <1>1 DEF TreeOK, Entries
<1>5. /\ key'[e] \in Keys2D
      /\ Covers(key'[e], key[e]) /\ Covers(key'[e], BoxOf[row])
      /\ \A x \in Entries \ {e} : key'[x] = key[x]
  BY <1>1, <1>3, <1>4, WidenedCovers DEF TreeOK
<1>6. Pages' = Pages /\ \A p : On(p)' = On(p)  BY <1>1 DEF Pages, On, InTree
<1>7. TreeOK'
  <2>1. key' \in [Entries -> Keys2D]  BY <1>1, <1>4, <1>5 DEF TreeOK
  <2>2. \A r \in IndexRows : r \in Entries \ {e}  BY GistAssumption DEF Entries
  <2>3. \A r \in IndexRows : InTree(r) => key'[r] = BoxOf[r]  BY <1>1, <1>5, <2>2 DEF TreeOK
  <2>4. QED  BY <1>1, <2>1, <2>3 DEF TreeOK, InTree, RowsOf, Pages, On
<1>8. RowsCovered'
  <2> SUFFICES ASSUME NEW p \in PageIds \ {top}, NEW r \in under[p]
               PROVE  Covers(key'[p], BoxOf[r])
    BY <1>1 DEF RowsCovered
  <2>1. Covers(key[p], BoxOf[r])  BY <1>1 DEF RowsCovered
  <2>2. CASE p # e  BY <1>5, <2>1, <2>2 DEF Entries
  <2>3. CASE p = e
    <3>1. r \in IndexRows /\ BoxOf[r] \in Keys2D  BY <1>1, GistAssumption DEF TreeOK, Keys2D
    <3>2. QED  BY <1>4, <1>5, <2>1, <2>3, <3>1, CoversCovers
  <2>4. QED  BY <2>2, <2>3
<1>9. gist' \in Insertions  BY <1>1, <1>2 DEF Insertions, Descent
<1>10. gist'.op = "descend" /\ gist'.row = row /\ gist'.page = e /\ gist'.path = path \cup {e}
  BY <1>1 DEF Descent
<1>11. page \in path /\ path \subseteq Pages /\ ~InTree(row)  BY <1>1 DEF DescentOK
<1>12. e \in Pages
  <2>1. page # NoPage  BY <1>2, GistAssumption DEF Entries
  <2>2. QED  BY <1>1, <2>1 DEF Pages, InTree
<1>13. DescentOK'
  <2>1. parent'[row] = NoPage  BY <1>1, <1>11 DEF InTree
  <2>2. \A c \in (path \cup {e}) \ {top} : parent[c] \in path \cup {e}
    BY <1>1, <1>11 DEF DescentOK
  <2>3. \A p \in (path \cup {e}) \ {e} : \E c \in path \cup {e} : parent[c] = p
    BY <1>1 DEF DescentOK
  <2>4. \A p \in (path \cup {e}) \ {top} : Covers(key'[p], BoxOf[row])
    <3> SUFFICES ASSUME NEW p \in (path \cup {e}) \ {top}
                 PROVE  Covers(key'[p], BoxOf[row])
      OBVIOUS
    <3>1. CASE p = e  BY <1>5, <3>1
    <3>2. CASE p # e
      <4>1. p \in path \ {top} /\ p \in Entries \ {e}  BY <1>2, <3>2 DEF Entries
      <4>2. Covers(key[p], BoxOf[row])  BY <1>1, <4>1 DEF DescentOK
      <4>3. QED  BY <1>5, <4>1, <4>2
    <3>3. QED  BY <3>1, <3>2
  <2>5. QED
    BY <1>1, <1>6, <1>10, <1>11, <1>12, <2>1, <2>2, <2>3, <2>4 DEF DescentOK, InTree
<1>14. OverfullOK' /\ SplitOK'  BY <1>10 DEF OverfullOK, SplitOK
<1>15. QED  BY <1>7, <1>8, <1>9, <1>13, <1>14 DEF GistInv

\* A page that is not in the tree has nothing on it or below it.
LEMMA UnusedEmpty ==
  ASSUME TreeOK, NEW p \in PageIds, p \notin Pages
  PROVE  p # top /\ parent[p] = NoPage /\ On(p) = {} /\ under[p] = {}
<1>1. p # top /\ parent[p] = NoPage  BY DEF Pages, InTree
<1>2. On(p) = {}
  <2>1. p # NoPage  BY GistAssumption DEF Entries
  <2>2. QED  BY <2>1 DEF TreeOK, On, InTree
<1>3. under[p] = {}  BY <1>2 DEF TreeOK, RowsOf
<1>4. QED  BY <1>1, <1>2, <1>3

\* Going down from a page of the tree leads to rows and pages of the tree.
LEMMA BelowInTree ==
  ASSUME TreeOK, NEW p \in Pages, NEW c \in On(p)
  PROVE  /\ c \in Entries /\ parent[c] = p /\ c # p /\ c # top /\ InTree(c)
         /\ c \in PageIds => c \in Pages
<1>1. c \in Entries /\ parent[c] = p  BY DEF On
<1>2. p # NoPage  BY GistAssumption DEF Pages, Entries
<1>3. QED  BY <1>1, <1>2 DEF TreeOK, InTree, Pages

LEMMA PutInv ==
  ASSUME GistInv, Put
  PROVE  GistInv'
<1>0. PICK row, path, page : row = gist.row /\ path = gist.path /\ page = gist.page
  OBVIOUS
<1>1. /\ TreeOK /\ RowsCovered /\ gist.op = "descend" /\ DescentOK
      /\ parent' = [parent EXCEPT ![row] = page]
      /\ key' = [key EXCEPT ![row] = BoxOf[row]]
      /\ under' = [p \in PageIds |-> IF p \in path THEN under[p] \cup {row} ELSE under[p]]
      /\ gist' = AfterInto(page, Cardinality(On(page)) + 1)
      /\ top' = top
      /\ On(page) \cap PageIds = {}
  BY <1>0 DEF GistInv, Put, compress
<1>2. row \in IndexRows /\ page \in PageIds /\ path \subseteq PageIds
  BY <1>0, <1>1, OpOf DEF GistInv
<1>3. /\ row \in Entries /\ row \notin PageIds
      /\ BoxOf[row] \in Keys2D
      /\ page # NoPage /\ NoPage \notin PageIds
  BY <1>2, GistAssumption DEF Keys2D, Entries
<1>4. page \in path /\ path \subseteq Pages /\ parent[row] = NoPage
  BY <1>0, <1>1 DEF DescentOK, InTree
<1>5. /\ parent'[row] = page /\ \A x \in Entries \ {row} : parent'[x] = parent[x]
      /\ key'[row] = BoxOf[row] /\ \A x \in Entries \ {row} : key'[x] = key[x]
      /\ \A p \in PageIds : under'[p] = IF p \in path THEN under[p] \cup {row} ELSE under[p]
  BY <1>1, <1>3 DEF TreeOK
<1>6. /\ \A p \in PageIds : p # page => On(p)' = On(p)
      /\ On(page)' = On(page) \cup {row}
  <2>1. \A p : On(p)' = {x \in Entries : parent'[x] = p}  BY DEF On
  <2>2. \A p \in PageIds : row \notin On(p)  BY <1>3, <1>4 DEF On
  <2>3. QED  BY <1>3, <1>5, <2>1, <2>2 DEF On
<1>7. Pages' = Pages
  BY <1>1, <1>3, <1>5 DEF Pages, InTree, Entries
<1>8. \A p \in PageIds : under'[p] = RowsOf(On(p))'
  <2> SUFFICES ASSUME NEW p \in PageIds, NEW x
               PROVE  x \in under'[p] <=> x \in RowsOf(On(p))'
    OBVIOUS
  <2> DEFINE S == On(p)  T == On(p)'
  <2>1. x \in under[p] <=> x \in S \cap IndexRows \/ \E c \in S \cap PageIds : x \in under[c]
    BY <1>1, UnionHas DEF TreeOK, RowsOf
  <2>2. x \in RowsOf(On(p))' <=>
          x \in T \cap IndexRows \/ \E c \in T \cap PageIds : x \in under'[c]
    BY UnionHas DEF RowsOf
  <2>3. T \cap PageIds = S \cap PageIds  BY <1>3, <1>6
  <2>4. CASE x # row
    <3>1. x \in T \cap IndexRows <=> x \in S \cap IndexRows  BY <1>6, <2>4
    <3>2. \A c \in PageIds : x \in under'[c] <=> x \in under[c]  BY <1>5, <2>4
    <3>3. QED  BY <2>1, <2>2, <2>3, <3>1, <3>2
  <2>5. CASE x = row
    <3>1. \A c \in PageIds : row \notin under[c]
      BY <1>1, <1>4 DEF TreeOK, InTree
    <3>2. \A c \in PageIds : row \in under'[c] <=> c \in path  BY <1>5, <3>1
    <3>3. row \in T <=> p = page
      BY <1>3, <1>4, <1>6 DEF On
    <3>4. ASSUME NEW c \in S \cap PageIds, c \in path  PROVE p \in path
      <4>1. parent[c] = p /\ c # top  BY <1>1, <1>3 DEF On, TreeOK
      <4>2. QED  BY <1>0, <1>1, <3>4, <4>1 DEF DescentOK
    <3>5. ASSUME p \in path, p # page  PROVE \E c \in S \cap PageIds : c \in path
      <4>1. PICK c \in path : parent[c] = p  BY <1>0, <1>1, <3>5 DEF DescentOK
      <4>2. c \in S \cap PageIds  BY <1>2, <4>1 DEF On, Entries
      <4>3. QED  BY <4>1, <4>2
    <3>6. QED  BY <1>2, <1>4, <2>2, <2>3, <2>5, <3>2, <3>3, <3>4, <3>5
  <2>6. QED  BY <2>4, <2>5
<1>9. TreeOK'
  <2>1. /\ parent' \in [Entries -> PageIds \cup {NoPage}]
        /\ key' \in [Entries -> Keys2D]
        /\ under' \in [PageIds -> SUBSET IndexRows]
        /\ top' \in PageIds
    BY <1>1, <1>2, <1>3 DEF TreeOK
  <2>2. parent'[top'] = NoPage
    BY <1>1, <1>3, <1>5 DEF TreeOK, Entries
  <2>3. \A x \in Entries : InTree(x)' => parent'[x] \in Pages' /\ parent'[x] # x
    BY <1>1, <1>2, <1>3, <1>4, <1>5, <1>7 DEF TreeOK, InTree
  <2>4. \A p \in PageIds : \A r \in under'[p] : InTree(r)'
    <3> SUFFICES ASSUME NEW p \in PageIds, NEW r \in under'[p]  PROVE parent'[r] # NoPage
      BY DEF InTree
    <3>1. r = row \/ (r \in under[p] /\ r \in IndexRows)  BY <1>1, <1>5 DEF TreeOK
    <3>2. r \in under[p] => parent[r] # NoPage  BY <1>1 DEF TreeOK, InTree
    <3>3. QED  BY <1>3, <1>5, <3>1, <3>2 DEF Entries
  <2>5. \A r \in IndexRows : InTree(r)' => key'[r] = BoxOf[r]
    BY <1>1, <1>5 DEF TreeOK, InTree, Entries
  <2>6. QED  BY <1>8, <2>1, <2>2, <2>3, <2>4, <2>5 DEF TreeOK
<1>10. RowsCovered'
  <2> SUFFICES ASSUME NEW p \in PageIds \ {top}, NEW r \in under'[p]
               PROVE  Covers(key'[p], BoxOf[r])
    BY <1>1 DEF RowsCovered
  <2>1. key'[p] = key[p]  BY <1>3, <1>5 DEF Entries
  <2>2. r \in under[p] \/ (r = row /\ p \in path)  BY <1>5
  <2>3. QED  BY <1>0, <1>1, <2>1, <2>2 DEF RowsCovered, DescentOK
<1>11. gist' = NoInsertion \/ (gist' = Overfull(page) /\ Cardinality(On(page)) + 1 > PageSize)
  BY <1>1 DEF AfterInto
<1>12. gist' \in Insertions  BY <1>2, <1>11 DEF Insertions, NoInsertion, Overfull
<1>13. DescentOK' /\ SplitOK'
  BY <1>11 DEF DescentOK, SplitOK, NoInsertion, Overfull
<1>14. OverfullOK'
  <2>1. CASE gist' = NoInsertion  BY <2>1 DEF OverfullOK, NoInsertion
  <2>2. CASE gist' = Overfull(page) /\ Cardinality(On(page)) + 1 > PageSize
    <3>1. row \notin On(page)  BY <1>3, <1>4 DEF On
    <3>2. Cardinality(On(page)') = Cardinality(On(page)) + 1
      BY <1>6, <3>1, OnType, FS_AddElement
    <3>3. Cardinality(On(page)) \in Nat /\ PageSize \in Nat \ {0}  BY OnType, GistAssumption
    <3>4. Cardinality(On(page)') >= 2  BY <2>2, <3>2, <3>3
    <3>5. gist'.page = page  BY <2>2 DEF Overfull
    <3>6. On(gist.page)' = On(page)'  BY <3>5 DEF On
    <3>7. QED  BY <1>4, <1>7, <3>4, <3>5, <3>6 DEF OverfullOK
  <2>3. QED  BY <1>11, <2>1, <2>2
<1>15. QED  BY <1>9, <1>10, <1>12, <1>13, <1>14 DEF GistInv

-----------------------------------------------------------------------------
(* Splitting a page: what PickSplit selects can be carried out. *)

LEMMA LimitIsSmall ==
  ASSUME NEW n \in Nat, n >= 2
  PROVE  /\ Limit(n) \in Nat
         /\ Limit(n) <= n \div 2 /\ 2 * Limit(n) <= n
         /\ \A k \in Int : 10 * k >= n <=> k >= Limit(n)
  BY DEF Limit

LEMMA CountIsEnough ==
  ASSUME NEW n \in Nat, n >= 2, NEW atLeast \in Nat, NEW atMost \in Nat, atLeast <= n,
         RatioOK(n, LeftCount(n, atLeast, atMost))
  PROVE  /\ n - atLeast >= Limit(n)
         /\ atLeast >= Limit(n) \/ atMost >= Limit(n)
<1> DEFINE left == LeftCount(n, atLeast, atMost)
<1>1. left \in Int /\ (left = atLeast \/ (left = atMost /\ 2 * atLeast <= n)
                        \/ (left = n \div 2 /\ left <= atMost /\ 2 * atLeast <= n))
  BY DEF LeftCount
<1> HIDE DEF left
<1>2. 10 * left >= n /\ 10 * (n - left) >= n  BY <1>1 DEF RatioOK, Lesser, left
<1>3. left >= Limit(n) /\ n - left >= Limit(n)  BY <1>1, <1>2, LimitIsSmall
<1>4. Limit(n) \in Nat /\ 2 * Limit(n) <= n  BY LimitIsSmall
<1>5. QED  BY <1>1, <1>3, <1>4

LEMMA AcceptableFits ==
  ASSUME NEW S \in SUBSET Entries, NEW axis \in Axes, NEW u \in Int, NEW l \in Int,
         key \in [Entries -> Keys2D], Cardinality(S) >= 2, Acceptable(S, axis, u, l),
         NEW split, split.axis = axis, split.leftUpper = u, split.rightLower = l
  PROVE  /\ \A x \in S : FitsLeft(key[x], split) \/ FitsRight(key[x], split)
         /\ Cardinality({x \in S : FitsLeft(key[x], split)}) >= Limit(Cardinality(S))
         /\ Cardinality({x \in S : FitsRight(key[x], split)}) >= Limit(Cardinality(S))
<1> DEFINE n == Cardinality(S)
           lefts == {x \in S : FitsLeft(key[x], split)}
           rights == {x \in S : FitsRight(key[x], split)}
           before == WithBox(S) \ StartsFrom(S, axis, l)
           ends == EndsBy(S, axis, u)
<1>1. IsFiniteSet(S) /\ n \in Nat  BY GistAssumption, FS_Subset, FS_CardinalityType
<1>2. /\ before \subseteq S /\ ends \subseteq S /\ lefts \subseteq S /\ rights \subseteq S
      /\ rights = S \ before
      /\ ends \subseteq lefts
  BY DEF WithBox, StartsFrom, EndsBy, FitsRight, FitsLeft
<1>3. before \subseteq ends
  <2>1. CASE FirstLoop(S, axis, u, l)  BY <2>1 DEF FirstLoop
  <2>2. CASE SecondLoop(S, axis, u, l)
    BY <2>2 DEF SecondLoop, WithBox, EndsBy, StartsFrom
  <2>3. QED  BY <2>1, <2>2 DEF Acceptable
<1>4. /\ IsFiniteSet(before) /\ Cardinality(before) \in Nat /\ Cardinality(before) <= n
      /\ IsFiniteSet(ends) /\ Cardinality(ends) \in Nat
      /\ IsFiniteSet(lefts) /\ Cardinality(lefts) \in Nat
  BY <1>1, <1>2, FS_Subset, FS_CardinalityType
<1>5. Cardinality(ends) <= Cardinality(lefts) /\ Cardinality(before) <= Cardinality(lefts)
  BY <1>2, <1>3, <1>4, FS_Subset
<1>6. Cardinality(rights) = n - Cardinality(before)
  <2>1. S \cap before = before  BY <1>2
  <2> HIDE DEF n, lefts, rights, before, ends
  <2>2. Cardinality(S \ before) = Cardinality(S) - Cardinality(before)
    BY <1>1, <2>1, FS_Difference
  <2>3. QED  BY <1>2, <2>2 DEF n
<1>7. PICK atMost \in {0, Cardinality(ends)} : RatioOK(n, LeftCount(n, Cardinality(before), atMost))
  BY DEF Acceptable, minLeft, maxLeft
<1> HIDE DEF n, lefts, rights, before, ends
<1>8. n - Cardinality(before) >= Limit(n)
      /\ (Cardinality(before) >= Limit(n) \/ atMost >= Limit(n))
  BY <1>1, <1>4, <1>7, CountIsEnough DEF n
<1>9. Limit(n) \in Nat  BY <1>1, LimitIsSmall DEF n
<1>10. atMost <= Cardinality(lefts)  BY <1>4, <1>5, <1>7
<1>11. Cardinality(lefts) >= Limit(n)  BY <1>4, <1>5, <1>7, <1>8, <1>9, <1>10
<1>12. Cardinality(rights) >= Limit(n)  BY <1>6, <1>8
<1>13. \A x \in S : x \in lefts \/ x \in rights  BY <1>2, <1>3
<1>14. QED  BY <1>11, <1>12, <1>13 DEF n, lefts, rights

LEMMA BoundsType ==
  ASSUME NEW S \in SUBSET Entries, key \in [Entries -> Keys2D], NEW axis \in Axes
  PROVE  Bounds(S, axis) \subseteq Int
  BY DEF Bounds, WithBox, Low, High, Axes, box2df_is_empty, Keys2D, BOX2DF

LEMMA PickSplitInv ==
  ASSUME GistInv, PickSplit
  PROVE  GistInv'
<1> DEFINE S == On(gist.page)
<1>0. PICK p, split :
        /\ p = gist.page
        /\ gist' = Splitting(p, split, S)
        /\ split = Halves \/
             (split \in Splits(S) /\ Acceptable(S, split.axis, split.leftUpper, split.rightLower))
  BY DEF PickSplit
<1>1. /\ TreeOK /\ RowsCovered /\ gist.op = "overfull" /\ p \in Pages /\ p \in PageIds
      /\ Cardinality(S) >= 2
      /\ UNCHANGED <<top, parent, key, under>>
  BY <1>0 DEF GistInv, PickSplit, OverfullOK, Pages
<1>2. TreeOK' /\ RowsCovered' /\ Pages' = Pages /\ \A x : On(x)' = On(x)
  BY <1>1, TreeStays
<1>3. S \in SUBSET Entries  BY DEF On
<1>4. /\ gist'.op = "split" /\ gist'.page = p /\ gist'.split = split /\ gist'.todo = S
      /\ gist'.common = {} /\ gist'.left = NoGroup /\ gist'.right = NoGroup
  BY <1>0 DEF Splitting
<1>5. NoGroup \in Groups /\ NoGroup.items = {}
  BY DEF NoGroup, Group, Groups, Keys2D
<1>6. split \in {Halves} \cup [axis : Axes, leftUpper : Int, rightLower : Int]
  <2>1. Bounds(S, "x") \subseteq Int /\ Bounds(S, "y") \subseteq Int
    BY <1>1, <1>3, BoundsType DEF TreeOK, Axes
  <2>2. QED  BY <1>0, <2>1 DEF Splits
<1>7. gist' \in Insertions
  BY <1>0, <1>1, <1>3, <1>5, <1>6 DEF Splitting, Insertions
<1>8. On(gist.page)' = S
  <2>1. On(gist.page)' = On(p)'  BY <1>4 DEF On
  <2>2. QED  BY <1>0, <1>2, <2>1
<1>9. Sorted' /\ BoxCovers(gist.left)' /\ BoxCovers(gist.right)'
  BY <1>4, <1>5, <1>8 DEF Sorted, Disjoint, BoxCovers
<1>10. BySplit'
  <2> SUFFICES ASSUME split # Halves  PROVE BySplit'
    BY <1>4 DEF BySplit
  <2>1. split \in [axis : Axes, leftUpper : Int, rightLower : Int]  BY <1>6
  <2>2. /\ \A x \in S : FitsLeft(key[x], split) \/ FitsRight(key[x], split)
        /\ Cardinality({x \in S : FitsLeft(key[x], split)}) >= Limit(Cardinality(S))
        /\ Cardinality({x \in S : FitsRight(key[x], split)}) >= Limit(Cardinality(S))
    <3>1. Acceptable(S, split.axis, split.leftUpper, split.rightLower)  BY <1>0
    <3>2. QED  BY <1>1, <1>3, <2>1, <3>1, AcceptableFits DEF TreeOK
  <2>3. LeftSide' = {x \in S : FitsLeft(key[x], split)}
    BY <1>1, <1>4, <1>5, <1>8 DEF LeftSide
  <2>4. RightSide' = {x \in S : FitsRight(key[x], split)}
    BY <1>1, <1>4, <1>5, <1>8 DEF RightSide
  <2>5. QED  BY <1>1, <1>4, <1>5, <1>8, <2>2, <2>3, <2>4 DEF BySplit
<1>11. ByHalves'
  <2>1. Cardinality(S) \div 2 \in Nat  BY OnType
  <2>2. QED  BY <1>4, <1>5, <1>8, <2>1, FS_EmptySet DEF ByHalves
<1>12. SplitOK'
  BY <1>1, <1>2, <1>4, <1>8, <1>9, <1>10, <1>11 DEF SplitOK
<1>13. DescentOK' /\ OverfullOK'  BY <1>4 DEF DescentOK, OverfullOK
<1>14. QED  BY <1>2, <1>7, <1>12, <1>13 DEF GistInv

-----------------------------------------------------------------------------
(* Entries go to their groups. *)

LEMMA PlaceHas ==
  ASSUME NEW group \in Groups, NEW x \in Entries, key \in [Entries -> Keys2D], BoxCovers(group)
  PROVE  /\ Place(group, x) \in Groups
         /\ Place(group, x).items = group.items \cup {x}
         /\ BoxCovers(Place(group, x))
<1> DEFINE b == IF group.items = {} THEN key[x] ELSE box2df_merge(group.box, key[x])
<1>1. Place(group, x) = [items |-> group.items \cup {x}, box |-> b]  BY DEF Place, Group
<1>2. group.items \subseteq Entries /\ group.box \in Keys2D /\ key[x] \in Keys2D
  BY DEF Groups
<1>3. b \in Keys2D /\ Covers(b, key[x])  BY <1>2, MergeCovers, CoversItself
<1>4. \A y \in group.items : Covers(b, key[y])
  <2> SUFFICES ASSUME NEW y \in group.items  PROVE Covers(b, key[y])
    OBVIOUS
  <2>1. b = box2df_merge(group.box, key[x])  OBVIOUS
  <2> HIDE DEF b
  <2>2. Covers(b, group.box)  BY <1>2, <2>1, MergeCovers
  <2>3. Covers(group.box, key[y])  BY DEF BoxCovers
  <2>4. QED  BY <1>2, <1>3, <2>2, <2>3, CoversCovers
<1> HIDE DEF b
<1>5. QED  BY <1>1, <1>2, <1>3, <1>4 DEF BoxCovers, Groups

\* What is known while a page is being split.
LEMMA SplitFacts ==
  ASSUME GistInv, gist.op = "split"
  PROVE  /\ TreeOK /\ RowsCovered /\ key \in [Entries -> Keys2D]
         /\ gist.page \in PageIds /\ gist.page \in Pages
         /\ gist.todo \subseteq Entries /\ gist.common \subseteq Entries
         /\ gist.left \in Groups /\ gist.right \in Groups
         /\ BoxCovers(gist.left) /\ BoxCovers(gist.right)
         /\ Sorted /\ BySplit /\ ByHalves
         /\ Cardinality(On(gist.page)) >= 2
  BY OpOf DEF GistInv, SplitOK, TreeOK

\* The five moves, each as a change of all four sets.
LEMMA Moves ==
  ASSUME gist \in Insertions, gist.op = "split", NEW x
  PROVE  /\ ToLeft(x) = [gist EXCEPT !.todo = gist.todo \ {x}, !.common = gist.common,
                                     !.left = Place(gist.left, x), !.right = gist.right]
         /\ ToRight(x) = [gist EXCEPT !.todo = gist.todo \ {x}, !.common = gist.common,
                                      !.left = gist.left, !.right = Place(gist.right, x)]
         /\ ToCommon(x) = [gist EXCEPT !.todo = gist.todo \ {x},
                                       !.common = gist.common \cup {x},
                                       !.left = gist.left, !.right = gist.right]
         /\ CommonToLeft(x) = [gist EXCEPT !.todo = gist.todo, !.common = gist.common \ {x},
                                           !.left = Place(gist.left, x), !.right = gist.right]
         /\ CommonToRight(x) = [gist EXCEPT !.todo = gist.todo, !.common = gist.common \ {x},
                                            !.left = gist.left, !.right = Place(gist.right, x)]
<1>1. gist \in [op : {"split"}, page : PageIds,
                split : {Halves} \cup [axis : Axes, leftUpper : Int, rightLower : Int],
                todo : SUBSET Entries, common : SUBSET Entries, left : Groups, right : Groups]
  BY OpOf
<1>2. QED  BY <1>1 DEF ToLeft, ToRight, ToCommon, CommonToLeft, CommonToRight

\* A move that leaves the entries of the page sorted so.
Moving(t, c, l, r) ==
  /\ gist.op = "split" /\ UNCHANGED <<top, parent, key, under>>
  /\ t \in SUBSET Entries /\ c \in SUBSET Entries /\ l \in Groups /\ r \in Groups
  /\ gist' = [gist EXCEPT !.todo = t, !.common = c, !.left = l, !.right = r]
  /\ BoxCovers(l) /\ BoxCovers(r)
  /\ On(gist.page) = t \cup c \cup l.items \cup r.items
  /\ Disjoint(t, c) /\ Disjoint(t, l.items) /\ Disjoint(t, r.items)
  /\ Disjoint(c, l.items) /\ Disjoint(c, r.items) /\ Disjoint(l.items, r.items)

\* It keeps the invariant if it keeps what the way of splitting asks.
LEMMA MoveKeeps ==
  ASSUME GistInv, NEW t, NEW c, NEW l, NEW r, Moving(t, c, l, r)
  PROVE  /\ gist'.op = "split" /\ gist'.split = gist.split /\ gist'.todo = t
         /\ gist'.common = c /\ gist'.left = l /\ gist'.right = r
         /\ On(gist.page)' = On(gist.page)
         /\ LeftSide' = {x \in On(gist.page) \ r.items : FitsLeft(key[x], gist.split)}
         /\ RightSide' = {x \in On(gist.page) \ l.items : FitsRight(key[x], gist.split)}
         /\ BySplit' /\ ByHalves' => GistInv'
<1>0. PICK p, S : p = gist.page /\ S = On(p)  OBVIOUS
<1>1. /\ TreeOK /\ RowsCovered /\ p \in Pages /\ Cardinality(S) >= 2
      /\ UNCHANGED <<top, parent, key, under>>
  BY <1>0, SplitFacts DEF Moving
<1>2. TreeOK' /\ RowsCovered' /\ Pages' = Pages /\ \A x : On(x)' = On(x)
  BY <1>1, TreeStays
<1>3. /\ gist' \in Insertions
      /\ gist'.op = "split" /\ gist'.page = p /\ gist'.split = gist.split
      /\ gist'.todo = t /\ gist'.common = c /\ gist'.left = l /\ gist'.right = r
  <2> DEFINE R == [op : {"split"}, page : PageIds,
                   split : {Halves} \cup [axis : Axes, leftUpper : Int, rightLower : Int],
                   todo : SUBSET Entries, common : SUBSET Entries, left : Groups, right : Groups]
  <2>1. gist \in R  BY OpOf DEF GistInv, Moving
  <2>2. /\ t \in SUBSET Entries /\ c \in SUBSET Entries /\ l \in Groups /\ r \in Groups
        /\ gist' = [gist EXCEPT !.todo = t, !.common = c, !.left = l, !.right = r]
    BY DEF Moving
  <2>3. gist' \in R  BY <2>1, <2>2
  <2>4. QED  BY <1>0, <2>1, <2>2, <2>3 DEF Insertions
<1>4. On(gist.page)' = S
  <2>1. On(gist.page)' = On(p)'  BY <1>3 DEF On
  <2>2. QED  BY <1>0, <1>2, <2>1
<1>5. /\ LeftSide' = {x \in S \ r.items : FitsLeft(key[x], gist.split)}
      /\ RightSide' = {x \in S \ l.items : FitsRight(key[x], gist.split)}
  BY <1>1, <1>3, <1>4 DEF LeftSide, RightSide
<1>6. Sorted' /\ BoxCovers(gist.left)' /\ BoxCovers(gist.right)'
  BY <1>0, <1>3, <1>4 DEF Sorted, BoxCovers, Disjoint, Moving
<1>7. DescentOK' /\ OverfullOK'  BY <1>3 DEF DescentOK, OverfullOK
<1>8. BySplit' /\ ByHalves' => SplitOK'
  BY <1>1, <1>2, <1>3, <1>4, <1>6 DEF SplitOK
<1>9. QED  BY <1>0, <1>2, <1>3, <1>4, <1>5, <1>7, <1>8 DEF GistInv

LEMMA DistributeInv ==
  ASSUME GistInv, Distribute
  PROVE  GistInv'
<1>0. PICK S, split, todo, common, left, right :
        /\ S = On(gist.page) /\ split = gist.split /\ todo = gist.todo
        /\ common = gist.common /\ left = gist.left /\ right = gist.right
  OBVIOUS
<1>1. /\ gist.op = "split" /\ gist \in Insertions /\ split # Halves
      /\ UNCHANGED <<top, parent, key, under>>
  BY <1>0 DEF Distribute, GistInv
<1>2. PICK x \in todo :
        gist' = IF ~FitsLeft(key[x], split) THEN ToRight(x)
                ELSE IF FitsRight(key[x], split) THEN ToCommon(x) ELSE ToLeft(x)
  BY <1>0 DEF Distribute
<1>3. /\ key \in [Entries -> Keys2D] /\ S \subseteq Entries
      /\ todo \subseteq Entries /\ common \subseteq Entries
      /\ left \in Groups /\ right \in Groups
      /\ BoxCovers(left) /\ BoxCovers(right)
  BY <1>0, <1>1, SplitFacts, OnType
<1>4. /\ S = todo \cup common \cup left.items \cup right.items
      /\ Disjoint(todo, common) /\ Disjoint(todo, left.items) /\ Disjoint(todo, right.items)
      /\ Disjoint(common, left.items) /\ Disjoint(common, right.items)
      /\ Disjoint(left.items, right.items)
  BY <1>0, <1>1, SplitFacts DEF Sorted
<1>5. /\ \A y \in S : FitsLeft(key[y], split) \/ FitsRight(key[y], split)
      /\ \A y \in left.items : FitsLeft(key[y], split)
      /\ \A y \in right.items : FitsRight(key[y], split)
      /\ \A y \in common : FitsLeft(key[y], split) /\ FitsRight(key[y], split)
      /\ Cardinality({y \in S \ right.items : FitsLeft(key[y], split)}) >= Limit(Cardinality(S))
      /\ Cardinality({y \in S \ left.items : FitsRight(key[y], split)}) >= Limit(Cardinality(S))
  BY <1>0, <1>1, SplitFacts DEF BySplit, LeftSide, RightSide
<1>6. CASE ~FitsLeft(key[x], split)
  <2> DEFINE r == Place(right, x)
  <2>1. /\ gist' = [gist EXCEPT !.todo = todo \ {x}, !.common = common, !.left = left, !.right = r]
    BY <1>0, <1>1, <1>2, <1>6, Moves
  <2>2. r \in Groups /\ r.items = right.items \cup {x} /\ BoxCovers(r)
    BY <1>3, PlaceHas
  <2> HIDE DEF r
  <2>3. Moving(todo \ {x}, common, left, r)
    BY <1>0, <1>1, <1>3, <1>4, <2>2, <2>1 DEF Moving, Disjoint
  <2>4. /\ gist'.split = split /\ gist'.common = common /\ gist'.left = left /\ gist'.right = r
        /\ On(gist.page)' = S
        /\ LeftSide' = {y \in S \ r.items : FitsLeft(key[y], split)}
        /\ RightSide' = {y \in S \ left.items : FitsRight(key[y], split)}
        /\ BySplit' /\ ByHalves' => GistInv'
    BY <1>0, <2>3, MoveKeeps
  <2>5. LeftSide' = {y \in S \ right.items : FitsLeft(key[y], split)}
    BY <1>6, <2>2, <2>4
  <2>6. BySplit'
    BY <1>1, <1>4, <1>5, <1>6, <2>2, <2>4, <2>5 DEF BySplit
  <2>7. ByHalves'  BY <1>1, <2>4 DEF ByHalves
  <2>8. QED  BY <2>4, <2>6, <2>7
<1>7. CASE FitsLeft(key[x], split) /\ FitsRight(key[x], split)
  <2>1. /\ gist' = [gist EXCEPT !.todo = todo \ {x}, !.common = common \cup {x},
                                !.left = left, !.right = right]
    BY <1>0, <1>1, <1>2, <1>7, Moves
  <2>2. common \cup {x} \in SUBSET Entries  BY <1>3
  <2>3. Moving(todo \ {x}, common \cup {x}, left, right)
    BY <1>0, <1>1, <1>3, <1>4, <2>2, <2>1 DEF Moving, Disjoint
  <2>4. /\ gist'.split = split /\ gist'.common = common \cup {x}
        /\ gist'.left = left /\ gist'.right = right
        /\ On(gist.page)' = S
        /\ LeftSide' = {y \in S \ right.items : FitsLeft(key[y], split)}
        /\ RightSide' = {y \in S \ left.items : FitsRight(key[y], split)}
        /\ BySplit' /\ ByHalves' => GistInv'
    BY <1>0, <2>3, MoveKeeps
  <2>5. BySplit'
    BY <1>1, <1>4, <1>5, <1>7, <2>4 DEF BySplit
  <2>6. ByHalves'  BY <1>1, <2>4 DEF ByHalves
  <2>7. QED  BY <2>4, <2>5, <2>6
<1>8. CASE FitsLeft(key[x], split) /\ ~FitsRight(key[x], split)
  <2> DEFINE l == Place(left, x)
  <2>1. /\ gist' = [gist EXCEPT !.todo = todo \ {x}, !.common = common, !.left = l, !.right = right]
    BY <1>0, <1>1, <1>2, <1>8, Moves
  <2>2. l \in Groups /\ l.items = left.items \cup {x} /\ BoxCovers(l)
    BY <1>3, PlaceHas
  <2> HIDE DEF l
  <2>3. Moving(todo \ {x}, common, l, right)
    BY <1>0, <1>1, <1>3, <1>4, <2>2, <2>1 DEF Moving, Disjoint
  <2>4. /\ gist'.split = split /\ gist'.common = common /\ gist'.left = l /\ gist'.right = right
        /\ On(gist.page)' = S
        /\ LeftSide' = {y \in S \ right.items : FitsLeft(key[y], split)}
        /\ RightSide' = {y \in S \ l.items : FitsRight(key[y], split)}
        /\ BySplit' /\ ByHalves' => GistInv'
    BY <1>0, <2>3, MoveKeeps
  <2>5. RightSide' = {y \in S \ left.items : FitsRight(key[y], split)}
    BY <1>8, <2>2, <2>4
  <2>6. BySplit'
    BY <1>1, <1>4, <1>5, <1>8, <2>2, <2>4, <2>5 DEF BySplit
  <2>7. ByHalves'  BY <1>1, <2>4 DEF ByHalves
  <2>8. QED  BY <2>4, <2>6, <2>7
<1>9. QED  BY <1>6, <1>7, <1>8

LEMMA HalvesInv ==
  ASSUME GistInv, DistributeHalves
  PROVE  GistInv'
<1>0. PICK S, split, todo, common, left, right :
        /\ S = On(gist.page) /\ split = gist.split /\ todo = gist.todo
        /\ common = gist.common /\ left = gist.left /\ right = gist.right
  OBVIOUS
<1> DEFINE half == Cardinality(S) \div 2
<1>1. /\ gist.op = "split" /\ gist \in Insertions /\ split = Halves
      /\ UNCHANGED <<top, parent, key, under>>
  BY <1>0 DEF DistributeHalves, GistInv
<1>2. PICK x \in todo :
        gist' = IF Cardinality(left.items) < half THEN ToLeft(x) ELSE ToRight(x)
  BY <1>0 DEF DistributeHalves
<1>3. /\ key \in [Entries -> Keys2D] /\ S \subseteq Entries /\ IsFiniteSet(S)
      /\ Cardinality(S) \in Nat
      /\ todo \subseteq Entries /\ common \subseteq Entries
      /\ left \in Groups /\ right \in Groups
      /\ BoxCovers(left) /\ BoxCovers(right)
  BY <1>0, <1>1, SplitFacts, OnType
<1>4. /\ S = todo \cup common \cup left.items \cup right.items
      /\ Disjoint(todo, common) /\ Disjoint(todo, left.items) /\ Disjoint(todo, right.items)
      /\ Disjoint(common, left.items) /\ Disjoint(common, right.items)
      /\ Disjoint(left.items, right.items)
  BY <1>0, <1>1, SplitFacts DEF Sorted
<1>5. /\ common = {} /\ Cardinality(left.items) <= half
      /\ right.items # {} => Cardinality(left.items) = half
  BY <1>0, <1>1, SplitFacts DEF ByHalves
<1>6. IsFiniteSet(left.items) /\ Cardinality(left.items) \in Nat /\ half \in Nat
  BY <1>3, <1>4, FS_Subset, FS_CardinalityType
<1> HIDE DEF half
<1>7. CASE Cardinality(left.items) < half
  <2> DEFINE l == Place(left, x)
  <2>1. gist' = [gist EXCEPT !.todo = todo \ {x}, !.common = common, !.left = l, !.right = right]
    BY <1>0, <1>1, <1>2, <1>7, Moves
  <2>2. l \in Groups /\ l.items = left.items \cup {x} /\ BoxCovers(l)
    BY <1>3, PlaceHas
  <2> HIDE DEF l
  <2>3. Moving(todo \ {x}, common, l, right)
    BY <1>0, <1>1, <1>3, <1>4, <2>1, <2>2 DEF Moving, Disjoint
  <2>4. /\ gist'.split = split /\ gist'.common = common /\ gist'.left = l /\ gist'.right = right
        /\ On(gist.page)' = S
        /\ BySplit' /\ ByHalves' => GistInv'
    BY <1>0, <2>3, MoveKeeps
  <2>5. Cardinality(l.items) = Cardinality(left.items) + 1
    <3>1. x \notin left.items  BY <1>4 DEF Disjoint
    <3>2. QED  BY <1>6, <2>2, <3>1, FS_AddElement
  <2>6. right.items = {} /\ Cardinality(l.items) <= half  BY <1>5, <1>6, <1>7, <2>5
  <2>7. BySplit' /\ ByHalves'
    BY <1>1, <1>5, <2>4, <2>6 DEF BySplit, ByHalves, half
  <2>8. QED  BY <2>4, <2>7
<1>8. CASE ~(Cardinality(left.items) < half)
  <2> DEFINE r == Place(right, x)
  <2>1. gist' = [gist EXCEPT !.todo = todo \ {x}, !.common = common, !.left = left, !.right = r]
    BY <1>0, <1>1, <1>2, <1>8, Moves
  <2>2. r \in Groups /\ r.items = right.items \cup {x} /\ BoxCovers(r)
    BY <1>3, PlaceHas
  <2> HIDE DEF r
  <2>3. Moving(todo \ {x}, common, left, r)
    BY <1>0, <1>1, <1>3, <1>4, <2>1, <2>2 DEF Moving, Disjoint
  <2>4. /\ gist'.split = split /\ gist'.common = common /\ gist'.left = left /\ gist'.right = r
        /\ On(gist.page)' = S
        /\ BySplit' /\ ByHalves' => GistInv'
    BY <1>0, <2>3, MoveKeeps
  <2>5. Cardinality(left.items) = half  BY <1>5, <1>6, <1>8
  <2>6. BySplit' /\ ByHalves'
    BY <1>1, <1>5, <1>6, <2>4, <2>5 DEF BySplit, ByHalves, half
  <2>7. QED  BY <2>4, <2>6
<1>9. QED  BY <1>7, <1>8

LEMMA DisjointUnion ==
  ASSUME NEW A, NEW B, IsFiniteSet(A), IsFiniteSet(B), A \cap B = {}
  PROVE  IsFiniteSet(A \cup B) /\ Cardinality(A \cup B) = Cardinality(A) + Cardinality(B)
<1>1. Cardinality(A \cap B) = 0  BY FS_EmptySet
<1>2. Cardinality(A) \in Nat /\ Cardinality(B) \in Nat  BY FS_CardinalityType
<1>3. /\ IsFiniteSet(A \cup B)
      /\ Cardinality(A \cup B) = Cardinality(A) + Cardinality(B) - Cardinality(A \cap B)
  BY FS_Union
<1>4. QED  BY <1>1, <1>2, <1>3

\* After the entries that fit on one side only: the left group with the common
\* entries is what fits on the left, and as many as that.
LEMMA SidesCount ==
  ASSUME GistInv, gist.op = "split", gist.todo = {}, gist.split # Halves
  PROVE  /\ LeftSide = gist.left.items \cup gist.common
         /\ RightSide = gist.right.items \cup gist.common
         /\ Cardinality(LeftSide) = Cardinality(gist.left.items) + Cardinality(gist.common)
         /\ Cardinality(RightSide) = Cardinality(gist.right.items) + Cardinality(gist.common)
         /\ Cardinality(On(gist.page)) = Cardinality(gist.left.items)
              + Cardinality(gist.common) + Cardinality(gist.right.items)
         /\ Cardinality(gist.left.items) \in Nat /\ Cardinality(gist.right.items) \in Nat
         /\ Cardinality(gist.common) \in Nat
<1>0. PICK S, L, C, R :
        /\ S = On(gist.page) /\ L = gist.left.items /\ C = gist.common /\ R = gist.right.items
  OBVIOUS
<1>1. /\ S = C \cup L \cup R /\ L \cap C = {} /\ R \cap C = {} /\ L \cap R = {}
  BY <1>0, SplitFacts DEF Sorted, Disjoint
<1>2. /\ LeftSide = L \cup C /\ RightSide = R \cup C
  BY <1>0, <1>1, SplitFacts DEF BySplit, LeftSide, RightSide
<1>3. IsFiniteSet(S)  BY <1>0, OnType
<1>4. /\ IsFiniteSet(L) /\ IsFiniteSet(C) /\ IsFiniteSet(R)
      /\ Cardinality(L) \in Nat /\ Cardinality(C) \in Nat /\ Cardinality(R) \in Nat
  BY <1>1, <1>3, FS_Subset, FS_CardinalityType
<1>5. IsFiniteSet(L \cup C) /\ Cardinality(L \cup C) = Cardinality(L) + Cardinality(C)
  BY <1>1, <1>4, DisjointUnion
<1>6. Cardinality(R \cup C) = Cardinality(R) + Cardinality(C)
  BY <1>1, <1>4, DisjointUnion
<1>7. Cardinality(S) = Cardinality(L) + Cardinality(C) + Cardinality(R)
  <2>1. (L \cup C) \cap R = {} /\ S = (L \cup C) \cup R  BY <1>1
  <2>2. Cardinality((L \cup C) \cup R) = Cardinality(L \cup C) + Cardinality(R)
    BY <1>4, <1>5, <2>1, DisjointUnion
  <2>3. QED  BY <1>5, <2>1, <2>2
<1>8. QED  BY <1>0, <1>2, <1>4, <1>5, <1>6, <1>7

LEMMA CommonInv ==
  ASSUME GistInv, NEW x \in Entries, PlaceCommon(x)
  PROVE  GistInv'
<1>0. PICK S, split, common, left, right :
        /\ S = On(gist.page) /\ split = gist.split
        /\ common = gist.common /\ left = gist.left /\ right = gist.right
  OBVIOUS
<1>1. /\ gist.op = "split" /\ gist \in Insertions /\ gist.todo = {} /\ x \in common
      /\ UNCHANGED <<top, parent, key, under>>
  BY <1>0 DEF PlaceCommon, GistInv
<1>2. split # Halves  BY <1>0, <1>1, SplitFacts DEF ByHalves
<1> DEFINE n == Cardinality(S)
           lc == Cardinality(left.items) + Cardinality(common)
           rc == Cardinality(right.items) + Cardinality(common)
<1>3. /\ (~(lc <= Limit(n)) /\ gist' = CommonToRight(x))
         \/ ((lc <= Limit(n) \/ ~(rc <= Limit(n))) /\ gist' = CommonToLeft(x))
  BY <1>0 DEF PlaceCommon, Needed
<1>4. /\ key \in [Entries -> Keys2D] /\ S \subseteq Entries /\ IsFiniteSet(S)
      /\ common \subseteq Entries /\ left \in Groups /\ right \in Groups
      /\ BoxCovers(left) /\ BoxCovers(right)
      /\ n \in Nat /\ n >= 2
  BY <1>0, <1>1, SplitFacts, OnType
<1>5. /\ S = common \cup left.items \cup right.items
      /\ Disjoint(common, left.items) /\ Disjoint(common, right.items)
      /\ Disjoint(left.items, right.items)
  BY <1>0, <1>1, SplitFacts DEF Sorted
<1>6. /\ \A y \in S : FitsLeft(key[y], split) \/ FitsRight(key[y], split)
      /\ \A y \in left.items : FitsLeft(key[y], split)
      /\ \A y \in right.items : FitsRight(key[y], split)
      /\ \A y \in common : FitsLeft(key[y], split) /\ FitsRight(key[y], split)
      /\ Cardinality(LeftSide) >= Limit(n) /\ Cardinality(RightSide) >= Limit(n)
  BY <1>0, <1>1, <1>2, SplitFacts DEF BySplit
<1>7. /\ LeftSide = left.items \cup common /\ RightSide = right.items \cup common
      /\ Cardinality(LeftSide) = lc /\ Cardinality(RightSide) = rc
      /\ n = Cardinality(left.items) + Cardinality(common) + Cardinality(right.items)
      /\ Cardinality(left.items) \in Nat /\ Cardinality(right.items) \in Nat
      /\ Cardinality(common) \in Nat
  BY <1>0, <1>1, <1>2, SidesCount
<1>8. PICK LS, RS : LS = LeftSide /\ RS = RightSide  OBVIOUS
<1>9. IsFiniteSet(LS) /\ IsFiniteSet(RS)
  BY <1>4, <1>5, <1>7, <1>8, FS_Subset
<1>10. Limit(n) \in Nat /\ 2 * Limit(n) <= n  BY <1>4, LimitIsSmall
<1> HIDE DEF n, lc, rc
<1>11. CASE ~(lc <= Limit(n)) /\ gist' = CommonToRight(x)
  <2> DEFINE r == Place(right, x)
  <2>1. gist' = [gist EXCEPT !.todo = {}, !.common = common \ {x}, !.left = left, !.right = r]
    BY <1>0, <1>1, <1>11, Moves
  <2>2. r \in Groups /\ r.items = right.items \cup {x} /\ BoxCovers(r)
    BY <1>4, PlaceHas
  <2> HIDE DEF r
  <2>3. Moving({}, common \ {x}, left, r)
    BY <1>0, <1>1, <1>4, <1>5, <2>1, <2>2 DEF Moving, Disjoint
  <2>4. /\ gist'.split = split /\ gist'.common = common \ {x}
        /\ gist'.left = left /\ gist'.right = r
        /\ On(gist.page)' = S
        /\ LeftSide' = {y \in S \ r.items : FitsLeft(key[y], split)}
        /\ RightSide' = {y \in S \ left.items : FitsRight(key[y], split)}
        /\ BySplit' /\ ByHalves' => GistInv'
    BY <1>0, <2>3, MoveKeeps
  <2>5. LeftSide' = LS \ {x} /\ RightSide' = RS
    BY <1>1, <1>5, <1>6, <1>7, <1>8, <2>2, <2>4 DEF Disjoint
  <2>6. Cardinality(LS \ {x}) = Cardinality(LS) - 1
    BY <1>1, <1>7, <1>8, <1>9, FS_RemoveElement
  <2>7. Cardinality(LS \ {x}) >= Limit(n)
    BY <1>7, <1>8, <1>10, <1>11, <2>6 DEF lc
  <2>8. BySplit'
    BY <1>1, <1>2, <1>5, <1>6, <1>8, <2>2, <2>4, <2>5, <2>7 DEF BySplit, n
  <2>9. ByHalves'  BY <1>2, <2>4 DEF ByHalves
  <2>10. QED  BY <2>4, <2>8, <2>9
<1>12. CASE (lc <= Limit(n) \/ ~(rc <= Limit(n))) /\ gist' = CommonToLeft(x)
  <2> DEFINE l == Place(left, x)
  <2>1. gist' = [gist EXCEPT !.todo = {}, !.common = common \ {x}, !.left = l, !.right = right]
    BY <1>0, <1>1, <1>12, Moves
  <2>2. l \in Groups /\ l.items = left.items \cup {x} /\ BoxCovers(l)
    BY <1>4, PlaceHas
  <2> HIDE DEF l
  <2>3. Moving({}, common \ {x}, l, right)
    BY <1>0, <1>1, <1>4, <1>5, <2>1, <2>2 DEF Moving, Disjoint
  <2>4. /\ gist'.split = split /\ gist'.common = common \ {x}
        /\ gist'.left = l /\ gist'.right = right
        /\ On(gist.page)' = S
        /\ LeftSide' = {y \in S \ right.items : FitsLeft(key[y], split)}
        /\ RightSide' = {y \in S \ l.items : FitsRight(key[y], split)}
        /\ BySplit' /\ ByHalves' => GistInv'
    BY <1>0, <2>3, MoveKeeps
  <2>5. LeftSide' = LS /\ RightSide' = RS \ {x}
    BY <1>1, <1>5, <1>6, <1>7, <1>8, <2>2, <2>4 DEF Disjoint
  <2>6. Cardinality(RS \ {x}) = Cardinality(RS) - 1
    BY <1>1, <1>7, <1>8, <1>9, FS_RemoveElement
  <2>7. Cardinality(RS \ {x}) >= Limit(n)
    <3>1. CASE ~(rc <= Limit(n))
      BY <1>7, <1>8, <1>10, <2>6, <3>1 DEF rc
    <3>2. CASE lc <= Limit(n)
      <4>1. Cardinality(right.items) >= Limit(n)
        BY <1>4, <1>7, <1>10, <3>2 DEF lc
      <4>2. Cardinality(common) >= 1
        <5>1. common # {}  BY <1>1
        <5>2. QED  BY <1>4, <1>5, <1>7, <5>1, FS_Subset, FS_EmptySet
      <4>3. QED  BY <1>7, <1>8, <1>10, <2>6, <4>1, <4>2 DEF rc
    <3>3. QED  BY <1>12, <3>1, <3>2
  <2>8. BySplit'
    BY <1>1, <1>2, <1>5, <1>6, <1>8, <2>2, <2>4, <2>5, <2>7 DEF BySplit, n
  <2>9. ByHalves'  BY <1>2, <2>4 DEF ByHalves
  <2>10. QED  BY <2>4, <2>8, <2>9
<1>13. QED  BY <1>3, <1>11, <1>12 DEF n, lc, rc

-----------------------------------------------------------------------------
(* The two groups become two pages. *)

\* A group that was split off covers all rows below it.
LEMMA GroupCovers ==
  ASSUME TreeOK, RowsCovered, NEW p \in Pages, NEW group \in Groups,
         group.items \subseteq On(p), BoxCovers(group), NEW r \in RowsOf(group.items)
  PROVE  Covers(group.box, BoxOf[r]) /\ InTree(r) /\ r \in IndexRows
<1>1. \/ r \in group.items /\ r \in IndexRows
      \/ \E c \in group.items \cap PageIds : r \in under[c]
  BY UnionHas DEF RowsOf
<1>2. CASE r \in group.items /\ r \in IndexRows
  <2>1. InTree(r)  BY <1>2, BelowInTree
  <2>2. QED  BY <1>2, <2>1 DEF TreeOK, BoxCovers
<1>3. CASE \E c \in group.items \cap PageIds : r \in under[c]
  <2>1. PICK c \in group.items \cap PageIds : r \in under[c]  BY <1>3
  <2>2. c # top /\ c \in Entries  BY <2>1, BelowInTree
  <2>3. Covers(key[c], BoxOf[r])  BY <2>1, <2>2 DEF RowsCovered
  <2>4. Covers(group.box, key[c])  BY <2>1 DEF BoxCovers
  <2>5. r \in IndexRows /\ InTree(r)  BY <2>1 DEF TreeOK
  <2>6. BoxOf[r] \in Keys2D  BY <2>5, GistAssumption DEF Keys2D
  <2>7. key[c] \in Keys2D /\ group.box \in Keys2D  BY <2>2 DEF TreeOK, Groups
  <2>8. QED  BY <2>3, <2>4, <2>5, <2>6, <2>7, CoversCovers
<1>4. QED  BY <1>1, <1>2, <1>3

LEMMA RowsOfSplit ==
  ASSUME NEW A, NEW B
  PROVE  RowsOf(A \cup B) = RowsOf(A) \cup RowsOf(B)
  BY DEF RowsOf

LEMMA RowsOfType ==
  ASSUME TreeOK, NEW A
  PROVE  RowsOf(A) \subseteq IndexRows
  BY DEF RowsOf, TreeOK

LEMMA PlacedFacts ==
  ASSUME GistInv, Placed
  PROVE  /\ TreeOK /\ RowsCovered /\ gist.page \in Pages /\ gist.page \in PageIds
         /\ gist.left \in Groups /\ gist.right \in Groups
         /\ BoxCovers(gist.left) /\ BoxCovers(gist.right)
         /\ On(gist.page) = gist.left.items \cup gist.right.items
         /\ gist.left.items \cap gist.right.items = {}
  BY SplitFacts DEF Placed, Sorted, Disjoint

LEMMA SplitPageInv ==
  ASSUME GistInv, SplitPage
  PROVE  GistInv'
<1>0. PICK p, L, R : p = gist.page /\ L = gist.left /\ R = gist.right  OBVIOUS
<1>1. PICK q \in Unused :
        /\ parent' = [x \in Entries |-> IF x \in R.items THEN q
                                        ELSE IF x = q THEN parent[p] ELSE parent[x]]
        /\ key' = [key EXCEPT ![p] = L.box, ![q] = R.box]
        /\ under' = [under EXCEPT ![p] = RowsOf(L.items), ![q] = RowsOf(R.items)]
  BY <1>0 DEF SplitPage
<1>2. PICK o : o = parent[p]  OBVIOUS
<1>3. /\ top' = top /\ p # top
      /\ gist' = AfterInto(o, Cardinality(On(o)) + 1)
      /\ TreeOK /\ RowsCovered /\ p \in Pages /\ p \in PageIds
      /\ L \in Groups /\ R \in Groups /\ BoxCovers(L) /\ BoxCovers(R)
      /\ On(p) = L.items \cup R.items /\ L.items \cap R.items = {}
  BY <1>0, <1>2, PlacedFacts DEF SplitPage
<1>4. /\ q \in PageIds /\ q \notin Pages /\ q # top /\ parent[q] = NoPage
      /\ On(q) = {} /\ under[q] = {} /\ q # p
  BY <1>1, <1>3, UnusedEmpty DEF Unused
<1>5. o \in Pages /\ o \in PageIds /\ o # p /\ o # q
  BY <1>2, <1>3, <1>4 DEF TreeOK, Pages, InTree, Entries
<1>6. p \in Entries /\ q \in Entries /\ p \in On(o) /\ NoPage \notin Entries
  BY <1>2, <1>3, <1>4, GistAssumption DEF On, Entries
<1>7. /\ \A x \in R.items : parent'[x] = q
      /\ \A x \in Entries \ R.items : x # q => parent'[x] = parent[x]
      /\ q \notin R.items /\ parent'[q] = o
  <2>1. q \notin On(p)  BY <1>3, <1>4, <1>6 DEF On, Entries
  <2>2. R.items \subseteq Entries  BY <1>3 DEF Groups
  <2>3. QED  BY <1>1, <1>2, <1>3, <1>6, <2>1, <2>2
<1>8. /\ On(p)' = L.items /\ On(q)' = R.items /\ On(o)' = On(o) \cup {q}
      /\ \A z \in PageIds \ {p, q, o} : On(z)' = On(z)
  <2>1. \A z : On(z)' = {x \in Entries : parent'[x] = z}  BY DEF On
  <2>2. \A x \in R.items : x \in Entries /\ parent[x] = p  BY <1>3 DEF On
  <2>3. \A x \in L.items : x \in Entries /\ parent[x] = p /\ x \notin R.items /\ x # q
    BY <1>3, <1>4, <1>6 DEF On, Entries
  <2>4. \A x \in Entries : parent[x] = p => x \in L.items \cup R.items  BY <1>3 DEF On
  <2>5. On(p)' = L.items
    <3>1. \A x \in L.items : x \in Entries /\ parent'[x] = p  BY <1>7, <2>3
    <3>2. \A x \in Entries : parent'[x] = p => x \in L.items
      BY <1>4, <1>5, <1>7, <2>4
    <3>3. QED  BY <2>1, <3>1, <3>2
  <2>6. On(q)' = R.items
    <3>1. \A x \in Entries : parent[x] # q  BY <1>4 DEF On
    <3>2. QED  BY <1>5, <1>7, <2>1, <2>2, <3>1
  <2>7. On(o)' = On(o) \cup {q}
    BY <1>5, <1>6, <1>7, <2>1, <2>2 DEF On
  <2>8. \A z \in PageIds \ {p, q, o} : On(z)' = On(z)
    BY <1>4, <1>6, <1>7, <2>1, <2>2 DEF On, Entries
  <2>9. QED  BY <2>5, <2>6, <2>7, <2>8
<1>9. /\ key'[p] = L.box /\ key'[q] = R.box
      /\ \A x \in Entries \ {p, q} : key'[x] = key[x]
      /\ under'[p] = RowsOf(L.items) /\ under'[q] = RowsOf(R.items)
      /\ \A x \in PageIds \ {p, q} : under'[x] = under[x]
  BY <1>1, <1>3, <1>4, <1>6 DEF TreeOK
<1>10. /\ parent' \in [Entries -> PageIds \cup {NoPage}]
       /\ key' \in [Entries -> Keys2D]
       /\ under' \in [PageIds -> SUBSET IndexRows]
  <2>1. L.box \in Keys2D /\ R.box \in Keys2D  BY <1>3 DEF Groups
  <2>2. RowsOf(L.items) \subseteq IndexRows /\ RowsOf(R.items) \subseteq IndexRows
    BY <1>3, RowsOfType
  <2>3. QED  BY <1>1, <1>2, <1>3, <1>4, <1>5, <1>6, <2>1, <2>2 DEF TreeOK
<1>11. under[p] = under'[p] \cup under'[q]
  <2>1. under[p] = RowsOf(L.items \cup R.items)  BY <1>3 DEF TreeOK
  <2>2. QED  BY <1>9, <2>1, RowsOfSplit
<1>12. \A z \in PageIds : under'[z] = RowsOf(On(z))'
  <2> SUFFICES ASSUME NEW z \in PageIds, NEW x
               PROVE  x \in under'[z] <=> x \in RowsOf(On(z))'
    OBVIOUS
  <2> DEFINE T == On(z)'
  <2>1. x \in RowsOf(On(z))' <=>
          x \in T \cap IndexRows \/ \E c \in T \cap PageIds : x \in under'[c]
    BY UnionHas DEF RowsOf
  <2>2. \A A : x \in RowsOf(A) <=>
          x \in A \cap IndexRows \/ \E c \in A \cap PageIds : x \in under[c]
    BY UnionHas DEF RowsOf
  <2>3. p \notin On(p) /\ q \notin On(p)  BY <1>2, <1>4, <1>5, <1>6 DEF On, Entries
  <2>4. \A c \in (L.items \cup R.items) \cap PageIds : under'[c] = under[c]
    BY <1>3, <1>9, <2>3
  <2>5. CASE z = p  BY <1>8, <1>9, <2>1, <2>2, <2>4, <2>5
  <2>6. CASE z = q  BY <1>8, <1>9, <2>1, <2>2, <2>4, <2>6
  <2>7. CASE z = o
    <3>1. T = On(o) \cup {q} /\ under'[o] = under[o]  BY <1>5, <1>8, <1>9, <2>7
    <3>2. x \in under[o] <=>
            x \in On(o) \cap IndexRows \/ \E c \in On(o) \cap PageIds : x \in under[c]
      BY <1>3, <1>5, <2>2 DEF TreeOK
    <3>3. q \notin IndexRows  BY <1>4, GistAssumption
    <3>4. q \notin On(o)  BY <1>4, <1>5, <1>6 DEF On, Entries
    <3>5. (\E c \in On(o) \cap PageIds : x \in under[c]) <=>
             \E c \in (On(o) \cup {q}) \cap PageIds : x \in under'[c]
      BY <1>3, <1>4, <1>6, <1>9, <1>11, <3>4
    <3>6. QED  BY <2>1, <2>7, <3>1, <3>2, <3>3, <3>5
  <2>8. CASE z \notin {p, q, o}
    <3>1. T = On(z) /\ under'[z] = under[z]  BY <1>8, <1>9, <2>8
    <3>2. p \notin On(z) /\ q \notin On(z)  BY <1>2, <1>4, <1>6, <2>8 DEF On, Entries
    <3>3. \A c \in On(z) \cap PageIds : under'[c] = under[c]  BY <1>9, <3>2
    <3>4. x \in under[z] <=> x \in RowsOf(On(z))  BY <1>3 DEF TreeOK
    <3>5. QED  BY <2>1, <2>2, <3>1, <3>3, <3>4
  <2>9. QED  BY <2>5, <2>6, <2>7, <2>8
<1>13. /\ \A x \in Entries : InTree(x)' <=> InTree(x) \/ x = q
       /\ Pages' = Pages \cup {q}
  <2>1. \A x \in R.items : parent[x] = p  BY <1>3 DEF On
  <2>2. \A x \in Entries : InTree(x)' <=> InTree(x) \/ x = q
    BY <1>3, <1>4, <1>5, <1>6, <1>7, <2>1 DEF InTree, Entries
  <2>3. QED  BY <1>3, <1>4, <2>2 DEF Pages, Entries
<1>14. TreeOK'
  <2>1. parent'[top'] = NoPage
    BY <1>3, <1>4, <1>6, <1>7 DEF TreeOK, Entries, On
  <2>2. \A x \in Entries : InTree(x)' => parent'[x] \in Pages' /\ parent'[x] # x
    BY <1>3, <1>4, <1>5, <1>7, <1>13 DEF TreeOK
  <2>3. \A z \in PageIds : \A r \in under'[z] : InTree(r)'
    <3>1. \A z \in PageIds : \A r \in under[z] : InTree(r) /\ r \in Entries
      BY <1>3 DEF TreeOK, Entries
    <3>2. QED  BY <1>3, <1>4, <1>9, <1>11, <1>13, <3>1
  <2>4. \A r \in IndexRows : InTree(r)' => key'[r] = BoxOf[r]
    <3>1. \A r \in IndexRows : r \in Entries /\ r # p /\ r # q
      BY <1>3, <1>4, GistAssumption DEF Entries
    <3>2. QED  BY <1>3, <1>9, <1>13, <3>1 DEF TreeOK
  <2>5. QED  BY <1>3, <1>10, <1>12, <2>1, <2>2, <2>3, <2>4 DEF TreeOK
<1>15. RowsCovered'
  <2> SUFFICES ASSUME NEW z \in PageIds \ {top}, NEW r \in under'[z]
               PROVE  Covers(key'[z], BoxOf[r])
    BY <1>3 DEF RowsCovered
  <2>1. CASE z = p  BY <1>3, <1>9, <2>1, GroupCovers
  <2>2. CASE z = q  BY <1>3, <1>9, <2>2, GroupCovers
  <2>3. CASE z \notin {p, q}  BY <1>3, <1>9, <2>3 DEF RowsCovered, Entries
  <2>4. QED  BY <2>1, <2>2, <2>3
<1>16. gist' = NoInsertion \/ (gist' = Overfull(o) /\ Cardinality(On(o)) + 1 > PageSize)
  BY <1>3 DEF AfterInto
<1>17. gist' \in Insertions  BY <1>5, <1>16 DEF Insertions, NoInsertion, Overfull
<1>18. DescentOK' /\ SplitOK'
  BY <1>16 DEF DescentOK, SplitOK, NoInsertion, Overfull
<1>19. OverfullOK'
  <2>1. CASE gist' = NoInsertion  BY <2>1 DEF OverfullOK, NoInsertion
  <2>2. CASE gist' = Overfull(o) /\ Cardinality(On(o)) + 1 > PageSize
    <3>1. q \notin On(o)  BY <1>4, <1>5, <1>6 DEF On, Entries
    <3>2. Cardinality(On(o)') = Cardinality(On(o)) + 1
      BY <1>8, <3>1, OnType, FS_AddElement
    <3>3. Cardinality(On(o)) \in Nat /\ PageSize \in Nat \ {0}  BY OnType, GistAssumption
    <3>4. Cardinality(On(o)') >= 2  BY <2>2, <3>2, <3>3
    <3>5. gist'.page = o  BY <2>2 DEF Overfull
    <3>6. On(gist.page)' = On(o)'  BY <3>5 DEF On
    <3>7. QED  BY <1>5, <1>13, <3>4, <3>5, <3>6 DEF OverfullOK
  <2>3. QED  BY <1>16, <2>1, <2>2
<1>20. QED  BY <1>14, <1>15, <1>17, <1>18, <1>19 DEF GistInv

LEMMA SplitTopInv ==
  ASSUME GistInv, SplitTop
  PROVE  GistInv'
<1>0. PICK p, L, R : p = gist.page /\ L = gist.left /\ R = gist.right  OBVIOUS
<1>1. PICK q \in Unused, n \in Unused :
        /\ n # q
        /\ parent' = [x \in Entries |-> IF x \in R.items THEN q
                                        ELSE IF x \in {p, q} THEN n ELSE parent[x]]
        /\ key' = [key EXCEPT ![p] = L.box, ![q] = R.box]
        /\ under' = [under EXCEPT ![p] = RowsOf(L.items), ![q] = RowsOf(R.items), ![n] = under[p]]
        /\ top' = n
  BY <1>0 DEF SplitTop
<1>2. /\ gist' = NoInsertion /\ p = top
      /\ TreeOK /\ RowsCovered /\ p \in Pages /\ p \in PageIds
      /\ L \in Groups /\ R \in Groups /\ BoxCovers(L) /\ BoxCovers(R)
      /\ On(p) = L.items \cup R.items /\ L.items \cap R.items = {}
  BY <1>0, PlacedFacts DEF SplitTop
<1>3. /\ q \in PageIds /\ q \notin Pages /\ parent[q] = NoPage
      /\ On(q) = {} /\ under[q] = {} /\ q # p
  BY <1>1, <1>2, UnusedEmpty DEF Unused
<1>4. /\ n \in PageIds /\ n \notin Pages /\ parent[n] = NoPage
      /\ On(n) = {} /\ under[n] = {} /\ n # p /\ n # q
  BY <1>1, <1>2, UnusedEmpty DEF Unused
<1>5. /\ p \in Entries /\ q \in Entries /\ n \in Entries /\ NoPage \notin Entries
      /\ parent[p] = NoPage
  BY <1>2, <1>3, <1>4, GistAssumption DEF Entries, TreeOK
<1>6. /\ \A x \in R.items : parent'[x] = q /\ x \in Entries /\ parent[x] = p
      /\ \A x \in L.items : parent'[x] = p /\ x \in Entries /\ parent[x] = p
      /\ \A x \in Entries \ (R.items \cup {p, q}) : parent'[x] = parent[x]
      /\ parent'[p] = n /\ parent'[q] = n /\ parent'[n] = NoPage
  <2>1. \A x \in L.items \cup R.items : x \in Entries /\ parent[x] = p  BY <1>2 DEF On
  <2>2. \A x \in {p, q, n} : x \notin L.items /\ x \notin R.items
    BY <1>3, <1>4, <1>5, <2>1
  <2>3. QED  BY <1>1, <1>2, <1>3, <1>4, <1>5, <2>1, <2>2
<1>7. /\ On(p)' = L.items /\ On(q)' = R.items /\ On(n)' = {p, q}
      /\ \A z \in PageIds \ {p, q, n} : On(z)' = On(z)
  <2>1. \A z : On(z)' = {x \in Entries : parent'[x] = z}  BY DEF On
  <2>2. \A x \in Entries : parent[x] = p => x \in L.items \cup R.items  BY <1>2 DEF On
  <2>3. \A x \in Entries : parent[x] # q /\ parent[x] # n  BY <1>3, <1>4 DEF On
  <2>4. On(p)' = L.items
    <3>1. \A x \in Entries : parent'[x] = p => x \in L.items
      BY <1>3, <1>4, <1>6, <2>2
    <3>2. QED  BY <1>6, <2>1, <3>1
  <2>5. On(q)' = R.items
    <3>1. \A x \in Entries : parent'[x] = q => x \in R.items
      BY <1>4, <1>6, <2>3
    <3>2. QED  BY <1>6, <2>1, <3>1
  <2>6. On(n)' = {p, q}
    <3>1. \A x \in Entries : parent'[x] = n => x \in {p, q}
      BY <1>4, <1>6, <2>3
    <3>2. QED  BY <1>5, <1>6, <2>1, <3>1
  <2>7. \A z \in PageIds \ {p, q, n} : On(z)' = On(z)
    <3> SUFFICES ASSUME NEW z \in PageIds \ {p, q, n}, NEW x \in Entries
                 PROVE  parent'[x] = z <=> parent[x] = z
      BY <2>1 DEF On
    <3>1. z # NoPage  BY <1>5 DEF Entries
    <3>2. QED  BY <1>3, <1>5, <1>6, <3>1
  <2>8. QED  BY <2>4, <2>5, <2>6, <2>7
<1>8. /\ key'[p] = L.box /\ key'[q] = R.box
      /\ \A x \in Entries \ {p, q} : key'[x] = key[x]
      /\ under'[p] = RowsOf(L.items) /\ under'[q] = RowsOf(R.items) /\ under'[n] = under[p]
      /\ \A x \in PageIds \ {p, q, n} : under'[x] = under[x]
  BY <1>1, <1>2, <1>3, <1>4, <1>5 DEF TreeOK
<1>9. /\ parent' \in [Entries -> PageIds \cup {NoPage}]
      /\ key' \in [Entries -> Keys2D]
      /\ under' \in [PageIds -> SUBSET IndexRows]
  <2>1. L.box \in Keys2D /\ R.box \in Keys2D  BY <1>2 DEF Groups
  <2>2. RowsOf(L.items) \subseteq IndexRows /\ RowsOf(R.items) \subseteq IndexRows
        /\ under[p] \subseteq IndexRows
    BY <1>2, RowsOfType DEF TreeOK
  <2>3. parent' \in [Entries -> PageIds \cup {NoPage}]  BY <1>1, <1>2, <1>3, <1>4 DEF TreeOK
  <2>4. key' \in [Entries -> Keys2D]  BY <1>1, <1>2, <2>1 DEF TreeOK
  <2>5. under' \in [PageIds -> SUBSET IndexRows]
    BY <1>1, <1>2, <2>2 DEF TreeOK
  <2>6. QED  BY <2>3, <2>4, <2>5
<1>10. under[p] = under'[p] \cup under'[q]
  <2>1. under[p] = RowsOf(L.items \cup R.items)  BY <1>2 DEF TreeOK
  <2>2. QED  BY <1>8, <2>1, RowsOfSplit
<1>11. \A z \in PageIds : under'[z] = RowsOf(On(z))'
  <2> SUFFICES ASSUME NEW z \in PageIds, NEW x
               PROVE  x \in under'[z] <=> x \in RowsOf(On(z))'
    OBVIOUS
  <2> DEFINE T == On(z)'
  <2>1. x \in RowsOf(On(z))' <=>
          x \in T \cap IndexRows \/ \E c \in T \cap PageIds : x \in under'[c]
    BY UnionHas DEF RowsOf
  <2>2. \A A : x \in RowsOf(A) <=>
          x \in A \cap IndexRows \/ \E c \in A \cap PageIds : x \in under[c]
    BY UnionHas DEF RowsOf
  <2>3. \A y : (p \notin On(y) /\ q \notin On(y) /\ n \notin On(y)) \/ y = NoPage
    BY <1>3, <1>4, <1>5 DEF On
  <2>4. z # NoPage /\ p # NoPage  BY <1>2, <1>5 DEF Entries
  <2>5. \A c \in (L.items \cup R.items) \cap PageIds : under'[c] = under[c]
    BY <1>2, <1>8, <2>3, <2>4
  <2>6. CASE z = p  BY <1>7, <1>8, <2>1, <2>2, <2>5, <2>6
  <2>7. CASE z = q  BY <1>7, <1>8, <2>1, <2>2, <2>5, <2>7
  <2>8. CASE z = n
    <3>1. T = {p, q} /\ under'[n] = under[p]  BY <1>7, <1>8, <2>8
    <3>2. p \notin IndexRows /\ q \notin IndexRows  BY <1>2, <1>3, GistAssumption
    <3>3. QED  BY <1>2, <1>3, <1>10, <2>1, <2>8, <3>1, <3>2
  <2>9. CASE z \notin {p, q, n}
    <3>1. T = On(z) /\ under'[z] = under[z]  BY <1>7, <1>8, <2>9
    <3>2. \A c \in On(z) \cap PageIds : under'[c] = under[c]  BY <1>8, <2>3, <2>4
    <3>3. x \in under[z] <=> x \in RowsOf(On(z))  BY <1>2 DEF TreeOK
    <3>4. QED  BY <2>1, <2>2, <3>1, <3>2, <3>3
  <2>10. QED  BY <2>6, <2>7, <2>8, <2>9
<1>12. /\ \A x \in Entries : InTree(x)' <=> (InTree(x) \/ x \in {p, q})
       /\ Pages' = Pages \cup {q, n}
  <2>1. \A x \in Entries : InTree(x)' <=> (InTree(x) \/ x \in {p, q})
    BY <1>2, <1>3, <1>4, <1>5, <1>6 DEF InTree, Entries
  <2>2. QED  BY <1>1, <1>2, <1>3, <1>4, <2>1 DEF Pages, Entries
<1>13. TreeOK'
  <2>1. top' \in PageIds /\ parent'[top'] = NoPage  BY <1>1, <1>4, <1>6
  <2>2. \A x \in Entries : InTree(x)' => parent'[x] \in Pages' /\ parent'[x] # x
    <3> SUFFICES ASSUME NEW x \in Entries, InTree(x)'
                 PROVE  parent'[x] \in Pages' /\ parent'[x] # x
      OBVIOUS
    <3>1. CASE x \in {p, q}  BY <1>4, <1>6, <1>12, <3>1
    <3>2. CASE x \in R.items
      <4>1. x # q  BY <1>2, <1>3, <1>5, <1>6, <3>2 DEF Entries
      <4>2. QED  BY <1>6, <1>12, <3>2, <4>1
    <3>3. CASE x \notin R.items \cup {p, q}
      BY <1>2, <1>6, <1>12, <3>3 DEF TreeOK
    <3>4. QED  BY <3>1, <3>2, <3>3
  <2>3. \A z \in PageIds : \A r \in under'[z] : InTree(r)'
    <3>1. \A z \in PageIds : \A r \in under[z] : InTree(r) /\ r \in Entries
      BY <1>2 DEF TreeOK, Entries
    <3>2. QED  BY <1>2, <1>3, <1>8, <1>10, <1>12, <3>1
  <2>4. \A r \in IndexRows : InTree(r)' => key'[r] = BoxOf[r]
    <3>1. \A r \in IndexRows : r \in Entries /\ r # p /\ r # q
      BY <1>2, <1>3, GistAssumption DEF Entries
    <3>2. QED  BY <1>2, <1>8, <1>12, <3>1 DEF TreeOK
  <2>5. QED  BY <1>9, <1>11, <2>1, <2>2, <2>3, <2>4 DEF TreeOK
<1>14. RowsCovered'
  <2> SUFFICES ASSUME NEW z \in PageIds \ {n}, NEW r \in under'[z]
               PROVE  Covers(key'[z], BoxOf[r])
    BY <1>1 DEF RowsCovered
  <2>1. CASE z = p  BY <1>2, <1>8, <2>1, GroupCovers
  <2>2. CASE z = q  BY <1>2, <1>8, <2>2, GroupCovers
  <2>3. CASE z \notin {p, q}  BY <1>2, <1>8, <2>3 DEF RowsCovered, Entries
  <2>4. QED  BY <2>1, <2>2, <2>3
<1>15. gist' \in Insertions /\ DescentOK' /\ OverfullOK' /\ SplitOK'
  BY <1>2 DEF Insertions, DescentOK, OverfullOK, SplitOK, NoInsertion
<1>16. QED  BY <1>13, <1>14, <1>15 DEF GistInv

-----------------------------------------------------------------------------
LEMMA GistInitInv ==
  ASSUME GistInit
  PROVE  GistInv
<1>1. top \in PageIds  BY GistAssumption DEF GistInit
<1>2. /\ parent \in [Entries -> PageIds \cup {NoPage}] /\ key \in [Entries -> Keys2D]
      /\ under \in [PageIds -> SUBSET IndexRows]
  BY DEF GistInit, Keys2D
<1>3. \A x \in Entries : parent[x] = NoPage  BY DEF GistInit
<1>4. \A p \in PageIds : On(p) = {} /\ under[p] = {}
  BY <1>3, GistAssumption DEF GistInit, On, Entries
<1>5. \A p \in PageIds : under[p] = RowsOf(On(p))  BY <1>4 DEF RowsOf
<1>6. TreeOK
  BY <1>1, <1>2, <1>3, <1>4, <1>5 DEF TreeOK, InTree, Entries
<1>7. RowsCovered  BY <1>4 DEF RowsCovered
<1>8. gist \in Insertions /\ DescentOK /\ OverfullOK /\ SplitOK
  BY DEF GistInit, Insertions, DescentOK, OverfullOK, SplitOK, NoInsertion
<1>9. QED  BY <1>6, <1>7, <1>8 DEF GistInv

LEMMA GistStepInv ==
  ASSUME GistInv, [GistNext]_gistVars
  PROVE  GistInv'
<1>1. CASE \E r \in IndexRows : GistInsert(r)  BY <1>1, InsertInv
<1>2. CASE \E e \in PageIds : Descend(e)  BY <1>2, DescendInv
<1>3. CASE Put  BY <1>3, PutInv
<1>4. CASE PickSplit  BY <1>4, PickSplitInv
<1>5. CASE Distribute  BY <1>5, DistributeInv
<1>6. CASE DistributeHalves  BY <1>6, HalvesInv
<1>7. CASE \E x \in Entries : PlaceCommon(x)  BY <1>7, CommonInv
<1>8. CASE SplitPage  BY <1>8, SplitPageInv
<1>9. CASE SplitTop  BY <1>9, SplitTopInv
<1>10. CASE UNCHANGED gistVars
  <2>1. TreeOK' /\ RowsCovered'  BY <1>10, TreeStays DEF GistInv, gistVars
  <2>2. gist' \in Insertions /\ DescentOK' /\ OverfullOK' /\ SplitOK'
    BY <1>10 DEF GistInv, gistVars, DescentOK, OverfullOK, SplitOK, Sorted, BoxCovers, BySplit,
       ByHalves, LeftSide, RightSide, On, Pages, InTree
  <2>3. QED  BY <2>1, <2>2 DEF GistInv
<1>11. QED
  BY <1>1, <1>2, <1>3, <1>4, <1>5, <1>6, <1>7, <1>8, <1>9, <1>10 DEF GistNext

LEMMA GistInvariant == GistSpec => []GistInv
<1>1. GistInit => GistInv  BY GistInitInv
<1>2. GistInv /\ [GistNext]_gistVars => GistInv'  BY GistStepInv
<1>3. QED  BY <1>1, <1>2, PTL DEF GistSpec

LEMMA EmptyLeaf ==
  ASSUME NEW q \in BOX2DF, NEW op \in Strategies, consistent_leaf(EmptyBox, q, op)
  PROVE  op \in {"~", "@"}
<1>1. EmptyBox # q  BY EmptyIsNoBox
<1>2. ~NoneEmpty(EmptyBox, q)  BY DEF NoneEmpty, box2df_is_empty
<1>3. QED
  BY <1>1, <1>2 DEF consistent_leaf, Strategies, box2df_overlaps, box2df_equals, box2df_left,
     box2df_overleft, box2df_right, box2df_overright, box2df_below, box2df_overbelow,
     box2df_above, box2df_overabove

LEMMA InvAgrees ==
  ASSUME GistInv
  PROVE  ScansAgree
<1> SUFFICES ASSUME NEW r \in IndexRows, InTree(r), NEW q \in Queries, NEW op \in Strategies
             PROVE  /\ predicate(r, q, op) => Returned(r, q, op)
                    /\ Returned(r, q, op) =>
                         predicate(r, q, op) \/ (op \in {"~", "@"} /\ box2df_is_empty(BoxOf[r]))
  BY DEF ScansAgree
<1>1. TreeOK /\ RowsCovered /\ key[r] = BoxOf[r]  BY DEF GistInv, TreeOK
<1>2. q \in BOX2DF /\ (BoxOf[r] \in BOX2DF \/ BoxOf[r] = EmptyBox)  BY GistAssumption
<1>3. ASSUME predicate(r, q, op)  PROVE Returned(r, q, op)
  <2>1. consistent_leaf(BoxOf[r], q, op) /\ BoxOf[r] \in BOX2DF
    BY <1>2, <1>3 DEF predicate, box2df_is_empty
  <2>2. ASSUME NEW p \in PageIds \ {top}, r \in under[p]
        PROVE  consistent_internal(key[p], q, op)
    <3>1. Covers(key[p], BoxOf[r])  BY <1>1, <2>2 DEF RowsCovered
    <3>2. key[p] \in Keys2D  BY <1>1 DEF TreeOK, Entries
    <3>3. QED  BY <1>2, <2>1, <3>1, <3>2, Admissible
  <2>3. QED  BY <1>1, <2>1, <2>2 DEF Returned
<1>4. ASSUME Returned(r, q, op), ~predicate(r, q, op)
      PROVE  op \in {"~", "@"} /\ box2df_is_empty(BoxOf[r])
  <2>1. consistent_leaf(BoxOf[r], q, op)  BY <1>1, <1>4 DEF Returned
  <2>2. BoxOf[r] = EmptyBox  BY <1>4, <2>1 DEF predicate, box2df_is_empty
  <2>3. QED  BY <1>2, <2>1, <2>2, EmptyLeaf DEF box2df_is_empty
<1>5. QED  BY <1>3, <1>4

LEMMA InvNearest ==
  ASSUME GistInv
  PROVE  NearestFirst
<1> SUFFICES ASSUME NEW p \in PageIds \ {top}, NEW r \in under[p], BoxOf[r] # EmptyBox
             PROVE  /\ key[p] # EmptyBox
                    /\ \A q \in Queries :
                         DistanceSquared(key[p], q) <= DistanceSquared(BoxOf[r], q)
  BY DEF NearestFirst, box2df_is_empty
<1>1. r \in IndexRows /\ key[p] \in Keys2D /\ Covers(key[p], BoxOf[r])
  BY DEF GistInv, TreeOK, RowsCovered, Entries
<1>2. BoxOf[r] \in BOX2DF  BY <1>1, GistAssumption
<1>3. key[p] # EmptyBox /\ key[p] \in BOX2DF  BY <1>1 DEF Covers, Keys2D
<1>4. \A q \in Queries : q \in BOX2DF  BY GistAssumption
<1>5. QED  BY <1>1, <1>2, <1>3, <1>4, GapsShrink

LEMMA InvSplit ==
  ASSUME GistInv
  PROVE  SplitSound
<1> SUFFICES ASSUME gist.op = "split"
             PROVE  /\ gist.split # Halves =>
                         /\ \A x \in gist.left.items : FitsLeft(key[x], gist.split)
                         /\ \A x \in gist.right.items : FitsRight(key[x], gist.split)
                    /\ Placed =>
                         /\ gist.left.items \cup gist.right.items = On(gist.page)
                         /\ gist.left.items \cap gist.right.items = {}
                         /\ Cardinality(gist.left.items) >= Limit(Cardinality(On(gist.page)))
                         /\ Cardinality(gist.right.items) >= Limit(Cardinality(On(gist.page)))
  BY DEF SplitSound
<1> DEFINE L == gist.left.items  R == gist.right.items  S == On(gist.page)  n == Cardinality(S)
<1>1. gist.split # Halves =>
        /\ \A x \in L : FitsLeft(key[x], gist.split)
        /\ \A x \in R : FitsRight(key[x], gist.split)
        /\ Cardinality(LeftSide) >= Limit(n) /\ Cardinality(RightSide) >= Limit(n)
  BY SplitFacts DEF BySplit
<1>2. n \in Nat /\ n >= 2 /\ IsFiniteSet(S)  BY SplitFacts, OnType
<1>3. ASSUME Placed
      PROVE  /\ L \cup R = S /\ L \cap R = {}
             /\ Cardinality(L) >= Limit(n) /\ Cardinality(R) >= Limit(n)
  <2>1. gist.todo = {} /\ gist.common = {}  BY <1>3 DEF Placed
  <2>2. L \cup R = S /\ L \cap R = {}  BY <2>1, SplitFacts DEF Sorted, Disjoint
  <2>3. CASE gist.split # Halves
    <3>1. LeftSide = L /\ RightSide = R  BY <2>1, <2>3, SidesCount
    <3>2. QED  BY <1>1, <2>2, <2>3, <3>1
  <2>4. CASE gist.split = Halves
    <3>1. /\ Cardinality(L) <= n \div 2
          /\ R # {} => Cardinality(L) = n \div 2
      BY <2>4, SplitFacts DEF ByHalves
    <3> HIDE DEF n, L, R, S
    <3>2. /\ IsFiniteSet(L) /\ IsFiniteSet(R)
          /\ Cardinality(L) \in Nat /\ Cardinality(R) \in Nat
      BY <1>2, <2>2, FS_Subset, FS_CardinalityType
    <3>3. n = Cardinality(L) + Cardinality(R)
      <4>1. Cardinality(L \cup R) = Cardinality(L) + Cardinality(R)
        BY <2>2, <3>2, DisjointUnion
      <4>2. QED  BY <2>2, <4>1 DEF n
    <3>4. R # {}
      <4>1. R = {} => Cardinality(R) = 0  BY FS_EmptySet
      <4>2. QED  BY <1>2, <3>1, <3>2, <3>3, <4>1
    <3>5. Cardinality(L) = n \div 2 /\ Cardinality(R) >= n \div 2
      BY <1>2, <3>1, <3>2, <3>3, <3>4
    <3>6. Limit(n) \in Nat /\ Limit(n) <= n \div 2  BY <1>2, LimitIsSmall
    <3>7. QED  BY <1>2, <2>2, <3>2, <3>5, <3>6
  <2>5. QED  BY <2>3, <2>4
<1>4. QED  BY <1>1, <1>3

\* The links of the tree, the keys and the insertion that runs stay what their
\* declarations say: picksplit and the descent never lose or double an entry.
THEOREM GistTypeCorrect == GistSpec => []GistTypeOK
<1>1. GistInv => GistTypeOK  BY DEF GistInv, TreeOK, GistTypeOK
<1>2. QED  BY <1>1, GistInvariant, PTL

\* Whatever tree the insertions made, a scan by consistent returns the rows that
\* gserialized_datum_predicate_2d accepts, and beside them empty geometries only.
THEOREM ScansAlwaysAgree == GistSpec => []ScansAgree
<1>1. GistInv => ScansAgree  BY InvAgrees
<1>2. QED  BY <1>1, GistInvariant, PTL

\* box2df_distance to a page is a lower bound for the rows below it.
THEOREM AlwaysNearestFirst == GistSpec => []NearestFirst
<1>1. GistInv => NearestFirst  BY InvNearest
<1>2. QED  BY <1>1, GistInvariant, PTL

\* gserialized_gist_picksplit_2d fills both groups to the limit, and puts no
\* entry on a side on which it does not fit.
THEOREM SplitsAlwaysSound == GistSpec => []SplitSound
<1>1. GistInv => SplitSound  BY InvSplit
<1>2. QED  BY <1>1, GistInvariant, PTL
=============================================================================
