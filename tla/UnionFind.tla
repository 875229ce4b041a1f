----------------------------- MODULE UnionFind -----------------------------
(***************************************************************************)
(* The union-find of liblwgeom/lwunionfind.c, one step of its loops at a   *)
(* time: UF_find climbs to the root of an element's tree and then makes    *)
(* every element on the way point to the root; UF_union hangs the root of  *)
(* the smaller class below that of the larger.                             *)
(*                                                                         *)
(* united is not in the code: it is the partition that the calls of        *)
(* UF_union so far ask for.                                                *)
(***************************************************************************)
EXTENDS Naturals, FiniteSets

CONSTANT N   \* number of elements

ASSUME UnionFindAssumption == N \in Nat \ {0}

Elements == 0 .. N - 1

VARIABLES
  clusters,       \* the parent of each element, itself for a root
  cluster_sizes,  \* the number of elements of each root's class
  num_clusters,   \* the number of classes
  call,           \* the call that runs
  united          \* the classes that UF_union was asked for

ufVars == <<clusters, cluster_sizes, num_clusters, call, united>>

\* The partition, read off the arrays: the elements with the same root.
Up[k \in Nat] ==
  IF k = 0 THEN [i \in Elements |-> i]
           ELSE LET above == Up[k - 1] IN [i \in Elements |-> clusters[above[i]]]

SameRoot == LET root == Up[N] IN {{j \in Elements : root[j] = root[i]} : i \in Elements}

P == INSTANCE Partition WITH classes <- SameRoot

IsRoot(i) == clusters[i] = i

UFIdle == [op |-> "none"]

(***************************************************************************)
(* A call: op, its arguments i and j, the loop it is in (pc), the          *)
(* variables of UF_find - element and base - and the root that UF_union    *)
(* found for i, N before it has.                                           *)
(***************************************************************************)
Started(op, i, j) ==
  [op |-> op, i |-> i, j |-> j, pc |-> "climb", element |-> i, base |-> i, a |-> N]

\* UF_create
UFInit ==
  /\ clusters = [i \in Elements |-> i]
  /\ cluster_sizes = [i \in Elements |-> 1]
  /\ num_clusters = N
  /\ call = UFIdle
  /\ united = P!Alone

CallUF_find(i) ==
  /\ call = UFIdle
  /\ call' = Started("find", i, i)
  /\ UNCHANGED <<clusters, cluster_sizes, num_clusters, united>>

CallUF_union(i, j) ==
  /\ call = UFIdle
  /\ call' = Started("union", i, j)
  /\ UNCHANGED <<clusters, cluster_sizes, num_clusters, united>>

-----------------------------------------------------------------------------
(* UF_find *)

Climb ==
  /\ call # UFIdle /\ call.pc = "climb"
  /\ call' = IF IsRoot(call.base)
             THEN [call EXCEPT !.pc = "compress"]
             ELSE [call EXCEPT !.base = clusters[@]]
  /\ UNCHANGED <<clusters, cluster_sizes, num_clusters, united>>

\* mutant: the root is made to point to the element
RootToElement(e, base) == [clusters EXCEPT ![base] = e]

ElementToRoot(e, base) == [clusters EXCEPT ![e] = base]

Compress ==
  /\ call # UFIdle /\ call.pc = "compress"
  /\ call.element # call.base
  /\ clusters' = ElementToRoot(call.element, call.base)
  /\ call' = [call EXCEPT !.element = clusters[@]]
  /\ UNCHANGED <<cluster_sizes, num_clusters, united>>

\* mutant: the second search starts where the first one ended
SecondFromRoot ==
  [call EXCEPT !.a = call.base, !.pc = "compress", !.element = call.j]

\* UF_union goes on to find the root of j.
Second ==
  [call EXCEPT !.a = call.base, !.pc = "climb", !.element = call.j, !.base = call.j]

Return ==
  /\ call # UFIdle /\ call.pc = "compress"
  /\ call.element = call.base
  /\ call' = IF call.op = "find" THEN UFIdle
             ELSE IF call.a = N THEN Second
             ELSE [call EXCEPT !.pc = "link"]
  /\ UNCHANGED <<clusters, cluster_sizes, num_clusters, united>>

-----------------------------------------------------------------------------
(* UF_union, with the roots a of i and b of j *)

Below(a, b) ==
  \/ cluster_sizes[a] < cluster_sizes[b]
  \/ cluster_sizes[a] = cluster_sizes[b] /\ a > b

\* mutant: the size of the class that goes is kept
SizesKept(low, high) ==
  [cluster_sizes EXCEPT ![high] = cluster_sizes[high] + cluster_sizes[low]]

SizesJoined(low, high) ==
  [cluster_sizes EXCEPT ![high] = cluster_sizes[high] + cluster_sizes[low], ![low] = 0]

\* mutant: the two roots are not compared
NeverSame(a, b) == FALSE

SameCluster(a, b) == a = b

Hang(low, high) ==
  /\ clusters' = [clusters EXCEPT ![low] = clusters[high]]
  /\ cluster_sizes' = SizesJoined(low, high)

Link ==
  LET a == call.a
      b == call.base
  IN  /\ call # UFIdle /\ call.pc = "link"
      /\ \/ /\ SameCluster(a, b)
            /\ UNCHANGED <<clusters, cluster_sizes, num_clusters>>
         \/ /\ ~SameCluster(a, b)
            /\ IF Below(a, b) THEN Hang(a, b) ELSE Hang(b, a)
            /\ num_clusters' = num_clusters - 1
      /\ call' = UFIdle
      /\ united' = P!Merge(united, {call.i, call.j})

-----------------------------------------------------------------------------
UFStep == Climb \/ Compress \/ Return \/ Link

UFNext ==
  \/ UFStep
  \/ \E i \in Elements : CallUF_find(i) \/ \E j \in Elements : CallUF_union(i, j)

\* A call runs on until it returns: its loops wait for nothing.
UFSpec == UFInit /\ [][UFNext]_ufVars /\ WF_ufVars(UFStep)

-----------------------------------------------------------------------------
Calls ==
  [op : {"find", "union"}, i : Elements, j : Elements, pc : {"climb", "compress", "link"},
   element : Elements, base : Elements, a : 0 .. N]

\* The variables hold values of the types their declarations say.
UFTypeOK ==
  /\ clusters \in [Elements -> Elements]
  /\ cluster_sizes \in [Elements -> 0 .. N]
  /\ num_clusters \in 1 .. N
  /\ call \in Calls \cup {UFIdle}
  /\ united \in SUBSET SUBSET Elements

\* Between any two steps of a call, every class that was asked for has just one
\* root, and all its elements point into it, so that two elements have the same
\* root if and only if they were united.
UFOneRoot ==
  \A c \in united :
    /\ \E r \in c : IsRoot(r) /\ \A i \in c : IsRoot(i) => i = r
    /\ \A i \in c : clusters[i] \in c

\* The sizes and the number of classes are those of the classes.  UF_union
\* reads sizes only at roots, where a wrong one would go unnoticed: it decides
\* how deep the trees get, and never which elements are together.
UFSizesExact ==
  /\ num_clusters = Cardinality(united)
  /\ \A c \in united : \A i \in c :
       cluster_sizes[i] = IF IsRoot(i) THEN Cardinality(c) ELSE 0

\* Read off the arrays alone, the classes only ever change by the union of two.
UFPartition == P!Spec

\* Every call returns: no path of parents is a circle.
UFReturns == call # UFIdle ~> call = UFIdle
=============================================================================
