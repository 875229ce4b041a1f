--------------------------- MODULE ClusterProofs ---------------------------
(***************************************************************************)
(* Clustering, and the union-find it rests on.                             *)
(*                                                                         *)
(* What holds between any two steps of the loops of UF_find and UF_union,  *)
(* for any number of elements: every class that was asked for has exactly  *)
(* one root and is closed under the parent pointers, and the sizes and the *)
(* number of classes are exact.  No path of parents is a circle, so N      *)
(* steps lead from any element to the root of its class: what the arrays   *)
(* say is the partition that was asked for, which changes as module        *)
(* Partition has it, and the walks of ClusterIds through the sorted        *)
(* elements find its classes.                                              *)
(*                                                                         *)
(* union_dbscan computes a clustering, for any geometries, any eps and any *)
(* min_points, in whatever order the geometries' candidates come.          *)
(***************************************************************************)
EXTENDS ClusterIds, Clustering, FiniteSetTheorems, NaturalsInduction, WellFoundedInduction, TLAPS

Same(x, y) == P!Together(united, x, y)

IsPartition(part) ==
  /\ part \in SUBSET SUBSET Elements
  /\ \A i \in Elements : \E c \in part : i \in c
  /\ \A c, d \in part : c = d \/ c \cap d = {}
  /\ \A c \in part : c # {}

\* The argument whose root is looked for.
Sought == IF call.a = N THEN call.i ELSE call.j

\* What a call that runs has found so far stays in the classes of its
\* arguments, and the roots it has found stay roots.
CallInv ==
  call # UFIdle =>
    /\ Same(Sought, call.element)
    /\ Same(Sought, call.base)
    /\ call.pc # "climb" => IsRoot(call.base)
    /\ call.pc = "link" => call.a # N
    /\ call.a # N => IsRoot(call.a) /\ Same(call.i, call.a)

UFInv ==
  /\ UFTypeOK
  /\ IsPartition(united)
  /\ UFOneRoot
  /\ UFSizesExact
  /\ CallInv

-----------------------------------------------------------------------------
(* Partitions. *)

LEMMA ElementsFinite == IsFiniteSet(Elements) /\ Cardinality(Elements) = N
<1>1. N \in Nat /\ N # 0  BY UnionFindAssumption
<1>2. 0 \in Int /\ N - 1 \in Int /\ ~(0 > N - 1) /\ (N - 1) - 0 + 1 = N  BY <1>1
<1>3. IsFiniteSet(0 .. N - 1) /\ Cardinality(0 .. N - 1) = (N - 1) - 0 + 1
  BY <1>2, FS_Interval
<1>4. QED  BY <1>2, <1>3 DEF Elements

LEMMA PartitionFinite ==
  ASSUME NEW part, IsPartition(part)
  PROVE  /\ IsFiniteSet(part)
         /\ \A c \in part : IsFiniteSet(c) /\ Cardinality(c) \in 1 .. N
<1>1. IsFiniteSet(part)
  <2>1. IsFiniteSet(SUBSET Elements)  BY ElementsFinite, FS_SUBSET
  <2>2. part \in SUBSET SUBSET Elements  BY DEF IsPartition
  <2>3. QED  BY <2>1, <2>2, FS_Subset
<1>2. ASSUME NEW c \in part  PROVE IsFiniteSet(c) /\ Cardinality(c) \in 1 .. N
  <2>1. c \in SUBSET Elements /\ c # {}  BY DEF IsPartition
  <2>2. IsFiniteSet(c) /\ Cardinality(c) <= N  BY <2>1, ElementsFinite, FS_Subset
  <2>3. Cardinality(c) \in Nat /\ Cardinality(c) # 0
    BY <2>1, <2>2, FS_CardinalityType, FS_EmptySet
  <2>4. QED  BY <2>2, <2>3, UnionFindAssumption
<1>3. QED  BY <1>1, <1>2

LEMMA SameClass ==
  ASSUME NEW part, IsPartition(part), NEW x, NEW y,
         P!Together(part, x, y), NEW c \in part, x \in c
  PROVE  y \in c
<1>1. PICK d \in part : x \in d /\ y \in d  BY DEF P!Together
<1>2. c = d  BY <1>1 DEF IsPartition
<1>3. QED  BY <1>1, <1>2

\* Merging the classes c of i and d of j leaves the other classes alone.
LEMMA MergeTwo ==
  ASSUME NEW part, IsPartition(part),
         NEW c \in part, NEW d \in part, NEW i \in c, NEW j \in d
  PROVE  P!Merge(part, {i, j}) = (part \ {c, d}) \cup {c \cup d}
<1>1. {x \in part : x \cap {i, j} # {}} = {c, d}
  BY DEF IsPartition
<1>2. {x \in part : x \cap {i, j} = {}} = part \ {c, d}
  BY <1>1
<1>3. UNION {c, d} = c \cup d
  OBVIOUS
<1>4. QED  BY <1>1, <1>2, <1>3 DEF P!Merge

LEMMA MergePartition ==
  ASSUME NEW part, IsPartition(part), NEW c \in part, NEW d \in part
  PROVE  IsPartition((part \ {c, d}) \cup {c \cup d})
<1> DEFINE merged == (part \ {c, d}) \cup {c \cup d}
<1>1. merged \in SUBSET SUBSET Elements  BY DEF IsPartition
<1>2. ASSUME NEW i \in Elements  PROVE \E x \in merged : i \in x
  <2>1. PICK x \in part : i \in x  BY DEF IsPartition
  <2>2. x \in {c, d} => i \in c \cup d  BY <2>1
  <2>3. x \notin {c, d} => x \in merged  OBVIOUS
  <2>4. c \cup d \in merged  OBVIOUS
  <2>5. QED  BY <2>1, <2>2, <2>3, <2>4
<1>3. \A x, y \in merged : x = y \/ x \cap y = {}  BY DEF IsPartition
<1>4. \A x \in merged : x # {}  BY DEF IsPartition
<1>5. QED  BY <1>1, <1>2, <1>3, <1>4 DEF IsPartition

LEMMA MergeCardinality ==
  ASSUME NEW part, IsPartition(part), NEW c \in part, NEW d \in part, c # d
  PROVE  /\ Cardinality((part \ {c, d}) \cup {c \cup d}) = Cardinality(part) - 1
         /\ Cardinality(c \cup d) = Cardinality(c) + Cardinality(d)
<1> DEFINE others == part \ {c, d}
           merged == others \cup {c \cup d}
<1>1. IsFiniteSet(part) /\ IsFiniteSet(c) /\ IsFiniteSet(d)  BY PartitionFinite
<1>2. c \cap d = {} /\ c # {} /\ d # {}  BY DEF IsPartition
<1>3. c \cup d \notin part  BY <1>2 DEF IsPartition
<1>4. IsFiniteSet(part \ {c}) /\ Cardinality(part \ {c}) = Cardinality(part) - 1
  BY <1>1, FS_RemoveElement
<1>5. d \in part \ {c}  OBVIOUS
<1>6. others = (part \ {c}) \ {d}  OBVIOUS
<1>7. IsFiniteSet(others) /\ Cardinality(others) = Cardinality(part \ {c}) - 1
  BY <1>4, <1>5, <1>6, FS_RemoveElement
<1>8. Cardinality(merged) = Cardinality(others) + 1
  BY <1>3, <1>7, FS_AddElement
<1>9. Cardinality(part) \in Nat  BY <1>1, FS_CardinalityType
<1>10. Cardinality(merged) = Cardinality(part) - 1
  <2> HIDE DEF others, merged
  <2>1. QED  BY <1>4, <1>7, <1>8, <1>9
<1>11. Cardinality(c \cup d) = Cardinality(c) + Cardinality(d) - Cardinality(c \cap d)
  BY <1>1, FS_Union
<1>12. Cardinality(c \cap d) = 0  BY <1>2, FS_EmptySet
<1>13. Cardinality(c) \in Nat /\ Cardinality(d) \in Nat  BY <1>1, FS_CardinalityType
<1>14. QED  BY <1>10, <1>11, <1>12, <1>13

-----------------------------------------------------------------------------
(* The parts of the invariant, step by step. *)

LEMMA UFInitInv == UFInit => UFInv
<1> SUFFICES ASSUME UFInit  PROVE UFInv
  OBVIOUS
<1> USE DEF UFInit
<1>1. N \in Nat /\ N # 0  BY UnionFindAssumption
<1>2. IsPartition(united)  BY DEF IsPartition, P!Alone
<1>3. UFTypeOK
  <2>1. 1 \in 0 .. N /\ N \in 1 .. N  BY <1>1
  <2>2. QED  BY <2>1 DEF UFTypeOK, P!Alone
<1>4. UFOneRoot  BY DEF UFOneRoot, IsRoot, P!Alone
<1>5. UFSizesExact
  <2>1. Cardinality(united) = N
    <3>1. united = {{i} : i \in Elements}  BY DEF P!Alone
    <3> DEFINE single == [i \in Elements |-> {i}]
    <3>2. single \in Bijection(Elements, united)
      BY <3>1 DEF Bijection, Injection, Surjection, IsInjective
    <3>3. ExistsBijection(Elements, united)  BY <3>2 DEF ExistsBijection
    <3>4. QED  BY <3>3, ElementsFinite, FS_Bijection
  <2>2. ASSUME NEW c \in united, NEW i \in c
        PROVE  cluster_sizes[i] = IF IsRoot(i) THEN Cardinality(c) ELSE 0
    <3>1. c = {i} /\ i \in Elements  BY DEF P!Alone
    <3>2. Cardinality(c) = 1  BY <3>1, FS_Singleton
    <3>3. QED  BY <3>1, <3>2 DEF IsRoot
  <2>3. QED  BY <2>1, <2>2 DEF UFSizesExact
<1>6. CallInv  BY DEF CallInv
<1>7. QED  BY <1>2, <1>3, <1>4, <1>5, <1>6 DEF UFInv

\* The parents of an element are in its class.
LEMMA ParentSame ==
  ASSUME UFInv, NEW x \in Elements, NEW y, Same(x, y)
  PROVE  y \in Elements /\ clusters[y] \in Elements /\ Same(x, clusters[y])
<1>1. PICK c \in united : x \in c /\ y \in c  BY DEF Same, P!Together
<1>2. clusters[y] \in c  BY <1>1 DEF UFInv, UFOneRoot
<1>3. c \subseteq Elements  BY DEF UFInv, IsPartition
<1>4. QED  BY <1>1, <1>2, <1>3 DEF Same, P!Together

\* A running call and its type.
LEMMA CallType ==
  ASSUME UFInv, call # UFIdle
  PROVE  /\ call \in Calls
         /\ Sought \in Elements
  BY DEF UFInv, UFTypeOK, Calls, Sought

LEMMA SameSelf ==
  ASSUME UFInv, NEW x \in Elements
  PROVE  Same(x, x)
  BY DEF UFInv, IsPartition, Same, P!Together

\* A step that leaves the arrays alone keeps what is said of them.
LEMMA ArraysKept ==
  ASSUME UFInv, UNCHANGED <<clusters, cluster_sizes, num_clusters, united>>,
         call' \in Calls \cup {UFIdle}, CallInv'
  PROVE  UFInv'
  BY DEF UFInv, UFTypeOK, IsPartition, UFOneRoot, UFSizesExact, IsRoot

LEMMA StartInv ==
  ASSUME UFInv, NEW op \in {"find", "union"}, NEW i \in Elements, NEW j \in Elements,
         call' = Started(op, i, j),
         UNCHANGED <<clusters, cluster_sizes, num_clusters, united>>
  PROVE  UFInv'
<1>1. N \in 0 .. N  BY UnionFindAssumption
<1>2. call' \in Calls  BY <1>1 DEF Started, Calls
<1>3. CallInv'  BY SameSelf DEF Started, CallInv, Same, Sought, IsRoot
<1>4. QED  BY <1>2, <1>3, ArraysKept

LEMMA ClimbInv ==
  ASSUME UFInv, Climb
  PROVE  UFInv'
<1>1. call \in Calls /\ call.pc = "climb" /\ Sought \in Elements
  BY CallType DEF Climb
<1>2. Same(Sought, call.element) /\ Same(Sought, call.base)
  BY DEF UFInv, CallInv, Climb
<1>3. clusters[call.base] \in Elements /\ Same(Sought, clusters[call.base])
  BY <1>1, <1>2, ParentSame
<1>4. CASE IsRoot(call.base)
  <2>1. call' = [call EXCEPT !.pc = "compress"]  BY <1>4 DEF Climb
  <2>2. call' \in Calls  BY <1>1, <2>1 DEF Calls
  <2>3. CallInv'
    BY <1>1, <1>2, <1>4, <2>1 DEF UFInv, CallInv, Climb, Same, Sought, IsRoot, Calls
  <2>4. QED  BY <2>2, <2>3, ArraysKept DEF Climb
<1>5. CASE ~IsRoot(call.base)
  <2>1. call' = [call EXCEPT !.base = clusters[call.base]]  BY <1>5 DEF Climb
  <2>2. call' \in Calls  BY <1>1, <1>3, <2>1 DEF Calls
  <2>3. CallInv'
    BY <1>1, <1>2, <1>3, <2>1 DEF UFInv, CallInv, Climb, Same, Sought, IsRoot, Calls
  <2>4. QED  BY <2>2, <2>3, ArraysKept DEF Climb
<1>6. QED  BY <1>4, <1>5

LEMMA ReturnInv ==
  ASSUME UFInv, Return
  PROVE  UFInv'
<1>1. call \in Calls /\ call.pc = "compress" /\ Sought \in Elements
  BY CallType DEF Return
<1>2. /\ Same(Sought, call.base) /\ IsRoot(call.base)
      /\ call.element = call.base
  BY <1>1 DEF UFInv, CallInv, Return
<1>3. CASE call.op = "find"
  <2>1. call' = UFIdle  BY <1>3 DEF Return
  <2>2. CallInv'  BY <2>1 DEF CallInv
  <2>3. QED  BY <2>1, <2>2, ArraysKept DEF Return
<1>4. CASE call.op # "find" /\ call.a = N
  <2>1. call' = Second  BY <1>4 DEF Return
  <2>2. call.base \in Elements /\ call.base \in 0 .. N /\ call.base # N
    BY <1>1, UnionFindAssumption DEF Calls, Elements
  <2>3. call' \in Calls  BY <1>1, <2>1, <2>2 DEF Second, Calls
  <2>4. call'.a = call.base /\ call'.pc = "climb" /\ call'.element = call.j
        /\ call'.base = call.j /\ call'.i = call.i /\ call'.j = call.j
    BY <1>1, <2>1 DEF Second, Calls
  <2>5. Same(call.j, call.j)  BY <1>1, SameSelf DEF Calls
  <2>6. Same(call.i, call.base)  BY <1>2, <1>4 DEF Sought
  <2>7. CallInv'
    BY <1>2, <2>2, <2>4, <2>5, <2>6 DEF CallInv, Return, Same, Sought, IsRoot
  <2>8. QED  BY <2>3, <2>7, ArraysKept DEF Return
<1>5. CASE call.op # "find" /\ call.a # N
  <2>1. call' = [call EXCEPT !.pc = "link"]  BY <1>5 DEF Return
  <2>2. call' \in Calls  BY <1>1, <2>1 DEF Calls
  <2>3. CallInv'
    BY <1>1, <1>2, <1>5, <2>1 DEF UFInv, CallInv, Return, Same, Sought, IsRoot, Calls
  <2>4. QED  BY <2>2, <2>3, ArraysKept DEF Return
<1>6. QED  BY <1>3, <1>4, <1>5

\* Two roots in one class are the same.
LEMMA RootUnique ==
  ASSUME UFInv, NEW x, NEW y, Same(x, y), IsRoot(x), IsRoot(y)
  PROVE  x = y
<1>1. PICK c \in united : x \in c /\ y \in c  BY DEF Same, P!Together
<1>2. QED  BY <1>1 DEF UFInv, UFOneRoot

LEMMA CompressInv ==
  ASSUME UFInv, Compress
  PROVE  UFInv'
<1> DEFINE e == call.element
           b == call.base
<1>1. /\ call \in Calls /\ call.pc = "compress" /\ Sought \in Elements
      /\ e \in Elements /\ b \in Elements /\ e # b
  BY CallType DEF Compress, Calls
<1>2. Same(Sought, e) /\ Same(Sought, b) /\ IsRoot(b)
  BY <1>1 DEF UFInv, CallInv, Compress
<1>3. PICK c \in united : e \in c /\ b \in c
  <2>1. PICK c \in united : Sought \in c /\ e \in c
    BY <1>2 DEF Same, P!Together
  <2>2. b \in c  BY <1>2, <2>1, SameClass DEF UFInv, Same
  <2>3. QED  BY <2>1, <2>2
<1>4. ~IsRoot(e)
  BY <1>1, <1>2, <1>3, RootUnique DEF Same, P!Together
<1>5. /\ clusters' = [clusters EXCEPT ![e] = b]
      /\ call' = [call EXCEPT !.element = clusters[e]]
      /\ UNCHANGED <<cluster_sizes, num_clusters, united>>
  BY DEF Compress, ElementToRoot
<1>6. clusters \in [Elements -> Elements]  BY DEF UFInv, UFTypeOK
<1>7. clusters' \in [Elements -> Elements]  BY <1>1, <1>5, <1>6
<1>8. ASSUME NEW i \in Elements
      PROVE  /\ clusters'[i] = IF i = e THEN b ELSE clusters[i]
             /\ (clusters'[i] = i) <=> IsRoot(i)
  <2>1. clusters'[i] = IF i = e THEN b ELSE clusters[i]  BY <1>5, <1>6
  <2>2. QED  BY <2>1, <1>1, <1>4 DEF IsRoot
<1>9. call' \in Calls
  <2>1. clusters[e] \in Elements  BY <1>1, <1>6
  <2>2. QED  BY <1>1, <1>5, <2>1 DEF Calls
<1>10. UFTypeOK'  BY <1>5, <1>7, <1>9 DEF UFInv, UFTypeOK
<1>11. UFOneRoot'
  <2>1. ASSUME NEW d \in united
        PROVE  /\ \E r \in d : IsRoot(r)' /\ \A i \in d : IsRoot(i)' => i = r
               /\ \A i \in d : clusters'[i] \in d
    <3>1. d \subseteq Elements  BY DEF UFInv, IsPartition
    <3>2. PICK r \in d : IsRoot(r) /\ \A i \in d : IsRoot(i) => i = r
      BY DEF UFInv, UFOneRoot
    <3>3. IsRoot(r)' /\ \A i \in d : IsRoot(i)' => i = r
      BY <1>8, <3>1, <3>2 DEF IsRoot
    <3>4. ASSUME NEW i \in d  PROVE clusters'[i] \in d
      <4>1. i = e => d = c  BY <1>3 DEF UFInv, IsPartition
      <4>2. clusters[i] \in d  BY DEF UFInv, UFOneRoot
      <4>3. QED  BY <1>3, <1>8, <3>1, <4>1, <4>2
    <3>5. QED  BY <3>3, <3>4
  <2>2. QED  BY <1>5, <2>1 DEF UFOneRoot
<1>12. UFSizesExact'
  <2>1. ASSUME NEW d \in united, NEW i \in d
        PROVE  cluster_sizes[i] = IF (clusters'[i] = i) THEN Cardinality(d) ELSE 0
    <3>1. i \in Elements  BY DEF UFInv, IsPartition
    <3>2. QED  BY <1>8, <3>1 DEF UFInv, UFSizesExact
  <2>2. QED  BY <1>5, <2>1 DEF UFInv, UFSizesExact, IsRoot
<1>13. CallInv'
  <2>1. Same(Sought, clusters[e])  BY <1>1, <1>2, ParentSame
  <2>2. /\ call'.element = clusters[e] /\ call'.base = b /\ call'.pc = "compress"
        /\ call'.a = call.a /\ call'.i = call.i /\ call'.j = call.j
    BY <1>1, <1>5 DEF Calls
  <2>3. Sought' = Sought  BY <2>2 DEF Sought
  <2>4. call.a # N => call.a \in Elements
    BY <1>1, UnionFindAssumption DEF Calls, Elements
  <2>5. call.a # N => IsRoot(call.a) /\ Same(call.i, call.a)
    BY DEF UFInv, CallInv, Compress
  <2>6. IsRoot(b)' /\ (call.a # N => (clusters'[call.a] = call.a))
    BY <1>1, <1>2, <1>8, <2>2, <2>4, <2>5 DEF IsRoot
  <2>7. QED  BY <1>2, <1>5, <2>1, <2>2, <2>3, <2>5, <2>6 DEF CallInv, Same, IsRoot
<1>14. QED  BY <1>5, <1>10, <1>11, <1>12, <1>13 DEF UFInv, IsPartition

\* The root low of the class d is hung below the root high of the class c.
LEMMA HangInv ==
  ASSUME UFInv, NEW low \in Elements, NEW high \in Elements, low # high,
         IsRoot(low), IsRoot(high),
         NEW c \in united, NEW d \in united, high \in c, low \in d,
         Hang(low, high),
         num_clusters' = num_clusters - 1,
         call' = UFIdle,
         united' = (united \ {c, d}) \cup {c \cup d}
  PROVE  UFInv'
<1>1. c # d
  <2>1. c = d => Same(low, high)  BY DEF Same, P!Together
  <2>2. QED  BY <2>1, RootUnique
<1>2. IsPartition(united) /\ IsPartition(united')
  BY MergePartition DEF UFInv
<1>3. /\ clusters \in [Elements -> Elements]
      /\ cluster_sizes \in [Elements -> 0 .. N]
  BY DEF UFInv, UFTypeOK
<1>4. ASSUME NEW i \in Elements
      PROVE  /\ clusters'[i] = IF i = low THEN high ELSE clusters[i]
             /\ cluster_sizes'[i] = IF i = low THEN 0
                                    ELSE IF i = high
                                    THEN cluster_sizes[high] + cluster_sizes[low]
                                    ELSE cluster_sizes[i]
             /\ (clusters'[i] = i) <=> (IsRoot(i) /\ i # low)
  <2>1. clusters'[i] = IF i = low THEN high ELSE clusters[i]
    BY <1>3 DEF Hang, IsRoot
  <2>2. cluster_sizes'[i] = IF i = low THEN 0
                           ELSE IF i = high THEN cluster_sizes[high] + cluster_sizes[low]
                           ELSE cluster_sizes[i]
    BY <1>3 DEF Hang, SizesJoined
  <2>3. QED  BY <2>1, <2>2 DEF IsRoot
<1>5. \A x \in united : x \subseteq Elements  BY <1>2 DEF IsPartition
<1>6. UFOneRoot'
  <2>1. ASSUME NEW x \in united'
        PROVE  /\ \E r \in x : (clusters'[r] = r) /\ \A i \in x : (clusters'[i] = i) => i = r
               /\ \A i \in x : clusters'[i] \in x
    <3>1. CASE x = c \cup d
      <4>1. \A i \in c : IsRoot(i) => i = high
        BY RootUnique DEF Same, P!Together
      <4>2. \A i \in d : IsRoot(i) => i = low
        BY RootUnique DEF Same, P!Together
      <4>3. \A i \in x : (clusters'[i] = i) => i = high
        BY <1>4, <1>5, <3>1, <4>1, <4>2
      <4>4. clusters'[high] = high  BY <1>4
      <4>5. ASSUME NEW i \in x  PROVE clusters'[i] \in x
        <5>1. clusters[i] \in x  BY <3>1 DEF UFInv, UFOneRoot
        <5>2. QED  BY <1>4, <1>5, <3>1, <5>1
      <4>6. QED  BY <3>1, <4>3, <4>4, <4>5
    <3>2. CASE x # c \cup d
      <4>1. x \in united /\ x # c /\ x # d  BY <3>2
      <4>2. low \notin x /\ x \subseteq Elements
        BY <1>2, <1>5, <4>1 DEF IsPartition
      <4>3. \A i \in x : clusters'[i] = clusters[i]  BY <1>4, <4>2
      <4>4. QED  BY <4>1, <4>3 DEF UFInv, UFOneRoot, IsRoot
    <3>3. QED  BY <3>1, <3>2
  <2>2. QED  BY ONLY <2>1 DEF UFOneRoot, IsRoot
<1>7. /\ Cardinality(united') = Cardinality(united) - 1
      /\ Cardinality(c \cup d) = Cardinality(c) + Cardinality(d)
  BY <1>1, <1>2, MergeCardinality
<1>8. UFSizesExact'
  <2>1. num_clusters' = Cardinality(united')  BY <1>7 DEF UFInv, UFSizesExact
  <2>2. cluster_sizes[high] + cluster_sizes[low] = Cardinality(c \cup d)
    BY <1>7 DEF UFInv, UFSizesExact
  <2>3. ASSUME NEW x \in united', NEW i \in x
        PROVE  cluster_sizes'[i] = IF clusters'[i] = i THEN Cardinality(x) ELSE 0
    <3>1. CASE x = c \cup d
      <4>1. i \in Elements  BY <1>5, <3>1
      <4>2. i # low /\ i # high => ~IsRoot(i)
        BY <3>1, RootUnique DEF Same, P!Together
      <4>3. i # low /\ i # high => cluster_sizes[i] = 0
        BY <3>1, <4>2 DEF UFInv, UFSizesExact
      <4>4. CASE i = low  BY <1>4, <4>1, <4>4
      <4>5. CASE i = high  BY <1>4, <2>2, <3>1, <4>1, <4>5
      <4>6. CASE i # low /\ i # high  BY <1>4, <4>1, <4>2, <4>3, <4>6
      <4>7. QED  BY <4>4, <4>5, <4>6
    <3>2. CASE x # c \cup d
      <4>1. x \in united /\ x # c /\ x # d  BY <3>2
      <4>2. low \notin x /\ high \notin x /\ i \in Elements
        BY <1>2, <1>5, <4>1 DEF IsPartition
      <4>3. cluster_sizes[i] = IF IsRoot(i) THEN Cardinality(x) ELSE 0
        BY <4>1 DEF UFInv, UFSizesExact
      <4>4. QED  BY <1>4, <4>2, <4>3
    <3>3. QED  BY <3>1, <3>2
  <2>4. QED  BY <2>1, <2>3 DEF UFSizesExact, IsRoot
<1>9. UFTypeOK'
  <2>1. clusters' \in [Elements -> Elements]  BY <1>3 DEF Hang
  <2>2. cluster_sizes' \in [Elements -> 0 .. N]
    <3>1. cluster_sizes' \in [Elements -> Int]
      BY <1>3 DEF Hang, SizesJoined
    <3>2. ASSUME NEW i \in Elements  PROVE cluster_sizes'[i] \in 0 .. N
      <4>1. PICK x \in united' : i \in x  BY <1>2 DEF IsPartition
      <4>2. Cardinality(x) \in 1 .. N  BY <1>2, <4>1, PartitionFinite
      <4>3. cluster_sizes'[i] = IF IsRoot(i)' THEN Cardinality(x) ELSE 0
        BY <1>8, <4>1 DEF UFSizesExact
      <4>4. QED  BY <4>2, <4>3, UnionFindAssumption
    <3>3. QED  BY <3>1, <3>2
  <2>3. num_clusters' \in 1 .. N
    <3>1. IsFiniteSet(united') /\ Cardinality(united') \in Nat
      BY <1>2, PartitionFinite, FS_CardinalityType
    <3>2. Cardinality(united') # 0
      BY <3>1, FS_EmptySet
    <3>3. num_clusters' = Cardinality(united')  BY <1>8 DEF UFSizesExact
    <3>4. num_clusters \in 1 .. N  BY DEF UFInv, UFTypeOK
    <3>5. QED  BY <3>1, <3>2, <3>3, <3>4, UnionFindAssumption
  <2>4. united' \in SUBSET SUBSET Elements  BY <1>2 DEF IsPartition
  <2>5. QED  BY <2>1, <2>2, <2>3, <2>4 DEF UFTypeOK
<1>10. CallInv'  BY DEF CallInv
<1>11. QED  BY <1>2, <1>6, <1>8, <1>9, <1>10 DEF UFInv, IsPartition

LEMMA LinkInv ==
  ASSUME UFInv, Link
  PROVE  UFInv'
<1> DEFINE a == call.a
           b == call.base
<1>1. /\ call \in Calls /\ call.pc = "link" /\ call.i \in Elements
      /\ call.j \in Elements /\ b \in Elements
  BY CallType DEF Link, Calls
<1>2. /\ a # N /\ IsRoot(a) /\ IsRoot(b)
      /\ Same(call.i, a) /\ Same(call.j, b)
  BY <1>1 DEF UFInv, CallInv, Link, Sought
<1>3. PICK c \in united : call.i \in c /\ a \in c  BY <1>2 DEF Same, P!Together
<1>4. PICK d \in united : call.j \in d /\ b \in d  BY <1>2 DEF Same, P!Together
<1>5. a \in Elements  BY <1>3 DEF UFInv, IsPartition
<1>6. united' = (united \ {c, d}) \cup {c \cup d}
  <2>1. united' = P!Merge(united, {call.i, call.j})  BY DEF Link
  <2>2. QED  BY <1>3, <1>4, <2>1, MergeTwo DEF UFInv
<1>7. CASE a = b
  <2>1. c = d  BY <1>3, <1>4, <1>7 DEF UFInv, IsPartition
  <2>2. united' = united  BY <1>6, <2>1
  <2>3. UNCHANGED <<clusters, cluster_sizes, num_clusters>> /\ call' = UFIdle
    BY <1>7 DEF Link, SameCluster
  <2>4. CallInv'  BY <2>3 DEF CallInv
  <2>5. QED  BY <2>2, <2>3, <2>4, ArraysKept
<1>8. CASE a # b /\ Below(a, b)
  <2>1. Hang(a, b) /\ num_clusters' = num_clusters - 1 /\ call' = UFIdle
    BY <1>8 DEF Link, SameCluster
  <2>2. united' = (united \ {d, c}) \cup {d \cup c}
    <3>1. {c, d} = {d, c} /\ c \cup d = d \cup c  OBVIOUS
    <3>2. QED  BY <1>6, <3>1
  <2>3. QED  BY <1>1, <1>2, <1>3, <1>4, <1>5, <1>8, <2>1, <2>2, HangInv
<1>9. CASE a # b /\ ~Below(a, b)
  <2>1. Hang(b, a) /\ num_clusters' = num_clusters - 1 /\ call' = UFIdle
    BY <1>9 DEF Link, SameCluster
  <2>2. QED  BY <1>1, <1>2, <1>3, <1>4, <1>5, <1>6, <1>9, <2>1, HangInv
<1>10. QED  BY <1>7, <1>8, <1>9

LEMMA UFStepInv == UFInv /\ [UFNext]_ufVars => UFInv'
<1> SUFFICES ASSUME UFInv, [UFNext]_ufVars  PROVE UFInv'
  OBVIOUS
<1>1. CASE Climb  BY <1>1, ClimbInv
<1>2. CASE Compress  BY <1>2, CompressInv
<1>3. CASE Return  BY <1>3, ReturnInv
<1>4. CASE Link  BY <1>4, LinkInv
<1>5. ASSUME NEW i \in Elements, CallUF_find(i)  PROVE UFInv'
  BY <1>5, StartInv DEF CallUF_find
<1>6. ASSUME NEW i \in Elements, NEW j \in Elements, CallUF_union(i, j)  PROVE UFInv'
  BY <1>6, StartInv DEF CallUF_union
<1>7. CASE UNCHANGED ufVars
  <2>1. call' \in Calls \cup {UFIdle}  BY <1>7 DEF ufVars, UFInv, UFTypeOK
  <2>2. CallInv'  BY <1>7 DEF ufVars, UFInv, CallInv, Same, Sought, IsRoot
  <2>3. QED  BY <1>7, <2>1, <2>2, ArraysKept DEF ufVars
<1>8. QED  BY <1>1, <1>2, <1>3, <1>4, <1>5, <1>6, <1>7 DEF UFNext, UFStep

-----------------------------------------------------------------------------
(* Induction over the natural numbers, and functions defined by it. *)

\* A set of natural numbers that has 0, and with a number the next, has all.
LEMMA AllNat ==
  ASSUME NEW T \in SUBSET Nat, 0 \in T, \A n \in T : n + 1 \in T
  PROVE  T = Nat
<1> DEFINE Less == {ss \in Nat \X Nat : ss[1] < ss[2]}
<1>1. IsWellFoundedOn(Less, Nat)
  BY NatLessThanWellFounded DEF OpToRel
<1>2. ASSUME Nat \ T # {}  PROVE FALSE
  <2>1. Nat \ T \in SUBSET Nat /\ Nat \ T # {}  BY <1>2
  <2>2. \E x \in Nat \ T : \A y \in Nat \ T : ~(<<y, x>> \in Less)
    <3> HIDE DEF Less
    <3> QED  BY <1>1, <2>1, WFMin, Zenon
  <2>3. PICK x \in Nat \ T : \A y \in Nat \ T : ~(<<y, x>> \in Less)  BY <2>2
  <2>4. \A y \in Nat \ T : ~(y < x)  BY <2>3
  <2>5. x # 0 /\ x - 1 \in Nat /\ x - 1 < x /\ (x - 1) + 1 = x  BY <2>3
  <2>6. x - 1 \in T  BY <2>4, <2>5
  <2>7. QED  BY <2>3, <2>5, <2>6
<1>3. QED  BY <1>2

\* The first k steps of a recursion that starts at x and goes on by step.
FirstSteps(X, x, step, k) ==
  {f \in [0 .. k -> X] : f[0] = x /\ \A n \in 0 .. k - 1 : f[n + 1] = step[f[n]]}

\* The functions that make all of them.
Recursions(X, x, step) ==
  {f \in [Nat -> X] : f[0] = x /\ \A n \in Nat : f[n + 1] = step[f[n]]}

LEMMA AllSteps ==
  ASSUME NEW X, NEW x \in X, NEW step \in [X -> X]
  PROVE  Recursions(X, x, step) # {}
<1> DEFINE First(k) == FirstSteps(X, x, step, k)
<1>1. \A k \in Nat : First(k) # {}
  <2> DEFINE T == {k \in Nat : First(k) # {}}
  <2>1. 0 \in T
    <3> DEFINE f == [n \in 0 .. 0 |-> x]
    <3>1. f \in First(0)  BY DEF FirstSteps
    <3>2. QED  BY <3>1
  <2>2. ASSUME NEW k \in T  PROVE k + 1 \in T
    <3>1. PICK f : f \in First(k)  OBVIOUS
    <3> DEFINE g == [n \in 0 .. k + 1 |-> IF n = k + 1 THEN step[f[k]] ELSE f[n]]
    <3>2. k \in Nat /\ f \in [0 .. k -> X] /\ f[0] = x
          /\ \A n \in 0 .. k - 1 : f[n + 1] = step[f[n]]
      BY <3>1 DEF FirstSteps
    <3>3. g \in [0 .. k + 1 -> X]  BY <3>2
    <3>4. g[0] = x  BY <3>2
    <3>5. ASSUME NEW n \in 0 .. (k + 1) - 1  PROVE g[n + 1] = step[g[n]]
      BY <3>2
    <3>6. g \in First(k + 1)  BY <3>3, <3>4, <3>5 DEF FirstSteps
    <3>7. QED  BY <3>2, <3>6
  <2>3. T = Nat
    <3> HIDE DEF T
    <3>1. T \in SUBSET Nat  BY DEF T
    <3>2. QED  BY <2>1, <2>2, <3>1, AllNat
  <2>4. QED  BY <2>3
<1>2. ASSUME NEW k \in Nat, NEW m \in Nat, NEW f \in First(k), NEW g \in First(m)
      PROVE  \A n \in Nat : n <= k /\ n <= m => f[n] = g[n]
  <2> DEFINE T == {n \in Nat : n <= k /\ n <= m => f[n] = g[n]}
  <2>1. /\ f[0] = x /\ \A n \in 0 .. k - 1 : f[n + 1] = step[f[n]]
        /\ g[0] = x /\ \A n \in 0 .. m - 1 : g[n + 1] = step[g[n]]
    BY DEF FirstSteps
  <2>2. 0 \in T  BY <2>1
  <2>3. ASSUME NEW n \in T  PROVE n + 1 \in T
    <3>1. n \in Nat /\ n + 1 \in Nat  OBVIOUS
    <3>2. ASSUME n + 1 <= k, n + 1 <= m  PROVE f[n + 1] = g[n + 1]
      <4>1. n \in 0 .. k - 1 /\ n \in 0 .. m - 1 /\ n <= k /\ n <= m  BY <3>1, <3>2
      <4>2. f[n] = g[n]  BY <4>1
      <4>3. QED  BY <2>1, <4>1, <4>2
    <3>3. QED  BY <3>1, <3>2
  <2>4. T = Nat
    <3> HIDE DEF T
    <3>1. T \in SUBSET Nat  BY DEF T
    <3>2. QED  BY <2>2, <2>3, <3>1, AllNat
  <2>5. QED  BY <2>4
<1> DEFINE all == [k \in Nat |-> (CHOOSE f : f \in First(k))[k]]
<1>3. ASSUME NEW k \in Nat, NEW m \in Nat, m <= k
      PROVE  /\ (CHOOSE f : f \in First(k)) \in First(k)
             /\ all[m] = (CHOOSE f : f \in First(k))[m]
  <2>1. (CHOOSE f : f \in First(k)) \in First(k) /\ (CHOOSE f : f \in First(m)) \in First(m)
    BY <1>1
  <2> DEFINE f == CHOOSE ff : ff \in First(k)
             g == CHOOSE gg : gg \in First(m)
  <2>2. f[m] = g[m]
    <3>1. f \in First(k) /\ g \in First(m)  BY <2>1
    <3> HIDE DEF f, g, First
    <3>2. QED  BY <1>2, <1>3, <3>1
  <2>3. all[m] = g[m]  OBVIOUS
  <2>4. QED  BY <2>1, <2>2, <2>3
<1>4. ASSUME NEW k \in Nat  PROVE all[k] \in X
  <2> DEFINE f == CHOOSE ff : ff \in First(k)
  <2>1. f \in First(k) /\ all[k] = f[k]  BY <1>3
  <2>2. QED  BY <2>1 DEF FirstSteps
<1>5. all[0] = x
  <2> DEFINE f == CHOOSE ff : ff \in First(0)
  <2>1. f \in First(0) /\ all[0] = f[0]  BY <1>3
  <2>2. QED  BY <2>1 DEF FirstSteps
<1>6. ASSUME NEW k \in Nat  PROVE all[k + 1] = step[all[k]]
  <2> DEFINE f == CHOOSE ff : ff \in First(k + 1)
  <2>1. f \in First(k + 1) /\ all[k + 1] = f[k + 1] /\ all[k] = f[k]
    <3>1. k + 1 \in Nat /\ k <= k + 1 /\ k + 1 <= k + 1  OBVIOUS
    <3>2. QED  BY <1>3, <3>1
  <2>2. k \in 0 .. (k + 1) - 1  OBVIOUS
  <2> HIDE DEF f, all
  <2>3. f[k + 1] = step[f[k]]  BY <2>1, <2>2 DEF FirstSteps
  <2>4. QED  BY <2>1, <2>3
<1>7. all \in [Nat -> X]  BY <1>4
<1>8. all \in Recursions(X, x, step)
  <2> HIDE DEF all
  <2>1. QED  BY <1>5, <1>6, <1>7 DEF Recursions
<1>9. QED  BY <1>8

-----------------------------------------------------------------------------
(* The partition, read off the arrays. *)

\* Wherever one starts, the parents lead to a root.
NoCircles ==
  \A S \in SUBSET Elements :
    S # {} /\ (\A x \in S : clusters[x] \in S) => \E r \in S : IsRoot(r)

\* Where the elements are, at first and after one more step to the parent.
Places   == [Elements -> Elements]
AtHome   == [i \in Elements |-> i]
ToParent == [g \in Places |-> [i \in Elements |-> clusters[g[i]]]]

\* Up[k] is k steps to the parent.
LEMMA UpSteps ==
  ASSUME clusters \in [Elements -> Elements]
  PROVE  /\ \A i \in Elements : Up[0][i] = i
         /\ \A k \in Nat, i \in Elements : Up[k + 1][i] = clusters[Up[k][i]]
         /\ \A k \in Nat : Up[k] \in [Elements -> Elements]
<1> DEFINE Def(f) == [k \in Nat |->
                        IF k = 0 THEN [i \in Elements |-> i]
                        ELSE [i \in Elements |-> clusters[f[k - 1][i]]]]
<1>1. AtHome \in Places /\ ToParent \in [Places -> Places]
  BY DEF Places, AtHome, ToParent
<1>2. PICK f \in [Nat -> Places] :
        f[0] = AtHome /\ \A n \in Nat : f[n + 1] = ToParent[f[n]]
  <2>1. Recursions(Places, AtHome, ToParent) # {}  BY <1>1, AllSteps
  <2>2. QED  BY <2>1 DEF Recursions
<1>3. f = Def(f)
  <2>1. ASSUME NEW k \in Nat  PROVE f[k] = Def(f)[k]
    <3>1. CASE k = 0  BY <1>2, <3>1 DEF AtHome
    <3>2. CASE k # 0
      <4>1. k - 1 \in Nat /\ (k - 1) + 1 = k  BY <3>2
      <4>2. f[k] = ToParent[f[k - 1]] /\ f[k - 1] \in Places  BY <1>2, <4>1
      <4>3. QED  BY <3>2, <4>2 DEF ToParent
    <3>3. QED  BY <3>1, <3>2
  <2>2. f = [k \in Nat |-> f[k]]  BY ONLY <1>2
  <2>3. QED  BY <2>1, <2>2
<1>4. Up = Def(Up)
  <2>1. Up = CHOOSE g : g = Def(g)  BY DEF Up
  <2>2. \E g : g = Def(g)  BY <1>3
  <2>3. QED  BY <2>1, <2>2
<1>5. Up[0] = AtHome  BY <1>4 DEF AtHome
<1>6. \A k \in Nat : Up[k + 1] = [i \in Elements |-> clusters[Up[k][i]]]
  <2>1. ASSUME NEW k \in Nat  PROVE Up[k + 1] = [i \in Elements |-> clusters[Up[k][i]]]
    <3>1. k + 1 \in Nat /\ k + 1 # 0 /\ (k + 1) - 1 = k  BY ONLY <2>1
    <3>2. Up[k + 1] = Def(Up)[k + 1]  BY <1>4
    <3>3. QED  BY <3>1, <3>2
  <2>2. QED  BY <2>1
<1>7. \A k \in Nat : Up[k] \in Places
  <2> DEFINE T == {k \in Nat : Up[k] \in Places}
  <2>1. 0 \in T  BY <1>1, <1>5
  <2>2. ASSUME NEW k \in T  PROVE k + 1 \in T
    <3>1. k \in Nat /\ k + 1 \in Nat /\ Up[k] \in Places  OBVIOUS
    <3>2. [i \in Elements |-> clusters[Up[k][i]]] \in Places  BY <3>1 DEF Places
    <3>3. QED  BY <1>6, <3>1, <3>2
  <2>3. T = Nat
    <3> HIDE DEF T
    <3>1. T \in SUBSET Nat  BY DEF T
    <3>2. QED  BY <2>1, <2>2, <3>1, AllNat
  <2>4. QED  BY <2>3
<1>8. \A i \in Elements : Up[0][i] = i  BY <1>5 DEF AtHome
<1>9. \A k \in Nat, i \in Elements : Up[k + 1][i] = clusters[Up[k][i]]  BY <1>6
<1>10. QED  BY <1>7, <1>8, <1>9 DEF Places

\* N steps lead to a root: more than N elements on the way would be a circle.
LEMMA UpToRoot ==
  ASSUME clusters \in [Elements -> Elements], NoCircles, NEW i \in Elements
  PROVE  IsRoot(Up[N][i])
<1> DEFINE path == [k \in Nat |-> Up[k][i]]
<1>1. N \in Nat  BY UnionFindAssumption
<1>2. /\ path \in [Nat -> Elements]
      /\ \A k \in Nat : path[k + 1] = clusters[path[k]]
  BY UpSteps
<1>3. path[N] = Up[N][i]  BY <1>1
<1> HIDE DEF path
<1>4. \E k, m \in 0 .. N : k # m /\ path[k] = path[m]
  <2> DEFINE first == [k \in 0 .. N |-> path[k]]
  <2>1. first \in [0 .. N -> Elements]  BY <1>1, <1>2
  <2>2. IsFiniteSet(0 .. N) /\ Cardinality(0 .. N) = N + 1
    <3>1. 0 \in Int /\ N \in Int /\ ~(0 > N) /\ N - 0 + 1 = N + 1  BY <1>1
    <3>2. QED  BY <3>1, FS_Interval
  <2>3. Cardinality(Elements) < Cardinality(0 .. N)  BY <1>1, <2>2, ElementsFinite
  <2>4. \E k, m \in 0 .. N : k # m /\ first[k] = first[m]
    <3> HIDE DEF first
    <3>1. QED  BY <1>1, <2>1, <2>2, <2>3, ElementsFinite, FS_PigeonHole
  <2>5. QED  BY <2>4
<1>5. \E k, m \in 0 .. N : k < m /\ path[k] = path[m]
  <2>1. PICK k \in 0 .. N, m \in 0 .. N : k # m /\ path[k] = path[m]  BY <1>4
  <2>2. k < m \/ m < k  BY <2>1
  <2>3. QED  BY <2>1, <2>2
<1>6. PICK k \in 0 .. N, m \in 0 .. N : k < m /\ path[k] = path[m]  BY <1>5
<1> DEFINE circle == {path[l] : l \in k .. m - 1}
<1>7. circle \in SUBSET Elements  BY <1>1, <1>2
<1>8. circle # {}  BY <1>6
<1>9. ASSUME NEW l \in k .. m - 1  PROVE clusters[path[l]] \in circle
  <2>1. l \in Nat /\ (l + 1 = m \/ l + 1 \in k .. m - 1)  BY <1>6
  <2>2. clusters[path[l]] = path[l + 1]  BY <1>2, <2>1
  <2>3. k \in k .. m - 1  BY <1>6
  <2>4. QED  BY <1>6, <2>1, <2>2, <2>3
<1>10. \A x \in circle : clusters[x] \in circle  BY <1>9
<1>11. \E r \in circle : IsRoot(r)
  <2> HIDE DEF circle
  <2>1. QED  BY <1>7, <1>8, <1>10 DEF NoCircles
<1>12. PICK l \in k .. m - 1 : IsRoot(path[l])  BY <1>11
<1>13. l \in Nat /\ l <= N  BY <1>1, <1>6
<1> DEFINE T == {n \in Nat : path[l + n] = path[l]}
<1>14. 0 \in T  BY <1>13
<1>15. ASSUME NEW n \in T  PROVE n + 1 \in T
  <2>1. l + n \in Nat /\ (l + n) + 1 = l + (n + 1)  BY <1>13
  <2>2. path[(l + n) + 1] = clusters[path[l + n]]  BY <1>2, <2>1
  <2>3. QED  BY <1>12, <2>1, <2>2 DEF IsRoot
<1>16. T = Nat
  <2>1. T \in SUBSET Nat  OBVIOUS
  <2> HIDE DEF T
  <2>2. QED  BY <1>14, <1>15, <2>1, AllNat
<1>17. N - l \in Nat /\ l + (N - l) = N  BY <1>1, <1>13
<1>18. path[N] = path[l]
  <2>1. N - l \in T  BY <1>16, <1>17
  <2>2. QED  BY <1>17, <2>1
<1>19. QED  BY <1>3, <1>12, <1>18

\* The steps stay in the class of the element.
LEMMA UpInClass ==
  ASSUME UFInv, NEW c \in united, NEW i \in c, NEW k \in Nat
  PROVE  Up[k][i] \in c
<1>1. clusters \in [Elements -> Elements] /\ i \in Elements
  BY DEF UFInv, UFTypeOK, IsPartition
<1> DEFINE T == {n \in Nat : Up[n][i] \in c}
<1>2. 0 \in T  BY <1>1, UpSteps
<1>3. ASSUME NEW n \in T  PROVE n + 1 \in T
  <2>1. Up[n + 1][i] = clusters[Up[n][i]]  BY <1>1, UpSteps
  <2>2. QED  BY <2>1 DEF UFInv, UFOneRoot
<1>4. T = Nat
  <2>1. T \in SUBSET Nat  OBVIOUS
  <2> HIDE DEF T
  <2>2. QED  BY <1>2, <1>3, <2>1, AllNat
<1>5. QED  BY <1>4

\* Two elements lead to the same root if and only if they are united.
LEMMA SameRootUnited ==
  ASSUME UFInv, NoCircles
  PROVE  /\ \A i, j \in Elements : Up[N][i] = Up[N][j] <=> Same(i, j)
         /\ SameRoot = united
<1>1. clusters \in [Elements -> Elements] /\ N \in Nat /\ IsPartition(united)
  BY UnionFindAssumption DEF UFInv, UFTypeOK
<1>2. ASSUME NEW i \in Elements, NEW j \in Elements,
             NEW c \in united, i \in c
      PROVE  Up[N][j] = Up[N][i] <=> j \in c
  <2>1. IsRoot(Up[N][i]) /\ IsRoot(Up[N][j])  BY <1>1, UpToRoot
  <2>2. Up[N][i] \in c  BY <1>1, <1>2, UpInClass
  <2>3. CASE j \in c
    <3>1. Up[N][j] \in c  BY <1>1, <2>3, UpInClass
    <3>2. QED  BY <2>1, <2>2, <2>3, <3>1, RootUnique DEF Same, P!Together
  <2>4. CASE j \notin c
    <3>1. PICK d \in united : j \in d  BY <1>1 DEF IsPartition
    <3>2. Up[N][j] \in d /\ c # d  BY <1>1, <2>4, <3>1, UpInClass
    <3>3. QED  BY <1>1, <2>2, <2>4, <3>2 DEF IsPartition
  <2>5. QED  BY <2>3, <2>4
<1>3. ASSUME NEW i \in Elements, NEW c \in united, i \in c
      PROVE  {j \in Elements : Up[N][j] = Up[N][i]} = c
  <2>1. c \subseteq Elements  BY <1>1 DEF IsPartition
  <2>2. QED  BY <1>2, <1>3, <2>1
<1>4. ASSUME NEW i \in Elements, NEW j \in Elements
      PROVE  Up[N][i] = Up[N][j] <=> Same(i, j)
  <2>1. PICK c \in united : i \in c  BY <1>1 DEF IsPartition
  <2>2. Up[N][j] = Up[N][i] <=> j \in c  BY <1>2, <2>1
  <2>3. Same(i, j) <=> j \in c  BY <1>1, <2>1, SameClass DEF Same, P!Together
  <2>4. QED  BY <2>2, <2>3
<1>5. SameRoot = {{j \in Elements : Up[N][j] = Up[N][i]} : i \in Elements}
  BY DEF SameRoot
<1>6. SameRoot \subseteq united
  <2>1. ASSUME NEW i \in Elements  PROVE {j \in Elements : Up[N][j] = Up[N][i]} \in united
    <3>1. PICK c \in united : i \in c  BY <1>1 DEF IsPartition
    <3>2. QED  BY <1>3, <3>1
  <2>2. QED  BY <1>5, <2>1
<1>7. united \subseteq SameRoot
  <2>1. ASSUME NEW c \in united  PROVE c \in SameRoot
    <3>1. PICK i \in c : i \in Elements  BY <1>1 DEF IsPartition
    <3>2. QED  BY <1>3, <1>5, <3>1
  <2>2. QED  BY <2>1
<1>8. QED  BY <1>4, <1>6, <1>7

\* UF_find makes the elements of its path point to their root, and UF_union
\* hangs a root below another: neither makes a circle.
LEMMA NoCirclesStep ==
  ASSUME UFInv, NoCircles, [UFNext]_ufVars
  PROVE  NoCircles'
<1>1. clusters \in [Elements -> Elements]  BY DEF UFInv, UFTypeOK
<1>2. ASSUME NEW low \in Elements, NEW high \in Elements, low # high,
             IsRoot(high), clusters' = [clusters EXCEPT ![low] = high],
             NEW S \in SUBSET Elements, S # {}, \A x \in S : clusters'[x] \in S
      PROVE  \E r \in S : clusters'[r] = r
  <2>1. \A x \in Elements : clusters'[x] = IF x = low THEN high ELSE clusters[x]
    BY <1>1, <1>2
  <2>2. CASE low \in S
    <3>1. high \in S /\ clusters'[high] = high  BY <1>2, <2>1, <2>2 DEF IsRoot
    <3>2. QED  BY <3>1
  <2>3. CASE low \notin S
    <3>1. \A x \in S : clusters'[x] = clusters[x]  BY <2>1, <2>3
    <3>2. \A x \in S : clusters[x] \in S  BY <1>2, <3>1
    <3>3. PICK r \in S : clusters[r] = r  BY <1>2, <3>2 DEF NoCircles, IsRoot
    <3>4. QED  BY <3>1, <3>3
  <2>4. QED  BY <2>2, <2>3
<1>3. ASSUME NEW low \in Elements, NEW high \in Elements, low # high,
             IsRoot(high), clusters' = [clusters EXCEPT ![low] = high]
      PROVE  NoCircles'
  BY <1>2, <1>3 DEF NoCircles, IsRoot
<1>4. ASSUME clusters' = clusters  PROVE NoCircles'
  BY <1>4 DEF NoCircles, IsRoot
<1>5. CASE Compress
  <2>1. /\ call.element \in Elements /\ call.base \in Elements
        /\ call.element # call.base /\ IsRoot(call.base)
    BY <1>5, CallType DEF Compress, Calls, UFInv, CallInv
  <2>2. clusters' = [clusters EXCEPT ![call.element] = call.base]
    BY <1>5 DEF Compress, ElementToRoot
  <2>3. QED  BY <1>3, <2>1, <2>2
<1>6. CASE Link
  <2>1. /\ call.a \in Elements /\ call.base \in Elements
        /\ IsRoot(call.a) /\ IsRoot(call.base)
    <3>1. call \in Calls /\ call # UFIdle /\ call.pc = "link"  BY <1>6, CallType DEF Link
    <3>2. IsRoot(call.a) /\ Same(call.i, call.a) /\ IsRoot(call.base)
      BY <3>1 DEF UFInv, CallInv
    <3>3. call.a \in Elements  BY <3>2 DEF Same, P!Together, UFInv, IsPartition
    <3>4. QED  BY <3>1, <3>2, <3>3 DEF Calls
  <2>2. CASE SameCluster(call.a, call.base)
    BY <1>4, <1>6, <2>2 DEF Link
  <2>3. CASE ~SameCluster(call.a, call.base) /\ Below(call.a, call.base)
    <3>1. clusters' = [clusters EXCEPT ![call.a] = call.base]
      BY <1>6, <2>1, <2>3 DEF Link, Hang, IsRoot
    <3>2. QED  BY <1>3, <2>1, <2>3, <3>1 DEF SameCluster
  <2>4. CASE ~SameCluster(call.a, call.base) /\ ~Below(call.a, call.base)
    <3>1. clusters' = [clusters EXCEPT ![call.base] = call.a]
      BY <1>6, <2>1, <2>4 DEF Link, Hang, IsRoot
    <3>2. QED  BY <1>3, <2>1, <2>4, <3>1 DEF SameCluster
  <2>5. QED  BY <2>2, <2>3, <2>4
<1>7. CASE UNCHANGED clusters  BY <1>4, <1>7
<1>8. QED
  BY <1>5, <1>6, <1>7
     DEF UFNext, UFStep, Climb, Return, CallUF_find, CallUF_union, ufVars

LEMMA NoCirclesInit == UFInit => NoCircles
BY DEF UFInit, NoCircles, IsRoot

\* A step of the union-find makes two classes one, or none.
LEMMA UnionStep ==
  ASSUME UFInv, [UFNext]_ufVars
  PROVE  \/ united' = united
         \/ \E c, d \in united : united' = P!Merge(united, c \cup d)
<1>1. CASE Link
  <2>1. call \in Calls /\ call # UFIdle /\ call.pc = "link"  BY <1>1, CallType DEF Link
  <2>2. IsPartition(united) /\ call.i \in Elements /\ call.j \in Elements
    BY <2>1 DEF UFInv, Calls
  <2>3. PICK c \in united, d \in united : call.i \in c /\ call.j \in d
    BY <2>2 DEF IsPartition
  <2>4. united' = (united \ {c, d}) \cup {c \cup d}
    <3>1. united' = P!Merge(united, {call.i, call.j})  BY <1>1 DEF Link
    <3>2. QED  BY <2>2, <2>3, <3>1, MergeTwo
  <2>5. P!Merge(united, c \cup d) = (united \ {c, d}) \cup {c \cup d}
    <3>1. {x \in united : x \cap (c \cup d) # {}} = {c, d}
      BY <2>2 DEF IsPartition
    <3>2. {x \in united : x \cap (c \cup d) = {}} = united \ {c, d}
      BY <3>1
    <3>3. UNION {c, d} = c \cup d  OBVIOUS
    <3>4. QED  BY <3>1, <3>2, <3>3 DEF P!Merge
  <2>6. QED  BY <2>4, <2>5
<1>2. CASE UNCHANGED united  BY <1>2
<1>3. QED
  BY <1>1, <1>2
     DEF UFNext, UFStep, Climb, Compress, Return, CallUF_find, CallUF_union, ufVars

-----------------------------------------------------------------------------
(* Walks through the elements sorted by root. *)

\* A set of natural numbers has a least element.
LEMMA LeastOf ==
  ASSUME NEW T \in SUBSET Nat, T # {}
  PROVE  \E x \in T : \A y \in T : x <= y
<1> DEFINE Below0 == {n \in Nat : \A y \in T : n <= y}
<1>1. Below0 \in SUBSET Nat /\ 0 \in Below0  OBVIOUS
<1>2. CASE \A n \in Below0 : n + 1 \in Below0
  <2>1. Below0 = Nat
    <3> HIDE DEF Below0
    <3>1. QED  BY <1>1, <1>2, AllNat
  <2>2. PICK y \in T : y \in Nat  OBVIOUS
  <2>3. y + 1 \in Below0
    <3>1. y + 1 \in Nat  BY <2>2
    <3> HIDE DEF Below0
    <3>2. QED  BY <2>1, <3>1
  <2>4. QED  BY <2>2, <2>3
<1>3. CASE \E n \in Below0 : n + 1 \notin Below0
  <2>1. PICK n \in Below0 : n + 1 \notin Below0  BY <1>3
  <2>2. PICK y \in T : ~(n + 1 <= y)  BY <2>1
  <2>3. n <= y /\ n \in Nat /\ y \in Nat  BY <2>1
  <2>4. n = y  BY <2>2, <2>3
  <2>5. QED  BY <2>1, <2>4
<1>4. QED  BY <1>2, <1>3

\* One that is bounded has a greatest element.
LEMMA GreatestOf ==
  ASSUME NEW T \in SUBSET Nat, T # {}, NEW n \in Nat, \A x \in T : x <= n
  PROVE  \E x \in T : \A y \in T : y <= x
<1> DEFINE U == {n - x : x \in T}
<1>1. U \in SUBSET Nat /\ U # {}
  <2>1. ASSUME NEW x \in T  PROVE n - x \in Nat
    <3>1. x \in Nat /\ x <= n  OBVIOUS
    <3>2. QED  BY <3>1
  <2>2. QED  BY <2>1
<1>2. \E u \in U : \A w \in U : u <= w
  <2> HIDE DEF U
  <2>1. QED  BY <1>1, LeastOf
<1>3. PICK x \in T : \A w \in U : n - x <= w  BY <1>2
<1>4. ASSUME NEW y \in T  PROVE y <= x
  <2>1. n - x <= n - y  BY <1>3
  <2>2. QED  BY <2>1
<1>5. QED  BY <1>4

\* A bounded set of natural numbers without gaps is counted by its elements.
LEMMA NoGaps ==
  ASSUME NEW U \in SUBSET Nat, NEW n \in Nat, \A x \in U : x < n,
         \A x \in U : x # 0 => x - 1 \in U
  PROVE  U = 0 .. Cardinality(U) - 1
<1> DEFINE T == {x \in Nat : x \notin U}
<1>1. T \in SUBSET Nat /\ n \in T  OBVIOUS
<1>2. \E m \in T : \A y \in T : m <= y
  <2> HIDE DEF T
  <2>1. QED  BY <1>1, LeastOf
<1>3. PICK m \in Nat : m \notin U /\ \A y \in Nat : y < m => y \in U
  BY <1>2
<1>4. ASSUME NEW u \in U  PROVE u < m
  <2>1. SUFFICES ASSUME m <= u  PROVE FALSE
    BY <1>3
  <2> DEFINE Down == {x \in Nat : x <= u => u - x \in U}
  <2>2. 0 \in Down  OBVIOUS
  <2>3. ASSUME NEW x \in Down  PROVE x + 1 \in Down
    <3>1. SUFFICES ASSUME x + 1 <= u  PROVE u - (x + 1) \in U
      OBVIOUS
    <3>2. u - x \in U /\ u - x # 0 /\ (u - x) - 1 = u - (x + 1)  BY <3>1
    <3>3. QED  BY <3>2
  <2>4. Down = Nat
    <3>1. Down \in SUBSET Nat  OBVIOUS
    <3> HIDE DEF Down
    <3>2. QED  BY <2>2, <2>3, <3>1, AllNat
  <2>5. u - m \in Nat /\ u - m <= u /\ u - (u - m) = m  BY <2>1, <1>3
  <2>6. m \in U  BY <2>4, <2>5
  <2>7. QED  BY <1>3, <2>6
<1>5. U = 0 .. m - 1
  <2>1. ASSUME NEW x \in U  PROVE x \in 0 .. m - 1
    <3>1. x \in Nat /\ x < m  BY <1>4
    <3>2. QED  BY <3>1
  <2>2. ASSUME NEW x \in 0 .. m - 1  PROVE x \in U
    <3>1. x \in Nat /\ x < m  BY <1>3
    <3>2. QED  BY <1>3, <3>1
  <2>3. QED  BY <2>1, <2>2
<1>6. Cardinality(0 .. m - 1) = m
  <2>1. 0 \in Int /\ m - 1 \in Int /\ (0 > m - 1 => m = 0) /\ (m - 1) - 0 + 1 = m
    BY <1>3
  <2>2. QED  BY <2>1, FS_Interval
<1>7. QED  BY <1>5, <1>6

\* order lists the elements by their roots.
Sorted(root, order) ==
  /\ order \in Orders
  /\ root \in [Elements -> Elements]
  /\ \A k, l \in Elements : k <= l => root[order[k]] <= root[order[l]]

LEMMA OrderedIsSorted ==
  ASSUME UFInv, NoCircles, NEW order \in UF_ordered_by_cluster
  PROVE  Sorted(Up[N], order)
<1> DEFINE root == Up[N]
<1>1. N \in Nat  BY UnionFindAssumption
<1>2. root \in [Elements -> Elements]
  BY <1>1, UpSteps DEF UFInv, UFTypeOK
<1>3. order \in Orders /\ \A k \in 1 .. N - 1 : root[order[k - 1]] <= root[order[k]]
  BY DEF UF_ordered_by_cluster
<1>4. order \in [Elements -> Elements]  BY <1>3 DEF Orders, Bijection, Injection
<1> HIDE DEF root
<1> DEFINE T == {l \in Nat : l \in Elements =>
                   \A k \in Elements : k <= l => root[order[k]] <= root[order[l]]}
<1>5. 0 \in T
  <2>1. SUFFICES ASSUME 0 \in Elements, NEW k \in Elements, k <= 0
                 PROVE  root[order[k]] <= root[order[0]]
    OBVIOUS
  <2>2. k = 0 /\ root[order[0]] \in Nat  BY <1>1, <1>2, <1>4, <2>1 DEF Elements
  <2>3. QED  BY <2>2
<1>6. ASSUME NEW l \in T  PROVE l + 1 \in T
  <2>1. SUFFICES ASSUME l + 1 \in Elements, NEW k \in Elements, k <= l + 1
                 PROVE  root[order[k]] <= root[order[l + 1]]
    OBVIOUS
  <2>2. l \in Elements /\ l + 1 \in 1 .. N - 1 /\ (l + 1) - 1 = l
    BY <1>1, <2>1 DEF Elements
  <2>3. root[order[l]] <= root[order[l + 1]]  BY <1>3, <2>2
  <2>4. /\ root[order[l]] \in Nat /\ root[order[l + 1]] \in Nat
        /\ root[order[k]] \in Nat /\ k \in Nat /\ l \in Nat
    <3>1. /\ root[order[l]] \in Elements /\ root[order[l + 1]] \in Elements
          /\ root[order[k]] \in Elements
      BY <1>2, <1>4, <2>1, <2>2
    <3>2. \A x \in Elements : x \in Nat  BY <1>1 DEF Elements
    <3>3. QED  BY <2>2, <3>1, <3>2
  <2>5. CASE k = l + 1  BY <2>4, <2>5
  <2>6. CASE k <= l
    <3>1. root[order[k]] <= root[order[l]]  BY <2>2, <2>6
    <3>2. QED  BY <2>3, <2>4, <3>1
  <2>7. QED  BY <2>1, <2>4, <2>5, <2>6
<1>7. T = Nat
  <2>1. T \in SUBSET Nat  OBVIOUS
  <2> HIDE DEF T
  <2>2. QED  BY <1>5, <1>6, <2>1, AllNat
<1>8. ASSUME NEW k \in Elements, NEW l \in Elements, k <= l
      PROVE  root[order[k]] <= root[order[l]]
  <2>1. l \in T  BY <1>1, <1>7 DEF Elements
  <2>2. QED  BY <1>8, <2>1
<1>9. Sorted(root, order)  BY <1>2, <1>3, <1>8 DEF Sorted
<1>10. QED  BY <1>9 DEF root

\* The place of an element in the array.
Place(order, j) == CHOOSE l \in Elements : order[l] = j

LEMMA PlaceOf ==
  ASSUME NEW order \in Orders
  PROVE  /\ order \in [Elements -> Elements]
         /\ \A j \in Elements : Place(order, j) \in Elements /\ order[Place(order, j)] = j
         /\ \A k \in Elements : Place(order, order[k]) = k
<1>1. order \in [Elements -> Elements]
  BY DEF Orders, Bijection, Injection
<1>2. \A j \in Elements : \E l \in Elements : order[l] = j
  BY DEF Orders, Bijection, Surjection
<1>3. \A k, l \in Elements : order[k] = order[l] => k = l
  BY <1>1 DEF Orders, Bijection, Injection, IsInjective
<1>4. \A j \in Elements : Place(order, j) \in Elements /\ order[Place(order, j)] = j
  BY <1>2 DEF Place
<1>5. \A k \in Elements : Place(order, order[k]) = k
  BY <1>1, <1>3, <1>4
<1>6. QED  BY <1>1, <1>4, <1>5

\* The roots on either side of a place are as numbers in order.
LEMMA RootsInOrder ==
  ASSUME NEW root, NEW order, Sorted(root, order),
         NEW k \in Elements, NEW l \in Elements
  PROVE  /\ k \in Nat /\ l \in Nat /\ k <= N - 1 /\ l <= N - 1
         /\ root[order[k]] \in Nat /\ root[order[l]] \in Nat
         /\ k <= l => root[order[k]] <= root[order[l]]
<1>1. N \in Nat  BY UnionFindAssumption
<1>2. order \in [Elements -> Elements]  BY PlaceOf DEF Sorted
<1>3. root[order[k]] \in Elements /\ root[order[l]] \in Elements
  BY <1>2 DEF Sorted
<1>4. k <= l => root[order[k]] <= root[order[l]]  BY DEF Sorted
<1>5. QED  BY <1>1, <1>3, <1>4 DEF Elements

\* The changes of root up to a place, which are the number of its element.
ChangesTo(root, order, S, l) == {k \in Changes(root, order, S) : k <= l}

LEMMA ChangesFinite ==
  ASSUME NEW root, NEW order, NEW S, NEW l \in Elements
  PROVE  /\ ChangesTo(root, order, S, l) \subseteq Elements
         /\ IsFiniteSet(ChangesTo(root, order, S, l))
         /\ Cardinality(ChangesTo(root, order, S, l)) \in 0 .. N
<1> DEFINE C == ChangesTo(root, order, S, l)
<1>1. C \subseteq Elements  BY DEF ChangesTo, Changes
<1>2. IsFiniteSet(C) /\ Cardinality(C) <= Cardinality(Elements)
  BY <1>1, ElementsFinite, FS_Subset
<1>3. Cardinality(C) \in Nat  BY <1>2, FS_CardinalityType
<1>4. N \in Nat  BY UnionFindAssumption
<1> HIDE DEF C
<1>5. QED  BY <1>1, <1>2, <1>3, <1>4, ElementsFinite DEF C

\* What makes a place c one where the root changes: the place p before it.
LEMMA ChangeAt ==
  ASSUME NEW root, NEW order, NEW S, NEW c \in Changes(root, order, S)
  PROVE  /\ c \in Elements /\ order[c] \in S
         /\ \E p \in 0 .. c - 1 :
              /\ order[p] \in S
              /\ \A m \in p + 1 .. c - 1 : order[m] \notin S
              /\ root[order[p]] # root[order[c]]
BY DEF Changes

\* Between two elements with the same root there is no change.
LEMMA NoChange ==
  ASSUME NEW root, NEW order, Sorted(root, order), NEW S,
         NEW l \in Elements, NEW m \in Elements, l <= m,
         order[l] \in S, root[order[l]] = root[order[m]]
  PROVE  ChangesTo(root, order, S, l) = ChangesTo(root, order, S, m)
<1>1. ASSUME NEW c \in Changes(root, order, S), c <= m  PROVE c <= l
  <2>1. SUFFICES ASSUME ~(c <= l)  PROVE FALSE
    OBVIOUS
  <2>2. PICK p \in 0 .. c - 1 :
          /\ \A x \in p + 1 .. c - 1 : order[x] \notin S
          /\ root[order[p]] # root[order[c]]
    BY ChangeAt
  <2>3. /\ c \in Elements /\ c \in Nat /\ l \in Nat /\ m \in Nat /\ N \in Nat
        /\ c <= N - 1
    BY ChangeAt, RootsInOrder, UnionFindAssumption
  <2>4. p \in Nat /\ p <= c - 1  BY <2>3
  <2>5. l <= p
    <3>1. SUFFICES ASSUME p < l  PROVE FALSE
      BY <2>3, <2>4
    <3>2. l \in p + 1 .. c - 1  BY <2>1, <2>3, <2>4, <3>1
    <3>3. QED  BY <2>2, <3>2
  <2>6. p \in Elements /\ p <= c  BY <2>3, <2>4 DEF Elements
  <2>7. /\ root[order[l]] <= root[order[p]] /\ root[order[p]] <= root[order[c]]
        /\ root[order[c]] <= root[order[m]]
        /\ root[order[l]] \in Nat /\ root[order[p]] \in Nat
        /\ root[order[c]] \in Nat /\ root[order[m]] \in Nat
    BY <1>1, <2>3, <2>5, <2>6, RootsInOrder
  <2>8. QED  BY <2>2, <2>7
<1>2. ASSUME NEW c \in Changes(root, order, S), c <= l  PROVE c <= m
  <2>1. c \in Nat /\ l \in Nat /\ m \in Nat  BY ChangeAt, RootsInOrder
  <2>2. QED  BY <1>2, <2>1
<1>3. QED  BY <1>1, <1>2 DEF ChangesTo

\* Between two with different roots there is one.
LEMMA SomeChange ==
  ASSUME NEW root, NEW order, Sorted(root, order), NEW S,
         NEW l \in Elements, NEW m \in Elements, l <= m,
         order[l] \in S, order[m] \in S, root[order[l]] # root[order[m]]
  PROVE  ChangesTo(root, order, S, l) # ChangesTo(root, order, S, m)
<1>1. l \in Nat /\ m \in Nat /\ m <= N - 1 /\ N \in Nat /\ l < m
  <2>1. l \in Nat /\ m \in Nat /\ m <= N - 1 /\ N \in Nat
    BY RootsInOrder, UnionFindAssumption
  <2>2. l # m  OBVIOUS
  <2>3. QED  BY <2>1, <2>2
<1> DEFINE Others == {x \in l + 1 .. m : order[x] \in S /\ root[order[x]] # root[order[l]]}
<1>2. Others \in SUBSET Nat /\ Others # {}
  <2>1. m \in l + 1 .. m  BY <1>1
  <2>2. m \in Others  BY <2>1
  <2>3. QED  BY <1>1, <2>2
<1>3. \E c \in Others : \A y \in Others : c <= y
  <2> HIDE DEF Others
  <2>1. QED  BY <1>2, LeastOf
<1>4. PICK c \in Others : \A y \in Others : c <= y  BY <1>3
<1>5. c \in Nat /\ l + 1 <= c /\ c <= m  BY <1>1
<1> DEFINE Before == {x \in l .. c - 1 : order[x] \in S}
<1>6. Before \in SUBSET Nat /\ Before # {} /\ \A x \in Before : x <= c
  <2>1. l \in l .. c - 1  BY <1>1, <1>5
  <2>2. l \in Before  BY <2>1
  <2>3. \A x \in l .. c - 1 : x \in Nat /\ x <= c  BY <1>1, <1>5
  <2>4. QED  BY <2>2, <2>3
<1>7. \E p \in Before : \A y \in Before : y <= p
  <2> HIDE DEF Before
  <2>1. QED  BY <1>5, <1>6, GreatestOf
<1>8. PICK p \in Before : \A y \in Before : y <= p  BY <1>7
<1>9. p \in Nat /\ l <= p /\ p <= c - 1  BY <1>1, <1>5
<1>10. root[order[p]] = root[order[l]]
  <2>1. SUFFICES ASSUME root[order[p]] # root[order[l]]  PROVE FALSE
    OBVIOUS
  <2>2. p # l  BY <2>1
  <2>3. p \in l + 1 .. m  BY <1>1, <1>5, <1>9, <2>2
  <2>4. p \in Others  BY <2>1, <2>3
  <2>5. c <= p  BY <1>4, <2>4
  <2>6. QED  BY <1>5, <1>9, <2>5
<1>11. ASSUME NEW x \in p + 1 .. c - 1  PROVE order[x] \notin S
  <2>1. SUFFICES ASSUME order[x] \in S  PROVE FALSE
    OBVIOUS
  <2>2. x \in Nat /\ p < x /\ x \in l .. c - 1  BY <1>1, <1>5, <1>9
  <2>3. x \in Before  BY <2>1, <2>2
  <2>4. x <= p  BY <1>8, <2>3
  <2>5. QED  BY <1>9, <2>2, <2>4
<1>12. c \in Changes(root, order, S)
  <2>1. c \in Elements /\ p \in 0 .. c - 1  BY <1>1, <1>5, <1>9 DEF Elements
  <2>2. {order[c], order[p]} \subseteq S  OBVIOUS
  <2>3. root[order[p]] # root[order[c]]  BY <1>10
  <2>4. QED  BY <1>11, <2>1, <2>2, <2>3 DEF Changes
<1>13. c <= m /\ ~(c <= l)  BY <1>1, <1>5
<1>14. QED  BY <1>12, <1>13 DEF ChangesTo

\* An element's number is that of the changes up to its place, and two elements
\* have the same if and only if their roots are the same.
LEMMA CollapsedIds ==
  ASSUME NEW order, Sorted(Up[N], order), NEW S \in SUBSET Elements
  PROVE  LET root == Up[N]
             ids == UF_get_collapsed_cluster_ids(order, S)
         IN  /\ ids \in [S -> 0 .. N]
             /\ \A j \in S : ids[j] = Cardinality(ChangesTo(root, order, S, Place(order, j)))
             /\ \A i, j \in S : ids[i] = ids[j] <=> root[i] = root[j]
<1> DEFINE root == Up[N]
           ids == UF_get_collapsed_cluster_ids(order, S)
           count(l) == Cardinality(ChangesTo(root, order, S, l))
<1>1. ids = [j \in S |-> count(Place(order, j))]
  BY DEF UF_get_collapsed_cluster_ids, ChangesTo, Place
<1>2. /\ order \in Orders
      /\ \A j \in S : Place(order, j) \in Elements /\ order[Place(order, j)] = j
  BY PlaceOf DEF Sorted
<1> HIDE DEF ids, root
<1>3. ids \in [S -> 0 .. N]
  <2>1. \A j \in S : count(Place(order, j)) \in 0 .. N  BY <1>2, ChangesFinite
  <2> HIDE DEF count
  <2>2. QED  BY <1>1, <2>1
<1>4. Sorted(root, order)  BY DEF root
<1>5. ASSUME NEW i \in S, NEW j \in S, Place(order, i) <= Place(order, j)
      PROVE  ids[i] = ids[j] <=> root[i] = root[j]
  <2> DEFINE l == Place(order, i)
             m == Place(order, j)
  <2>1. /\ l \in Elements /\ m \in Elements /\ l <= m
        /\ order[l] = i /\ order[m] = j
        /\ ids[i] = count(l) /\ ids[j] = count(m)
    BY <1>1, <1>2, <1>5
  <2> HIDE DEF l, m
  <2>2. CASE root[i] = root[j]
    <3>1. ChangesTo(root, order, S, l) = ChangesTo(root, order, S, m)
      BY <1>4, <2>1, <2>2, NoChange
    <3>2. QED  BY <2>1, <2>2, <3>1
  <2>3. CASE root[i] # root[j]
    <3>1. ChangesTo(root, order, S, l) # ChangesTo(root, order, S, m)
      BY <1>4, <2>1, <2>3, SomeChange
    <3>2. ChangesTo(root, order, S, l) \subseteq ChangesTo(root, order, S, m)
      <4>1. ASSUME NEW c \in Changes(root, order, S), c <= l  PROVE c <= m
        <5>1. c \in Nat /\ l \in Nat /\ m \in Nat
          BY <1>4, <2>1, ChangeAt, RootsInOrder
        <5>2. QED  BY <2>1, <4>1, <5>1
      <4>2. QED  BY <4>1 DEF ChangesTo
    <3>3. IsFiniteSet(ChangesTo(root, order, S, m))  BY <2>1, ChangesFinite
    <3>4. count(l) # count(m)  BY <3>1, <3>2, <3>3, FS_Subset
    <3>5. QED  BY <2>1, <2>3, <3>4
  <2>4. QED  BY <2>2, <2>3
<1>6. \A i, j \in S : ids[i] = ids[j] <=> root[i] = root[j]
  <2>1. ASSUME NEW i \in S, NEW j \in S  PROVE ids[i] = ids[j] <=> root[i] = root[j]
    <3>1. Place(order, i) \in Nat /\ Place(order, j) \in Nat
      BY <1>2, <1>4, RootsInOrder
    <3>2. Place(order, i) <= Place(order, j) \/ Place(order, j) <= Place(order, i)
      BY <3>1
    <3>3. QED  BY <1>5, <3>2
  <2>2. QED  BY <2>1
<1>7. \A j \in S : ids[j] = count(Place(order, j))  BY <1>1
<1>8. QED  BY <1>3, <1>6, <1>7 DEF ids, root

\* The numbers begin with 0 and leave none out.
LEMMA IdsWithoutGaps ==
  ASSUME NEW order, Sorted(Up[N], order), NEW S \in SUBSET Elements
  PROVE  LET ids == UF_get_collapsed_cluster_ids(order, S)
             used == {ids[j] : j \in S}
         IN  used = 0 .. Cardinality(used) - 1
<1> DEFINE root == Up[N]
           ids == UF_get_collapsed_cluster_ids(order, S)
           used == {ids[j] : j \in S}
           upTo(l) == ChangesTo(root, order, S, l)
<1>1. /\ ids \in [S -> 0 .. N]
      /\ \A j \in S : ids[j] = Cardinality(upTo(Place(order, j)))
  BY CollapsedIds
<1>2. /\ order \in Orders /\ Sorted(root, order)
      /\ order \in [Elements -> Elements]
      /\ \A j \in S : Place(order, j) \in Elements /\ order[Place(order, j)] = j
      /\ \A k \in Elements : Place(order, order[k]) = k
  BY PlaceOf DEF Sorted
<1>3. N \in Nat  BY UnionFindAssumption
<1> HIDE DEF ids, root
<1>4. used \in SUBSET Nat /\ \A x \in used : x < N + 1
  <2>1. \A x \in 0 .. N : x \in Nat /\ x < N + 1  BY <1>3
  <2>2. QED  BY <1>1, <2>1
<1>5. ASSUME NEW j \in S, ids[j] # 0  PROVE ids[j] - 1 \in used
  <2> DEFINE l == Place(order, j)
  <2>1. l \in Elements /\ order[l] = j /\ ids[j] = Cardinality(upTo(l))
    BY <1>1, <1>2
  <2> HIDE DEF l
  <2>2. upTo(l) \subseteq Elements /\ IsFiniteSet(upTo(l)) /\ upTo(l) # {}
    <3>1. upTo(l) \subseteq Elements /\ IsFiniteSet(upTo(l))  BY <2>1, ChangesFinite
    <3>2. upTo(l) # {}  BY <1>5, <2>1, FS_EmptySet
    <3>3. QED  BY <3>1, <3>2
  <2>3. \A k \in Elements : k \in Nat /\ k <= N - 1  BY <1>3 DEF Elements
  <2>4. \E c \in upTo(l) : \A y \in upTo(l) : y <= c
    <3>1. upTo(l) \in SUBSET Nat /\ \A x \in upTo(l) : x <= N
      <4>1. \A k \in Elements : k <= N  BY <1>3, <2>3
      <4> HIDE DEF upTo
      <4>2. QED  BY <2>2, <2>3, <4>1
    <3> HIDE DEF upTo
    <3>2. QED  BY <1>3, <2>2, <3>1, GreatestOf
  <2>5. PICK c \in upTo(l) : \A y \in upTo(l) : y <= c  BY <2>4
  <2>6. c \in Changes(root, order, S) /\ c <= l  BY DEF ChangesTo
  <2>7. PICK p \in 0 .. c - 1 :
          /\ order[p] \in S
          /\ \A m \in p + 1 .. c - 1 : order[m] \notin S
    BY <2>6, ChangeAt
  <2>8. c \in Elements /\ c \in Nat /\ l \in Nat /\ c <= N - 1
    BY <2>1, <2>3, <2>6, ChangeAt
  <2>9. p \in Nat /\ p < c /\ p \in Elements  BY <1>3, <2>8 DEF Elements
  <2>10. upTo(p) = upTo(l) \ {c}
    <3>1. ASSUME NEW k \in upTo(p)  PROVE k \in upTo(l) /\ k # c
      <4>1. k \in Changes(root, order, S) /\ k <= p  BY DEF ChangesTo
      <4>2. k \in Nat  BY <2>3, <4>1, ChangeAt
      <4>3. k <= l /\ k # c  BY <2>6, <2>8, <2>9, <4>1, <4>2
      <4>4. QED  BY <4>1, <4>3 DEF ChangesTo
    <3>2. ASSUME NEW k \in upTo(l), k # c  PROVE k \in upTo(p)
      <4>1. k \in Changes(root, order, S)  BY DEF ChangesTo
      <4>2. k \in Nat /\ order[k] \in S  BY <2>3, <4>1, ChangeAt
      <4>3. k <= c  BY <2>5
      <4>4. k \notin p + 1 .. c - 1  BY <2>7, <4>2
      <4>5. k <= p  BY <2>8, <2>9, <3>2, <4>2, <4>3, <4>4
      <4>6. QED  BY <4>1, <4>5 DEF ChangesTo
    <3> HIDE DEF upTo
    <3>3. QED  BY <3>1, <3>2
  <2>11. Cardinality(upTo(p)) = Cardinality(upTo(l)) - 1
    <3> DEFINE A == upTo(l)
    <3>1. IsFiniteSet(A) /\ c \in A  BY <2>2
    <3> HIDE DEF A
    <3>2. Cardinality(A \ {c}) = Cardinality(A) - 1  BY <3>1, FS_RemoveElement
    <3>3. QED  BY <2>10, <3>2 DEF A
  <2>12. ids[order[p]] = Cardinality(upTo(p))
    BY <1>1, <1>2, <2>7, <2>9
  <2> HIDE DEF upTo
  <2>13. ids[order[p]] = ids[j] - 1  BY <2>1, <2>11, <2>12
  <2>14. QED  BY <2>7, <2>13
<1>6. \A x \in used : x # 0 => x - 1 \in used  BY <1>5
<1>7. used = 0 .. Cardinality(used) - 1
  <2>1. N + 1 \in Nat  BY <1>3
  <2> HIDE DEF used
  <2>2. QED  BY <1>4, <1>6, <2>1, NoGaps
<1>8. QED  BY <1>7 DEF ids

\* The elements of the group that ends at a place, and those of its class.
Group(lasts, order, k) ==
  {order[m] : m \in {x \in 0 .. k : \A l \in lasts : l < k => l < x}}

ClassAt(root, order, k) == {j \in Elements : root[j] = root[order[k]]}

LEMMA LastAt ==
  ASSUME NEW root, NEW order, Sorted(root, order),
         NEW k \in Lasts(root, order), NEW l \in Elements
  PROVE  k \in Elements /\ (k < l => root[order[k]] < root[order[l]])
<1>1. k \in Elements /\ (k = N - 1 \/ root[order[k]] # root[order[k + 1]])
  BY DEF Lasts
<1>2. k \in Nat /\ l \in Nat /\ l <= N - 1 /\ k <= N - 1 /\ N \in Nat
  BY <1>1, RootsInOrder, UnionFindAssumption
<1>3. ASSUME k < l  PROVE root[order[k]] < root[order[l]]
  <2>1. k + 1 \in Elements /\ k <= k + 1 /\ k + 1 <= l /\ k # N - 1
    BY <1>2, <1>3 DEF Elements
  <2>2. /\ root[order[k]] <= root[order[k + 1]]
        /\ root[order[k + 1]] <= root[order[l]]
        /\ root[order[k]] \in Nat /\ root[order[k + 1]] \in Nat
        /\ root[order[l]] \in Nat
    BY <1>1, <2>1, RootsInOrder
  <2>3. root[order[k]] # root[order[k + 1]]  BY <1>1, <2>1
  <2>4. QED  BY <2>2, <2>3
<1>4. QED  BY <1>1, <1>3

\* A group is a whole class.
LEMMA GroupIsClass ==
  ASSUME NEW root, NEW order, Sorted(root, order), NEW k \in Lasts(root, order)
  PROVE  Group(Lasts(root, order), order, k) = ClassAt(root, order, k)
<1> DEFINE lasts == Lasts(root, order)
<1>1. /\ order \in [Elements -> Elements]
      /\ \A j \in Elements : Place(order, j) \in Elements /\ order[Place(order, j)] = j
  BY PlaceOf DEF Sorted
<1>2. k \in Elements /\ k \in Nat /\ k <= N - 1 /\ N \in Nat
  <2>1. k \in Elements  BY DEF Lasts
  <2>2. QED  BY <2>1, RootsInOrder, UnionFindAssumption
<1>3. ASSUME NEW m \in 0 .. k, \A l \in lasts : l < k => l < m
      PROVE  order[m] \in ClassAt(root, order, k)
  <2>1. m \in Elements /\ m \in Nat /\ m <= k  BY <1>2 DEF Elements
  <2>2. SUFFICES ASSUME root[order[m]] # root[order[k]]  PROVE FALSE
    BY <1>1, <2>1 DEF ClassAt
  <2> DEFINE Others == {x \in m .. k : root[order[x]] # root[order[k]]}
  <2>3. \E x \in Others : \A y \in Others : y <= x
    <3>1. m \in m .. k /\ \A x \in m .. k : x \in Nat /\ x <= k  BY <1>2, <2>1
    <3>2. Others \in SUBSET Nat /\ Others # {} /\ \A x \in Others : x <= k
      BY <2>2, <3>1
    <3> HIDE DEF Others
    <3>3. QED  BY <1>2, <3>2, GreatestOf
  <2>4. PICK x \in Others : \A y \in Others : y <= x  BY <2>3
  <2>5. x \in Nat /\ m <= x /\ x <= k /\ x # k  BY <1>2, <2>1
  <2>6. x + 1 \in m .. k  BY <1>2, <2>1, <2>5
  <2>7. root[order[x + 1]] = root[order[k]]
    <3>1. x + 1 \in Others => x + 1 <= x  BY <2>4
    <3>2. x + 1 \notin Others  BY <2>5, <3>1
    <3>3. QED  BY <2>6, <3>2
  <2>8. x \in lasts
    <3>1. x \in Elements  BY <1>2, <2>5 DEF Elements
    <3>2. root[order[x]] # root[order[x + 1]]  BY <2>7
    <3>3. QED  BY <3>1, <3>2 DEF Lasts
  <2>9. x < m  BY <1>2, <1>3, <2>5, <2>8
  <2>10. QED  BY <2>1, <2>5, <2>9
<1>4. ASSUME NEW j \in ClassAt(root, order, k)
      PROVE  j \in Group(lasts, order, k)
  <2> DEFINE m == Place(order, j)
  <2>1. j \in Elements /\ root[j] = root[order[k]]  BY DEF ClassAt
  <2>2. m \in Elements /\ order[m] = j  BY <1>1, <2>1
  <2> HIDE DEF m
  <2>3. m \in Nat /\ root[order[m]] \in Nat /\ root[order[k]] \in Nat
    BY <1>2, <2>2, RootsInOrder
  <2>4. m <= k
    <3>1. k < m => root[order[k]] < root[order[m]]  BY <2>2, LastAt
    <3>2. QED  BY <1>2, <2>1, <2>2, <2>3, <3>1
  <2>5. ASSUME NEW l \in lasts, l < k  PROVE l < m
    <3>1. l \in Elements /\ root[order[l]] < root[order[k]]
      BY <1>2, <2>5, LastAt
    <3>2. l \in Nat /\ root[order[l]] \in Nat /\ (m <= l => root[order[m]] <= root[order[l]])
      BY <2>2, <3>1, RootsInOrder
    <3>3. QED  BY <2>1, <2>2, <2>3, <3>1, <3>2
  <2>6. m \in 0 .. k  BY <1>2, <2>3, <2>4
  <2>7. QED  BY <2>2, <2>5, <2>6 DEF Group
<1>5. Group(lasts, order, k) \subseteq ClassAt(root, order, k)  BY <1>3 DEF Group
<1> HIDE DEF lasts
<1>6. QED  BY <1>4, <1>5 DEF lasts

\* Every class is a group: the one that ends at the last of its places.
LEMMA ClassIsGroup ==
  ASSUME NEW root, NEW order, Sorted(root, order), NEW i \in Elements
  PROVE  \E k \in Lasts(root, order) : root[order[k]] = root[i]
<1> DEFINE Here == {k \in Elements : root[order[k]] = root[i]}
<1>1. N \in Nat /\ \A k \in Elements : k \in Nat /\ k <= N
  BY UnionFindAssumption DEF Elements
<1>2. Here \in SUBSET Nat /\ Here # {} /\ \A k \in Here : k <= N
  <2>1. Place(order, i) \in Here  BY PlaceOf DEF Sorted
  <2>2. QED  BY <1>1, <2>1
<1>3. \E k \in Here : \A y \in Here : y <= k
  <2> HIDE DEF Here
  <2>1. QED  BY <1>1, <1>2, GreatestOf
<1>4. PICK k \in Here : \A y \in Here : y <= k  BY <1>3
<1>5. k \in Nat /\ k <= N - 1  BY RootsInOrder
<1>6. k # N - 1 => root[order[k]] # root[order[k + 1]]
  <2>1. SUFFICES ASSUME k # N - 1, root[order[k + 1]] = root[i]  PROVE FALSE
    OBVIOUS
  <2>2. k + 1 \in Elements  BY <1>1, <1>5, <2>1 DEF Elements
  <2>3. k + 1 <= k  BY <1>4, <2>1, <2>2
  <2>4. QED  BY <1>5, <2>3
<1>7. k \in Lasts(root, order)  BY <1>6 DEF Lasts
<1>8. QED  BY <1>7

-----------------------------------------------------------------------------
(* The theorems. *)

\* The variables of the union-find keep their types, for any number of elements.
THEOREM UFTypeCorrect == UFSpec => []UFTypeOK
<1>1. UFInv => UFTypeOK  BY DEF UFInv
<1>2. QED  BY <1>1, UFInitInv, UFStepInv, PTL DEF UFSpec

\* While UF_find compresses a path and UF_union links two trees, every class
\* that was asked for has exactly one root, and no parent lies outside it.
THEOREM UFOneRootAlways == UFSpec => []UFOneRoot
<1>1. UFInv => UFOneRoot  BY DEF UFInv
<1>2. QED  BY <1>1, UFInitInv, UFStepInv, PTL DEF UFSpec

\* The sizes at the roots and the number of classes, which combine_geometries
\* allocates its result by, are those of the classes asked for.
THEOREM UFSizesAlways == UFSpec => []UFSizesExact
<1>1. UFInv => UFSizesExact  BY DEF UFInv
<1>2. QED  BY <1>1, UFInitInv, UFStepInv, PTL DEF UFSpec

\* Read off the arrays alone, at any moment of any call and for any number of
\* elements, the classes are a partition of which only two classes at a time
\* ever become one: the union-find implements Partition.
THEOREM UFImplementsPartition == UFSpec => UFPartition
<1>1. UFInit => P!Init
  <2>1. UFInit => SameRoot = united
    BY UFInitInv, NoCirclesInit, SameRootUnited
  <2>2. QED  BY <2>1 DEF UFInit, P!Init
<1>2. UFInv /\ NoCircles => SameRoot = united  BY SameRootUnited
<1>3. /\ UFInv /\ [UFNext]_ufVars
      /\ SameRoot = united /\ (SameRoot = united)'
      => [P!Next]_SameRoot
  <2> SUFFICES ASSUME UFInv, [UFNext]_ufVars, SameRoot = united, SameRoot' = united'
               PROVE  SameRoot' = SameRoot \/ P!Next
    OBVIOUS
  <2>1. \/ united' = united
        \/ \E c, d \in united : united' = P!Merge(united, c \cup d)
    BY UnionStep
  <2>2. QED  BY <2>1 DEF P!Next
<1>4. QED
  BY <1>1, <1>2, <1>3, UFInitInv, UFStepInv, NoCirclesInit, NoCirclesStep, PTL
     DEF UFSpec, UFPartition, P!Spec

\* The numbers of the clusters, for any number of elements, whatever qsort does
\* with equal ones and whichever are in a cluster: 0, 1, 2, ... without a gap,
\* the same for two elements if and only if they were united.
THEOREM ClusterIdsAlwaysExact == UFSpec => []ClusterIdsExact
<1>1. UFInv /\ NoCircles => ClusterIdsExact
  <2> SUFFICES ASSUME UFInv, NoCircles,
                      NEW order \in UF_ordered_by_cluster, NEW S \in SUBSET Elements
               PROVE  LET ids == UF_get_collapsed_cluster_ids(order, S)
                          used == {ids[j] : j \in S}
                      IN  /\ used = 0 .. Cardinality(used) - 1
                          /\ \A i, j \in S : ids[i] = ids[j] <=> P!Together(united, i, j)
    BY DEF ClusterIdsExact
  <2>1. Sorted(Up[N], order)  BY OrderedIsSorted
  <2>2. LET ids == UF_get_collapsed_cluster_ids(order, S)
        IN  \A i, j \in S : ids[i] = ids[j] <=> Up[N][i] = Up[N][j]
    BY <2>1, CollapsedIds
  <2>3. \A i, j \in S : Up[N][i] = Up[N][j] <=> P!Together(united, i, j)
    BY SameRootUnited DEF Same
  <2>4. QED  BY <2>1, <2>2, <2>3, IdsWithoutGaps
<1>2. QED
  BY <1>1, UFInitInv, UFStepInv, NoCirclesInit, NoCirclesStep, PTL DEF UFSpec

\* combine_geometries makes one group of each class and num_clusters of them,
\* for any number of elements and any order that qsort may leave.
THEOREM GroupsAlwaysExact == UFSpec => []GroupsExact
<1>1. UFInv /\ NoCircles => GroupsExact
  <2> SUFFICES ASSUME UFInv, NoCircles, NEW order \in UF_ordered_by_cluster
               PROVE  LET groups == combine_geometries(order)
                      IN  /\ {groups[k] : k \in DOMAIN groups} = united
                          /\ Cardinality(DOMAIN groups) = num_clusters
    BY DEF GroupsExact
  <2> DEFINE root == Up[N]
             lasts == Lasts(root, order)
             groups == combine_geometries(order)
             class(i) == {j \in Elements : root[j] = root[i]}
  <2>1. Sorted(root, order)  BY OrderedIsSorted
  <2>2. order \in [Elements -> Elements]  BY <2>1, PlaceOf DEF Sorted
  <2>3. groups = [k \in lasts |-> Group(lasts, order, k)]
    BY DEF combine_geometries, Group
  <2>4. united = {class(i) : i \in Elements}
    <3>1. SameRoot = {class(i) : i \in Elements}  BY DEF SameRoot
    <3>2. QED  BY <3>1, SameRootUnited
  <2> HIDE DEF root, groups
  <2>5. ASSUME NEW k \in lasts
        PROVE  k \in Elements /\ order[k] \in Elements /\ groups[k] = class(order[k])
    <3>1. Group(lasts, order, k) = ClassAt(root, order, k)  BY <2>1, GroupIsClass
    <3>2. k \in Elements  BY DEF Lasts
    <3> HIDE DEF lasts
    <3>3. groups[k] = Group(lasts, order, k)  BY <2>3
    <3>4. QED  BY <2>2, <3>1, <3>2, <3>3 DEF ClassAt
  <2>6. ASSUME NEW c \in united  PROVE \E k \in lasts : groups[k] = c
    <3>1. PICK i \in Elements : c = class(i)  BY <2>4
    <3>2. PICK k \in lasts : root[order[k]] = root[i]  BY <2>1, ClassIsGroup
    <3>3. class(order[k]) = class(i)  BY <3>2
    <3>4. QED  BY <2>5, <3>1, <3>3
  <2>7. ASSUME NEW k \in lasts, NEW l \in lasts, groups[k] = groups[l]  PROVE k = l
    <3>1. /\ k \in Elements /\ l \in Elements
          /\ order[k] \in Elements /\ order[l] \in Elements
      BY <2>5
    <3>2. root[order[k]] = root[order[l]]
      <4>1. class(order[k]) = class(order[l])  BY <2>5, <2>7
      <4>2. order[k] \in class(order[k])  BY <3>1
      <4>3. QED  BY <4>1, <4>2
    <3>3. /\ k < l => root[order[k]] < root[order[l]]
          /\ l < k => root[order[l]] < root[order[k]]
      BY <2>1, <3>1, LastAt
    <3>4. k \in Nat /\ l \in Nat /\ root[order[k]] \in Nat /\ root[order[l]] \in Nat
      BY <2>1, <3>1, RootsInOrder
    <3>5. QED  BY <3>2, <3>3, <3>4
  <2> HIDE DEF lasts, class
  <2>8. DOMAIN groups = lasts  BY <2>3
  <2>9. {groups[k] : k \in lasts} = united
    <3>1. ASSUME NEW k \in lasts  PROVE groups[k] \in united
      BY <2>4, <2>5
    <3>2. QED  BY <2>6, <3>1
  <2>10. Cardinality(lasts) = num_clusters
    <3>1. groups \in [lasts -> united]  BY <2>3, <2>9
    <3>2. groups \in Bijection(lasts, united)
      BY <2>6, <2>7, <3>1 DEF Bijection, Injection, Surjection, IsInjective
    <3>3. lasts \subseteq Elements  BY DEF lasts, Lasts
    <3>4. IsFiniteSet(lasts)  BY <3>3, ElementsFinite, FS_Subset
    <3>5. Cardinality(united) = Cardinality(lasts)
      BY <3>2, <3>4, FS_Bijection DEF ExistsBijection
    <3>6. QED  BY <3>5 DEF UFInv, UFSizesExact
  <2>11. QED  BY <2>8, <2>9, <2>10 DEF groups
<1>2. QED
  BY <1>1, UFInitInv, UFStepInv, NoCirclesInit, NoCirclesStep, PTL DEF UFSpec

-----------------------------------------------------------------------------
(***************************************************************************)
(* Density clustering.  The invariant says what is settled in the middle   *)
(* of the loops: about the geometries whose turn is over, and about the    *)
(* candidates of the one whose turn it is that have been looked at.  The   *)
(* promise is only about the end, and CoresStayApart alone is not          *)
(* inductive: it takes that a geometry in no cluster is alone, and that    *)
(* is_in_core marks core points.                                           *)
(***************************************************************************)

IsGrouping(part) ==
  /\ part \in SUBSET SUBSET Geoms
  /\ \A i \in Geoms : \E c \in part : i \in c
  /\ \A c, d \in part : c = d \/ c \cap d = {}
  /\ \A c \in part : c # {}

Grouped(p, q) == Q!Together(uf, p, q)

\* The types, and where the loops are.
LoopInv ==
  /\ problem \in Problems
  /\ IsGrouping(uf)
  /\ in_a_cluster \subseteq Geoms
  /\ is_in_core \subseteq in_a_cluster \cap Core
  /\ at \in 0 .. NumGeoms
  /\ found \subseteq Geoms \ problem.empty
  /\ neighbors \subseteq Geoms
  /\ dbPhase \in {"next", "visit", "success", "failure"}
  /\ dbPhase = "visit" => at \in Geoms \ problem.empty
  /\ dbPhase = "next" => found = {} /\ neighbors = {}
  /\ dbPhase = "success" => at = NumGeoms \/ (General /\ NumGeoms < MinPoints)
  /\ General \/ (in_a_cluster = Geoms /\ is_in_core = {})

\* A geometry in no cluster is alone, and so is an empty one; one in a cluster
\* is together with a core point near it.
PlacedInv ==
  /\ \A b \in Geoms \ in_a_cluster : {b} \in uf
  /\ \A b \in problem.empty : {b} \in uf
  /\ General => \A b \in in_a_cluster : \E c \in Neighborhood(b) \cap is_in_core : Grouped(b, c)

\* The geometries before at: the core points among them are known, have their
\* neighbors in a cluster, and are together with the core points near them.
TurnsInv ==
  \A p \in Core : p < at =>
    IF General
    THEN /\ p \in is_in_core
         /\ Neighborhood(p) \subseteq in_a_cluster
         /\ \A q \in Core : q < at /\ Near(p, q) => Grouped(p, q)
    ELSE \A q \in Neighborhood(p) : Grouped(p, q)

\* The candidates of at that have been looked at.
VisitInv ==
  /\ General =>
       /\ neighbors \subseteq Neighborhood(at)
       /\ Cardinality(neighbors) <= MinPoints
       /\ \A p \in is_in_core : p < at \/ (p = at /\ Cardinality(neighbors) = MinPoints)
  /\ dbPhase = "visit" =>
       IF ~General THEN \A q \in Neighborhood(at) \ found : Grouped(at, q)
       ELSE IF Cardinality(neighbors) < MinPoints
       THEN Neighborhood(at) \ found \subseteq neighbors
       ELSE /\ at \in is_in_core
            /\ \A q \in Neighborhood(at) \ found :
                 q \in in_a_cluster /\ (q \in is_in_core => Grouped(at, q))

DBInv == LoopInv /\ PlacedInv /\ TurnsInv /\ VisitInv /\ CoresStayApart

-----------------------------------------------------------------------------
(* The problem. *)

LEMMA ProblemFacts ==
  ASSUME problem \in Problems
  PROVE  /\ NumGeoms \in Nat /\ MinPoints \in Nat
         /\ \A i \in Geoms : i \in Nat /\ i < NumGeoms
         /\ problem.empty \subseteq Geoms
         /\ \A pair \in problem.near : pair \subseteq Geoms \ problem.empty
<1>1. NumGeoms \in Nat /\ problem.minPoints \in Nat /\ problem.empty \subseteq Geoms
  BY ClusteringAssumption
<1>2. \A pair \in problem.near : pair \subseteq Geoms \ problem.empty
  BY ClusteringAssumption
<1>3. \A i \in Geoms : i \in Nat /\ i < NumGeoms  BY <1>1 DEF Geoms
<1>4. QED  BY <1>1, <1>2, <1>3 DEF MinPoints

LEMMA GeomsFinite == IsFiniteSet(Geoms) /\ Cardinality(Geoms) = NumGeoms
<1>1. NumGeoms \in Nat  BY ClusteringAssumption
<1>2. 0 \in Int /\ NumGeoms - 1 \in Int /\ (0 > NumGeoms - 1 => NumGeoms = 0)
      /\ (NumGeoms - 1) - 0 + 1 = NumGeoms
  BY <1>1
<1>3. /\ IsFiniteSet(0 .. NumGeoms - 1)
      /\ Cardinality(0 .. NumGeoms - 1) =
           IF 0 > NumGeoms - 1 THEN 0 ELSE (NumGeoms - 1) - 0 + 1
  BY <1>2, FS_Interval
<1>4. QED  BY <1>2, <1>3 DEF Geoms

\* Nearness is symmetric, and empty geometries are near none.
LEMMA NearSymmetric ==
  ASSUME problem \in Problems
  PROVE  /\ \A p : Near(p, p)
         /\ \A p, q : Near(p, q) => Near(q, p)
         /\ \A p \in Geoms \ problem.empty : p \in Neighborhood(p)
         /\ \A p \in Geoms : \A q \in Neighborhood(p) :
              /\ q \in Geoms \ problem.empty /\ Near(p, q)
              /\ p \in Geoms \ problem.empty /\ p \in Neighborhood(q)
<1>1. \A p : Near(p, p)  BY DEF Near
<1>2. ASSUME NEW p, NEW q, Near(p, q)  PROVE Near(q, p)
  <2>1. {p, q} = {q, p}  OBVIOUS
  <2>2. QED  BY <1>2, <2>1 DEF Near
<1>3. \A p \in Geoms \ problem.empty : p \in Neighborhood(p)
  BY <1>1 DEF Neighborhood
<1>4. ASSUME NEW p \in Geoms, NEW q \in Neighborhood(p)
      PROVE  /\ q \in Geoms \ problem.empty /\ Near(p, q)
             /\ p \in Geoms \ problem.empty /\ p \in Neighborhood(q)
  <2>1. q \in Geoms \ problem.empty /\ Near(p, q)  BY DEF Neighborhood
  <2>2. p \in Geoms \ problem.empty
    <3>1. CASE p = q  BY <2>1, <3>1
    <3>2. CASE p # q
      <4>1. {p, q} \in problem.near  BY <2>1, <3>2 DEF Near
      <4>2. {p, q} \subseteq Geoms \ problem.empty  BY <4>1, ProblemFacts
      <4>3. QED  BY <4>2
    <3>3. QED  BY <3>1, <3>2
  <2>3. p \in Neighborhood(q)  BY <1>2, <2>1, <2>2 DEF Neighborhood
  <2>4. QED  BY <2>1, <2>2, <2>3
<1>5. QED  BY <1>1, <1>2, <1>3, <1>4

LEMMA NeighborhoodFinite ==
  ASSUME NEW p
  PROVE  /\ IsFiniteSet(Neighborhood(p))
         /\ Cardinality(Neighborhood(p)) \in Nat
         /\ Cardinality(Neighborhood(p)) <= NumGeoms
<1>1. Neighborhood(p) \subseteq Geoms  BY DEF Neighborhood
<1>2. QED  BY <1>1, GeomsFinite, FS_Subset, FS_CardinalityType

\* With min_points 1 all but the empty geometries are core points.
LEMMA LoneCores ==
  ASSUME problem \in Problems, ~General, NEW p \in Geoms \ problem.empty
  PROVE  p \in Core
<1>1. MinPoints \in Nat /\ MinPoints <= 1  BY ProblemFacts DEF General
<1>2. p \in Neighborhood(p)  BY NearSymmetric
<1>3. IsFiniteSet(Neighborhood(p)) /\ Cardinality(Neighborhood(p)) \in Nat
  BY NeighborhoodFinite
<1>4. Cardinality(Neighborhood(p)) # 0  BY <1>2, <1>3, FS_EmptySet
<1>5. Cardinality(Neighborhood(p)) >= MinPoints  BY <1>1, <1>3, <1>4
<1>6. QED  BY <1>5 DEF Core

\* Core points link as connected points do.
LEMMA LinkedSymmetric ==
  ASSUME problem \in Problems, NEW p, NEW q, Linked(p, q)
  PROVE  Linked(q, p)
<1>1. p \in Core /\ q \in Core  BY DEF Linked
<1>2. ASSUME NEW S \in SUBSET Core, q \in S, Spread(S)  PROVE p \in S
  <2>1. SUFFICES ASSUME p \notin S  PROVE FALSE
    OBVIOUS
  <2> DEFINE Rest == Core \ S
  <2>2. Spread(Rest)
    <3>1. ASSUME NEW x \in Rest, NEW y \in Core, Near(x, y)  PROVE y \notin S
      <4>1. Near(y, x)  BY <3>1, NearSymmetric
      <4>2. y \in S => x \in S  BY <1>2, <4>1 DEF Spread
      <4>3. QED  BY <4>2
    <3>2. QED  BY <3>1 DEF Spread
  <2>3. p \in Rest /\ Rest \in SUBSET Core  BY <1>1, <2>1
  <2> HIDE DEF Rest
  <2>4. q \in Rest  BY <2>2, <2>3 DEF Linked
  <2>5. QED  BY <1>2, <2>4 DEF Rest
<1>3. QED  BY <1>1, <1>2 DEF Linked

LEMMA LinkedTransitive ==
  ASSUME NEW p, NEW q, NEW r, Linked(p, q), Linked(q, r)
  PROVE  Linked(p, r)
BY DEF Linked

LEMMA NearLinked ==
  ASSUME problem \in Problems, NEW p \in Core, NEW q \in Core, Near(p, q)
  PROVE  Linked(p, q)
BY DEF Linked, Spread

-----------------------------------------------------------------------------
(* Partitions. *)

LEMMA GroupedClass ==
  ASSUME NEW part, IsGrouping(part), NEW x, NEW y,
         Q!Together(part, x, y), NEW c \in part, x \in c
  PROVE  y \in c
<1>1. PICK d \in part : x \in d /\ y \in d  BY DEF Q!Together
<1>2. c = d  BY <1>1 DEF IsGrouping
<1>3. QED  BY <1>1, <1>2

LEMMA TogetherFacts ==
  ASSUME NEW part, IsGrouping(part)
  PROVE  /\ \A x \in Geoms : Q!Together(part, x, x)
         /\ \A x, y : Q!Together(part, x, y) => Q!Together(part, y, x)
         /\ \A x, y, z : Q!Together(part, x, y) /\ Q!Together(part, y, z)
                         => Q!Together(part, x, z)
         /\ \A x, y : Q!Together(part, x, y) => x \in Geoms /\ y \in Geoms
<1>1. \A x \in Geoms : Q!Together(part, x, x)  BY DEF IsGrouping, Q!Together
<1>2. ASSUME NEW x, NEW y, NEW z, Q!Together(part, x, y), Q!Together(part, y, z)
      PROVE  Q!Together(part, x, z)
  <2>1. PICK c \in part : x \in c /\ y \in c  BY <1>2 DEF Q!Together
  <2>2. z \in c  BY <1>2, <2>1, GroupedClass
  <2>3. QED  BY <2>1, <2>2 DEF Q!Together
<1>3. \A x, y : Q!Together(part, x, y) => x \in Geoms /\ y \in Geoms
  BY DEF IsGrouping, Q!Together
<1>4. QED  BY <1>1, <1>2, <1>3 DEF Q!Together

\* What becomes of the classes when those that meet T become one.
LEMMA MergeFacts ==
  ASSUME NEW part, IsGrouping(part), NEW T \in SUBSET Geoms, T # {}
  PROVE  /\ IsGrouping(Q!Merge(part, T))
         /\ \A x, y : Q!Together(part, x, y) => Q!Together(Q!Merge(part, T), x, y)
         /\ \A x \in T, y \in T : Q!Together(Q!Merge(part, T), x, y)
         /\ \A x, y : Q!Together(Q!Merge(part, T), x, y) =>
              \/ Q!Together(part, x, y)
              \/ \E s, t \in T : Q!Together(part, x, s) /\ Q!Together(part, y, t)
         /\ \A x \in Geoms \ T : {x} \in part => {x} \in Q!Merge(part, T)
<1> DEFINE one == UNION {c \in part : c \cap T # {}}
           rest == {c \in part : c \cap T = {}}
           merged == Q!Merge(part, T)
<1>1. merged = rest \cup {one}  BY DEF Q!Merge
<1>2. \A x \in one : \E c \in part : x \in c /\ c \cap T # {} /\ c \subseteq one
  OBVIOUS
<1>3. \A c \in part : c \in rest \/ c \subseteq one
  OBVIOUS
<1>4. T \subseteq one
  <2>1. ASSUME NEW x \in T  PROVE x \in one
    <3>1. PICK c \in part : x \in c  BY DEF IsGrouping
    <3>2. QED  BY <3>1
  <2>2. QED  BY <2>1
<1>5. \A c \in rest : c \in part /\ c \cap one = {} /\ c \cap T = {}
  BY DEF IsGrouping
<1> HIDE DEF one, merged
<1>6. IsGrouping(merged)
  <2>1. merged \in SUBSET SUBSET Geoms
    <3>1. one \subseteq Geoms  BY <1>2 DEF IsGrouping
    <3>2. QED  BY <1>1, <1>5, <3>1 DEF IsGrouping
  <2>2. ASSUME NEW i \in Geoms  PROVE \E c \in merged : i \in c
    <3>1. PICK c \in part : i \in c  BY DEF IsGrouping
    <3>2. QED  BY <1>1, <1>3, <3>1
  <2>3. \A c, d \in merged : c = d \/ c \cap d = {}
    BY <1>1, <1>5 DEF IsGrouping
  <2>4. \A c \in merged : c # {}  BY <1>1, <1>4, <1>5 DEF IsGrouping
  <2>5. QED  BY <2>1, <2>2, <2>3, <2>4 DEF IsGrouping
<1>7. ASSUME NEW x, NEW y, Q!Together(part, x, y)  PROVE Q!Together(merged, x, y)
  <2>1. PICK c \in part : x \in c /\ y \in c  BY <1>7 DEF Q!Together
  <2>2. QED  BY <1>1, <1>3, <2>1 DEF Q!Together
<1>8. \A x \in T, y \in T : Q!Together(merged, x, y)
  BY <1>1, <1>4 DEF Q!Together
<1>9. ASSUME NEW x, NEW y, Q!Together(merged, x, y)
      PROVE  \/ Q!Together(part, x, y)
             \/ \E s, t \in T : Q!Together(part, x, s) /\ Q!Together(part, y, t)
  <2>1. PICK c \in merged : x \in c /\ y \in c  BY <1>9 DEF Q!Together
  <2>2. CASE c \in rest  BY <1>5, <2>1, <2>2 DEF Q!Together
  <2>3. CASE c = one
    <3>1. PICK d \in part : x \in d /\ d \cap T # {}  BY <1>2, <2>1, <2>3
    <3>2. PICK e \in part : y \in e /\ e \cap T # {}  BY <1>2, <2>1, <2>3
    <3>3. PICK s \in T : s \in d  BY <3>1
    <3>4. PICK t \in T : t \in e  BY <3>2
    <3>5. QED  BY <3>1, <3>2, <3>3, <3>4 DEF Q!Together
  <2>4. QED  BY <1>1, <2>1, <2>2, <2>3
<1>10. \A x \in Geoms \ T : {x} \in part => {x} \in merged
  BY <1>1
<1>11. QED  BY <1>6, <1>7, <1>8, <1>9, <1>10 DEF merged

-----------------------------------------------------------------------------
(* The parts of the invariant, step by step. *)

LEMMA ProblemKept ==
  ASSUME problem' = problem
  PROVE  /\ MinPoints' = MinPoints
         /\ General' <=> General
         /\ Core' = Core
         /\ \A p : Neighborhood(p)' = Neighborhood(p)
         /\ \A p, q : Near(p, q)' <=> Near(p, q)
         /\ \A p, q : Linked(p, q)' <=> Linked(p, q)
<1>1. \A p, q : Near(p, q)' <=> Near(p, q)  BY DEF Near
<1>2. MinPoints' = MinPoints  BY DEF MinPoints
<1>3. General' <=> General  BY <1>2 DEF General
<1>4. \A p : Neighborhood(p)' = Neighborhood(p)  BY <1>1 DEF Neighborhood
<1>5. Core' = Core  BY <1>2, <1>4 DEF Core
<1>6. \A S : Spread(S)' <=> Spread(S)  BY <1>1, <1>5 DEF Spread
<1>7. \A p, q : Linked(p, q)' <=> Linked(p, q)  BY <1>5, <1>6 DEF Linked
<1>8. QED  BY <1>1, <1>2, <1>3, <1>4, <1>5, <1>7

LEMMA DBInitInv == DBInit => DBInv
<1> SUFFICES ASSUME DBInit  PROVE DBInv
  OBVIOUS
<1> USE DEF DBInit
<1>1. problem \in Problems  OBVIOUS
<1>2. NumGeoms \in Nat /\ MinPoints \in Nat /\ problem.empty \subseteq Geoms
      /\ \A i \in Geoms : i \in Nat
  BY <1>1, ProblemFacts
<1>3. IsGrouping(uf)
  <2>1. uf = Q!Alone  OBVIOUS
  <2>2. QED  BY ONLY <2>1 DEF IsGrouping, Q!Alone
<1>4. LoopInv  BY <1>1, <1>2, <1>3 DEF LoopInv
<1>5. PlacedInv  BY <1>2 DEF PlacedInv, Q!Alone
<1>6. TurnsInv
  <2>1. \A p \in Core : p \in Nat /\ ~(p < 0)  BY <1>2 DEF Core
  <2>2. QED  BY <2>1 DEF TurnsInv
<1>7. VisitInv  BY <1>2, FS_EmptySet DEF VisitInv
<1>8. CoresStayApart
  <2>1. ASSUME NEW p \in Core, NEW q \in Core, Grouped(p, q)  PROVE Linked(p, q)
    <3>1. p = q  BY <2>1 DEF Grouped, Q!Together, Q!Alone
    <3>2. Near(p, q)  BY <3>1 DEF Near
    <3>3. QED  BY <1>1, <3>2, NearLinked
  <2>2. QED  BY <2>1 DEF CoresStayApart, Grouped
<1>9. QED  BY <1>4, <1>5, <1>6, <1>7, <1>8 DEF DBInv

\* at goes on to the next geometry, when all is settled about its own.
LEMMA AdvanceInv ==
  ASSUME DBInv, Advance, at \in Geoms,
         General => \A p \in is_in_core : p <= at,
         at \in Core =>
           IF General
           THEN /\ at \in is_in_core
                /\ Neighborhood(at) \subseteq in_a_cluster
                /\ \A q \in is_in_core : Near(at, q) => Grouped(at, q)
           ELSE \A q \in Neighborhood(at) : Grouped(at, q)
  PROVE  DBInv'
<1>1. /\ dbPhase' = "next" /\ at' = at + 1 /\ found' = {} /\ neighbors' = {}
      /\ UNCHANGED <<problem, uf, in_a_cluster, is_in_core>>
  BY DEF Advance
<1>2. /\ problem \in Problems /\ NumGeoms \in Nat /\ MinPoints \in Nat
      /\ \A i \in Geoms : i \in Nat /\ i < NumGeoms
  BY ProblemFacts DEF DBInv, LoopInv
<1>3. /\ MinPoints' = MinPoints /\ (General' <=> General) /\ Core' = Core
      /\ \A p : Neighborhood(p)' = Neighborhood(p)
      /\ \A p, q : Near(p, q)' <=> Near(p, q)
      /\ \A p, q : Linked(p, q)' <=> Linked(p, q)
  BY <1>1, ProblemKept
<1>4. LoopInv'
  <2>1. at + 1 \in 0 .. NumGeoms  BY <1>2
  <2>2. QED  BY <1>1, <1>3, <2>1 DEF DBInv, LoopInv
<1>5. PlacedInv'  BY <1>1, <1>3 DEF DBInv, PlacedInv, Grouped
<1>6. TurnsInv'
  <2>1. \A p \in Geoms : p < at + 1 => p < at \/ p = at  BY <1>2
  <2>2. Core \subseteq Geoms  BY DEF Core
  <2>3. ASSUME NEW p \in Core, p < at + 1, General
        PROVE  /\ p \in is_in_core
               /\ Neighborhood(p) \subseteq in_a_cluster
               /\ \A q \in Core : q < at + 1 /\ Near(p, q) => Grouped(p, q)
    <3>1. \A x \in Core : x < at + 1 => x \in is_in_core
      BY <2>1, <2>2, <2>3 DEF DBInv, TurnsInv
    <3>2. Neighborhood(p) \subseteq in_a_cluster
      BY <2>1, <2>2, <2>3 DEF DBInv, TurnsInv
    <3>3. ASSUME NEW q \in Core, q < at + 1, Near(p, q)  PROVE Grouped(p, q)
      <4>1. CASE p = at  BY <2>3, <3>1, <3>3, <4>1
      <4>2. CASE q = at
        <5>1. Near(at, p)  BY <1>2, <3>3, <4>2, NearSymmetric
        <5>2. Grouped(at, p)  BY <2>3, <3>1, <3>3, <4>2, <5>1
        <5>3. QED  BY <4>2, <5>2, TogetherFacts DEF Grouped, DBInv, LoopInv
      <4>3. CASE p < at /\ q < at  BY <2>3, <3>3, <4>3 DEF DBInv, TurnsInv
      <4>4. QED  BY <2>1, <2>2, <2>3, <3>3, <4>1, <4>2, <4>3
    <3>4. QED  BY <2>3, <3>1, <3>2, <3>3
  <2>4. ASSUME NEW p \in Core, p < at + 1, ~General
        PROVE  \A q \in Neighborhood(p) : Grouped(p, q)
    BY <2>1, <2>2, <2>4 DEF DBInv, TurnsInv
  <2>5. QED  BY <1>1, <1>3, <2>3, <2>4 DEF TurnsInv, Grouped
<1>7. VisitInv'
  <2>1. General => \A p \in is_in_core : p < at + 1
    <3>1. is_in_core \subseteq Geoms  BY DEF DBInv, LoopInv
    <3>2. QED  BY <1>2, <3>1
  <2>2. Cardinality({}) <= MinPoints  BY <1>2, FS_EmptySet
  <2>3. QED  BY <1>1, <1>3, <2>1, <2>2 DEF VisitInv
<1>8. CoresStayApart'  BY <1>1, <1>3 DEF DBInv, CoresStayApart, Grouped
<1>9. QED  BY <1>4, <1>5, <1>6, <1>7, <1>8 DEF DBInv

\* A geometry whose turn it is not yet is no known core point.
LEMMA NextFacts ==
  ASSUME DBInv, dbPhase = "next", General
  PROVE  \A p \in is_in_core : p < at /\ p <= at
<1>1. /\ problem \in Problems /\ MinPoints \in Nat /\ MinPoints # 0
      /\ at \in Nat /\ \A i \in Geoms : i \in Nat
  BY ProblemFacts DEF DBInv, LoopInv, General
<1>2. neighbors = {} /\ Cardinality(neighbors) # MinPoints
  BY <1>1, FS_EmptySet DEF DBInv, LoopInv
<1>3. \A p \in is_in_core : p < at /\ p \in Geoms
  BY <1>2 DEF DBInv, VisitInv, LoopInv
<1>4. QED  BY <1>1, <1>3

LEMMA SkipInv ==
  ASSUME DBInv, Skip
  PROVE  DBInv'
<1>1. dbPhase = "next" /\ at \in problem.empty /\ Advance  BY DEF Skip
<1>2. at \in Geoms /\ at \notin Core
  BY <1>1, ProblemFacts DEF DBInv, LoopInv, Core
<1>3. QED  BY <1>1, <1>2, NextFacts, AdvanceInv

LEMMA UpdateContextInv ==
  ASSUME DBInv, NEW candidates \in SUBSET (Geoms \ problem.empty),
         UpdateContext(candidates)
  PROVE  DBInv'
<1>1. /\ dbPhase = "next" /\ at \in Geoms \ problem.empty
      /\ Neighborhood(at) \subseteq candidates
  BY DEF UpdateContext
<1>2. /\ problem \in Problems /\ MinPoints \in Nat
      /\ found = {} /\ neighbors = {}
  BY <1>1, ProblemFacts DEF DBInv, LoopInv
<1>3. CASE General /\ Cardinality(candidates) < MinPoints
  <2>1. IsFiniteSet(candidates)  BY GeomsFinite, FS_Subset
  <2>2. Cardinality(Neighborhood(at)) <= Cardinality(candidates)
    BY <1>1, <2>1, FS_Subset
  <2>3. Cardinality(candidates) \in Nat /\ Cardinality(Neighborhood(at)) \in Nat
    BY <2>1, NeighborhoodFinite, FS_CardinalityType
  <2>4. ~(Cardinality(Neighborhood(at)) >= MinPoints)
    BY <1>2, <1>3, <2>2, <2>3
  <2>5. at \notin Core  BY <2>4 DEF Core
  <2>6. Advance  BY <1>3 DEF UpdateContext
  <2>7. QED  BY <1>1, <2>5, <2>6, NextFacts, AdvanceInv
<1>4. CASE ~(General /\ Cardinality(candidates) < MinPoints)
  <2>1. /\ found' = candidates /\ dbPhase' = "visit"
        /\ UNCHANGED <<problem, uf, in_a_cluster, is_in_core, at, neighbors>>
    BY <1>4 DEF UpdateContext
  <2>2. /\ MinPoints' = MinPoints /\ (General' <=> General) /\ Core' = Core
        /\ \A p : Neighborhood(p)' = Neighborhood(p)
        /\ \A p, q : Near(p, q)' <=> Near(p, q)
        /\ \A p, q : Linked(p, q)' <=> Linked(p, q)
    BY <2>1, ProblemKept
  <2>3. LoopInv'  BY <1>1, <2>1, <2>2 DEF DBInv, LoopInv
  <2>4. PlacedInv'  BY <2>1, <2>2 DEF DBInv, PlacedInv, Grouped
  <2>5. TurnsInv'  BY <2>1, <2>2 DEF DBInv, TurnsInv, Grouped
  <2>6. VisitInv'
    <3>1. General => Cardinality(neighbors) < MinPoints
      BY <1>2, FS_EmptySet DEF General
    <3>2. Neighborhood(at) \ candidates = {}  BY <1>1
    <3>3. QED  BY <2>1, <2>2, <3>1, <3>2 DEF DBInv, VisitInv
  <2>7. CoresStayApart'  BY <2>1, <2>2 DEF DBInv, CoresStayApart, Grouped
  <2>8. QED  BY <2>3, <2>4, <2>5, <2>6, <2>7 DEF DBInv
<1>5. QED  BY <1>3, <1>4

LEMMA CandidatesDoneInv ==
  ASSUME DBInv, CandidatesDone
  PROVE  DBInv'
<1>1. dbPhase = "visit" /\ found = {} /\ Advance  BY DEF CandidatesDone
<1>2. /\ at \in Geoms \ problem.empty /\ problem \in Problems /\ MinPoints \in Nat
      /\ \A i \in Geoms : i \in Nat
  BY <1>1, ProblemFacts DEF DBInv, LoopInv
<1>3. Neighborhood(at) \ found = Neighborhood(at)  BY <1>1
<1>4. CASE ~General
  <2>1. \A q \in Neighborhood(at) : Grouped(at, q)
    BY <1>1, <1>3, <1>4 DEF DBInv, VisitInv
  <2>2. QED  BY <1>1, <1>2, <1>4, <2>1, AdvanceInv
<1>5. CASE General
  <2>1. \A p \in is_in_core : p <= at
    <3>1. \A p \in is_in_core : (p < at \/ p = at) /\ p \in Geoms
      BY <1>5 DEF DBInv, VisitInv, LoopInv
    <3>2. QED  BY <1>2, <3>1
  <2>2. CASE Cardinality(neighbors) < MinPoints
    <3>1. Neighborhood(at) \subseteq neighbors
      BY <1>1, <1>3, <1>5, <2>2 DEF DBInv, VisitInv
    <3>2. neighbors = Neighborhood(at)  BY <1>5, <3>1 DEF DBInv, VisitInv
    <3>3. ~(Cardinality(Neighborhood(at)) >= MinPoints)
      BY <1>2, <2>2, <3>2, NeighborhoodFinite
    <3>4. at \notin Core  BY <3>3 DEF Core
    <3>5. QED  BY <1>1, <1>2, <2>1, <3>4, AdvanceInv
  <2>3. CASE ~(Cardinality(neighbors) < MinPoints)
    <3>1. /\ at \in is_in_core
          /\ \A q \in Neighborhood(at) :
               q \in in_a_cluster /\ (q \in is_in_core => Grouped(at, q))
      BY <1>1, <1>3, <1>5, <2>3 DEF DBInv, VisitInv
    <3>2. \A q \in is_in_core : Near(at, q) => q \in Neighborhood(at)
      BY DEF DBInv, LoopInv, Core, Neighborhood
    <3>3. QED  BY <1>1, <1>2, <1>5, <2>1, <3>1, <3>2, AdvanceInv
  <2>4. QED  BY <2>2, <2>3
<1>6. QED  BY <1>4, <1>5

LEMMA EndInv ==
  ASSUME DBInv, DistanceFails \/ DBEnds
  PROVE  DBInv'
<1>1. /\ dbPhase' = "failure" \/ (dbPhase' = "success" /\ at = NumGeoms)
      /\ UNCHANGED <<problem, uf, in_a_cluster, is_in_core, at, found, neighbors>>
  BY DEF DistanceFails, DBEnds
<1>2. /\ MinPoints' = MinPoints /\ (General' <=> General) /\ Core' = Core
      /\ \A p : Neighborhood(p)' = Neighborhood(p)
      /\ \A p, q : Near(p, q)' <=> Near(p, q)
      /\ \A p, q : Linked(p, q)' <=> Linked(p, q)
  BY <1>1, ProblemKept
<1>3. LoopInv'  BY <1>1, <1>2 DEF DBInv, LoopInv
<1>4. PlacedInv'  BY <1>1, <1>2 DEF DBInv, PlacedInv, Grouped
<1>5. TurnsInv'  BY <1>1, <1>2 DEF DBInv, TurnsInv, Grouped
<1>6. VisitInv'  BY <1>1, <1>2 DEF DBInv, VisitInv
<1>7. CoresStayApart'  BY <1>1, <1>2 DEF DBInv, CoresStayApart, Grouped
<1>8. QED  BY <1>3, <1>4, <1>5, <1>6, <1>7 DEF DBInv

\* A merge of classes around the core point at links no others.
LEMMA MergeApart ==
  ASSUME DBInv, problem' = problem, at \in Core,
         NEW T \in SUBSET Geoms, at \in T, uf' = Q!Merge(uf, T),
         \A x \in T, p \in Core : Grouped(p, x) => Linked(at, p)
  PROVE  CoresStayApart'
<1>1. \A p, q : Linked(p, q)' <=> Linked(p, q)  BY ProblemKept
<1>2. Core' = Core  BY ProblemKept
<1>3. IsGrouping(uf) /\ problem \in Problems  BY DEF DBInv, LoopInv
<1>4. ASSUME NEW p \in Core, NEW q \in Core, Q!Together(uf', p, q)
      PROVE  Linked(p, q)
  <2>1. \/ Q!Together(uf, p, q)
        \/ \E s, t \in T : Q!Together(uf, p, s) /\ Q!Together(uf, q, t)
    BY <1>3, <1>4, MergeFacts
  <2>2. CASE Q!Together(uf, p, q)  BY <2>2 DEF DBInv, CoresStayApart, Grouped
  <2>3. CASE \E s, t \in T : Q!Together(uf, p, s) /\ Q!Together(uf, q, t)
    <3>1. Linked(at, p) /\ Linked(at, q)  BY <2>3 DEF Grouped
    <3>2. Linked(p, at)  BY <1>3, <3>1, LinkedSymmetric
    <3>3. QED  BY <3>1, <3>2, LinkedTransitive
  <2>4. QED  BY <2>1, <2>2, <2>3
<1>5. QED  BY <1>1, <1>2, <1>4 DEF CoresStayApart, Grouped

\* min_points 1: at and a geometry near it become one.
LEMMA UniteNowInv ==
  ASSUME DBInv, dbPhase = "visit", ~General, NEW q \in found, Near(at, q),
         found' = found \ {q}, UniteNow(q), UNCHANGED <<problem, at, dbPhase>>
  PROVE  DBInv'
<1> DEFINE T == {at, q}
<1>1. /\ problem \in Problems /\ IsGrouping(uf) /\ MinPoints \in Nat
      /\ at \in Geoms \ problem.empty /\ q \in Geoms \ problem.empty
      /\ problem.empty \subseteq Geoms
  BY ProblemFacts DEF DBInv, LoopInv
<1>2. /\ uf' = Q!Merge(uf, T)
      /\ UNCHANGED <<in_a_cluster, is_in_core, neighbors, problem, at, dbPhase>>
  BY DEF UniteNow
<1>3. /\ MinPoints' = MinPoints /\ (General' <=> General) /\ Core' = Core
      /\ \A p : Neighborhood(p)' = Neighborhood(p)
      /\ \A p, r : Near(p, r)' <=> Near(p, r)
  BY <1>2, ProblemKept
<1>4. \A p \in Geoms \ problem.empty : p \in Core  BY <1>1, LoneCores
<1>5. T \in SUBSET Geoms /\ T # {} /\ at \in T  BY <1>1
<1>6. /\ IsGrouping(uf')
      /\ \A x, y : Q!Together(uf, x, y) => Q!Together(uf', x, y)
      /\ Q!Together(uf', at, q)
      /\ \A x \in Geoms \ T : {x} \in uf => {x} \in uf'
  <2>1. at \in T /\ q \in T  OBVIOUS
  <2> HIDE DEF T
  <2>2. QED  BY <1>1, <1>2, <1>5, <2>1, MergeFacts
<1>7. LoopInv'  BY <1>1, <1>2, <1>3, <1>6 DEF DBInv, LoopInv
<1>8. PlacedInv'
  <2>1. \A b \in problem.empty : b \in Geoms \ T  BY <1>1
  <2>2. Geoms \ in_a_cluster = {}  BY DEF DBInv, LoopInv
  <2> HIDE DEF T
  <2>3. \A b \in problem.empty : {b} \in uf'  BY <1>6, <2>1 DEF DBInv, PlacedInv
  <2>4. QED  BY <1>2, <1>3, <2>2, <2>3 DEF PlacedInv
<1>9. TurnsInv'
  <2>1. \A p \in Core : p < at => \A r \in Neighborhood(p) : Q!Together(uf', p, r)
    BY <1>6 DEF DBInv, TurnsInv, Grouped
  <2>2. QED  BY <1>2, <1>3, <2>1 DEF TurnsInv, Grouped
<1>10. VisitInv'
  <2>1. \A r \in Neighborhood(at) \ found : Q!Together(uf', at, r)
    BY <1>6 DEF DBInv, VisitInv, Grouped
  <2>2. \A r \in Neighborhood(at) \ found' : Q!Together(uf', at, r)
    BY <1>6, <2>1
  <2>3. QED  BY <1>2, <1>3, <2>2 DEF VisitInv, Grouped
<1>11. CoresStayApart'
  <2>1. at \in Core /\ q \in Core  BY <1>1, <1>4
  <2>2. Linked(at, q) /\ Linked(at, at)  BY <1>1, <2>1, NearLinked, NearSymmetric
  <2>3. ASSUME NEW x \in T, NEW p \in Core, Grouped(p, x)  PROVE Linked(at, p)
    <3>1. x \in Core /\ Linked(at, x)  BY <2>1, <2>2
    <3>2. Linked(p, x)  BY <2>3, <3>1 DEF DBInv, CoresStayApart, Grouped
    <3>3. QED  BY <1>1, <3>1, <3>2, LinkedSymmetric, LinkedTransitive
  <2> HIDE DEF T
  <2>4. QED  BY <1>2, <1>5, <2>1, <2>3, MergeApart
<1>12. QED  BY <1>7, <1>8, <1>9, <1>10, <1>11 DEF DBInv

\* min_points more than 1: the core point at takes those of S that are free.
LEMMA TakeFacts ==
  ASSUME DBInv, General, at \in Core, problem' = problem, at' = at,
         NEW S \in SUBSET Neighborhood(at), NEW core, NEW placed,
         core = is_in_core \cup {at}, placed = in_a_cluster \cup {at},
         UnionIfAvailable(S, core, placed)
  PROVE  /\ IsGrouping(uf')
         /\ is_in_core' = is_in_core \cup {at}
         /\ in_a_cluster' = in_a_cluster \cup {at} \cup S
         /\ \A x, y : Grouped(x, y) => Q!Together(uf', x, y)
         /\ \A q \in S : q \in is_in_core' => Q!Together(uf', at, q)
         /\ PlacedInv' /\ TurnsInv' /\ CoresStayApart'
<1> DEFINE T == {at} \cup {q \in S : Joins(q, core, placed)}
<1>1. /\ problem \in Problems /\ IsGrouping(uf) /\ MinPoints \in Nat
      /\ problem.empty \subseteq Geoms
      /\ in_a_cluster \subseteq Geoms /\ is_in_core \subseteq Core
  BY ProblemFacts DEF DBInv, LoopInv
<1>2. /\ uf' = Q!Merge(uf, T)
      /\ in_a_cluster' = in_a_cluster \cup {at} \cup S
      /\ is_in_core' = is_in_core \cup {at}
  BY DEF UnionIfAvailable
<1>3. /\ MinPoints' = MinPoints /\ (General' <=> General) /\ Core' = Core
      /\ \A p : Neighborhood(p)' = Neighborhood(p)
      /\ \A p, r : Near(p, r)' <=> Near(p, r)
  BY ProblemKept
<1>4. /\ at \in Geoms \ problem.empty
      /\ \A q \in S : /\ q \in Geoms \ problem.empty /\ Near(at, q)
                      /\ at \in Neighborhood(q)
  <2>1. at \in Geoms \ problem.empty  BY DEF Core
  <2>2. QED  BY <1>1, <2>1, NearSymmetric
<1>5. T \in SUBSET Geoms /\ T # {} /\ at \in T /\ T \subseteq Geoms \ problem.empty
      /\ T \subseteq S \cup {at}
  BY <1>4
<1>6. /\ IsGrouping(uf')
      /\ \A x, y : Q!Together(uf, x, y) => Q!Together(uf', x, y)
      /\ \A x, y \in T : Q!Together(uf', x, y)
      /\ \A x \in Geoms \ T : {x} \in uf => {x} \in uf'
  <2> HIDE DEF T
  <2>1. QED  BY <1>1, <1>2, <1>5, MergeFacts
<1>7. \A x, y : Grouped(x, y) => Q!Together(uf', x, y)  BY <1>6 DEF Grouped
<1>8. \A q \in S : q \in is_in_core' => Q!Together(uf', at, q)
  <2>1. \A q \in S : q \in is_in_core' => q \in T  BY <1>2 DEF Joins
  <2>2. QED  BY <1>5, <1>6, <2>1
<1>9. PlacedInv'
  <2>1. ASSUME NEW b \in Geoms \ in_a_cluster'  PROVE {b} \in uf'
    <3>1. b \in Geoms \ in_a_cluster /\ b \in Geoms \ T  BY <1>2, <1>5, <2>1
    <3>2. {b} \in uf  BY <3>1 DEF DBInv, PlacedInv
    <3>3. QED  BY <1>6, <3>1, <3>2
  <2>2. ASSUME NEW b \in problem.empty  PROVE {b} \in uf'
    <3>1. b \in Geoms \ T  BY <1>1, <1>5
    <3>2. {b} \in uf  BY DEF DBInv, PlacedInv
    <3>3. QED  BY <1>6, <3>1, <3>2
  <2>3. ASSUME NEW b \in in_a_cluster'
        PROVE  \E c \in Neighborhood(b) \cap is_in_core' : Q!Together(uf', b, c)
    <3>1. CASE b \in in_a_cluster
      <4>1. PICK c \in Neighborhood(b) \cap is_in_core : Grouped(b, c)
        BY <3>1 DEF DBInv, PlacedInv
      <4>2. QED  BY <1>2, <1>7, <4>1
    <3>2. CASE b = at
      <4>1. at \in Neighborhood(at) /\ at \in is_in_core'
        BY <1>1, <1>2, <1>4, NearSymmetric
      <4>2. QED  BY <1>5, <1>6, <3>2, <4>1
    <3>3. CASE b \notin in_a_cluster /\ b # at
      <4>1. b \in S /\ b \in T  BY <1>2, <3>3 DEF Joins
      <4>2. at \in Neighborhood(b) /\ at \in is_in_core'  BY <1>2, <1>4, <4>1
      <4>3. QED  BY <1>5, <1>6, <4>1, <4>2
    <3>4. QED  BY <3>1, <3>2, <3>3
  <2>4. QED  BY <1>3, <2>1, <2>2, <2>3 DEF PlacedInv, Grouped
<1>10. TurnsInv'
  <2>1. ASSUME NEW p \in Core, p < at
        PROVE  /\ p \in is_in_core'
               /\ Neighborhood(p) \subseteq in_a_cluster'
               /\ \A q \in Core : q < at /\ Near(p, q) => Q!Together(uf', p, q)
    BY <1>2, <1>7, <2>1 DEF DBInv, TurnsInv
  <2>2. QED  BY <1>3, <2>1 DEF TurnsInv, Grouped
<1>11. CoresStayApart'
  <2>1. ASSUME NEW x \in T, NEW p \in Core, Grouped(p, x)  PROVE Linked(at, p)
    <3>1. CASE x \in Core
      <4>1. Near(at, x)  BY <1>1, <1>4, NearSymmetric
      <4>2. Linked(at, x)  BY <1>1, <3>1, <4>1, NearLinked
      <4>3. Linked(p, x)  BY <2>1, <3>1 DEF DBInv, CoresStayApart, Grouped
      <4>4. QED  BY <1>1, <4>2, <4>3, LinkedSymmetric, LinkedTransitive
    <3>2. CASE x \notin Core
      <4>1. x \in S /\ x \notin core /\ Joins(x, core, placed)
        BY <1>1, <3>2
      <4>2. x \in Geoms \ in_a_cluster  BY <1>4, <4>1 DEF Joins
      <4>3. {x} \in uf  BY <4>2 DEF DBInv, PlacedInv
      <4>4. Q!Together(uf, x, p)  BY <1>1, <2>1, TogetherFacts DEF Grouped
      <4>5. p \in {x}  BY <1>1, <4>3, <4>4, GroupedClass
      <4>6. QED  BY <3>2, <4>5
    <3>3. QED  BY <3>1, <3>2
  <2> HIDE DEF T
  <2>2. QED  BY <1>2, <1>5, <2>1, MergeApart
<1>12. QED  BY <1>2, <1>6, <1>7, <1>8, <1>9, <1>10, <1>11

\* A candidate that is far, or known already.
LEMMA PassOverInv ==
  ASSUME DBInv, dbPhase = "visit", NEW q \in found, KnownAlready(q) \/ ~Near(at, q),
         found' = found \ {q},
         UNCHANGED <<problem, uf, in_a_cluster, is_in_core, at, neighbors, dbPhase>>
  PROVE  DBInv'
<1>1. /\ problem \in Problems /\ IsGrouping(uf)
      /\ at \in Geoms \ problem.empty /\ q \in Geoms \ problem.empty
  BY DEF DBInv, LoopInv
<1>2. /\ MinPoints' = MinPoints /\ (General' <=> General) /\ Core' = Core
      /\ \A p : Neighborhood(p)' = Neighborhood(p)
      /\ \A p, r : Near(p, r)' <=> Near(p, r)
      /\ \A p, r : Linked(p, r)' <=> Linked(p, r)
  BY ProblemKept
<1>3. LoopInv'  BY <1>2 DEF DBInv, LoopInv
<1>4. PlacedInv'  BY <1>2 DEF DBInv, PlacedInv, Grouped
<1>5. TurnsInv'  BY <1>2 DEF DBInv, TurnsInv, Grouped
<1>6. q \in Neighborhood(at) => KnownAlready(q)  BY DEF Neighborhood
<1>7. \A r \in Neighborhood(at) \ found' : r \in Neighborhood(at) \ found \/ r = q
  OBVIOUS
<1>8. CASE ~General
  <2>1. q \in Neighborhood(at) => Grouped(at, q)
    BY <1>6, <1>8 DEF KnownAlready, Grouped
  <2>2. \A r \in Neighborhood(at) \ found' : Grouped(at, r)
    BY <1>7, <1>8, <2>1 DEF DBInv, VisitInv
  <2>3. VisitInv'  BY <1>2, <1>8, <2>2 DEF VisitInv, Grouped
  <2>4. QED  BY <1>2, <1>3, <1>4, <1>5, <2>3 DEF DBInv, CoresStayApart
<1>9. CASE General /\ Cardinality(neighbors) < MinPoints
  <2>1. MinPoints \in Nat  BY <1>1, ProblemFacts
  <2>2. neighbors \subseteq Neighborhood(at)  BY <1>9 DEF DBInv, VisitInv
  <2>3. IsFiniteSet(neighbors) /\ Cardinality(neighbors) \in Nat
    BY <2>2, NeighborhoodFinite, FS_Subset, FS_CardinalityType
  <2>4. Cardinality(neighbors) # MinPoints  BY <1>9, <2>1, <2>3
  <2>5. q \notin Neighborhood(at)  BY <1>6, <1>9, <2>4 DEF KnownAlready
  <2>6. Neighborhood(at) \ found' \subseteq neighbors
    BY <1>7, <1>9, <2>5 DEF DBInv, VisitInv
  <2>7. VisitInv'  BY <1>2, <1>9, <2>6 DEF DBInv, VisitInv
  <2>8. QED  BY <1>2, <1>3, <1>4, <1>5, <2>7 DEF DBInv, CoresStayApart
<1>10. CASE General /\ ~(Cardinality(neighbors) < MinPoints)
  <2>1. /\ at \in is_in_core /\ is_in_core \subseteq in_a_cluster
        /\ \A r \in Neighborhood(at) \ found :
             r \in in_a_cluster /\ (r \in is_in_core => Grouped(at, r))
    BY <1>10 DEF DBInv, VisitInv, LoopInv
  <2>2. ASSUME q \in Neighborhood(at)
        PROVE  q \in in_a_cluster /\ (q \in is_in_core => Grouped(at, q))
    <3>1. Grouped(at, q) \/ q \in in_a_cluster \ is_in_core
      BY <1>6, <2>2 DEF KnownAlready, Grouped
    <3>2. ASSUME q \notin in_a_cluster  PROVE FALSE
      <4>1. {q} \in uf  BY <1>1, <3>2 DEF DBInv, PlacedInv
      <4>2. Q!Together(uf, q, at)  BY <1>1, <3>1, <3>2, TogetherFacts DEF Grouped
      <4>3. at \in {q}  BY <1>1, <4>1, <4>2, GroupedClass
      <4>4. QED  BY <2>1, <3>2, <4>3
    <3>3. QED  BY <3>1, <3>2
  <2>3. \A r \in Neighborhood(at) \ found' :
          r \in in_a_cluster /\ (r \in is_in_core => Grouped(at, r))
    BY <1>7, <2>1, <2>2
  <2>4. VisitInv'  BY <1>2, <1>10, <2>1, <2>3 DEF DBInv, VisitInv, Grouped
  <2>5. QED  BY <1>2, <1>3, <1>4, <1>5, <2>4 DEF DBInv, CoresStayApart
<1>11. QED  BY <1>8, <1>9, <1>10

\* A neighbor past the first min_points.
LEMMA UniteNextInv ==
  ASSUME DBInv, dbPhase = "visit", General, Cardinality(neighbors) = MinPoints,
         NEW q \in found, Near(at, q), found' = found \ {q},
         UniteNext(q), UNCHANGED <<problem, at, dbPhase>>
  PROVE  DBInv'
<1>1. /\ problem \in Problems /\ MinPoints \in Nat
      /\ at \in Geoms \ problem.empty /\ q \in Neighborhood(at)
  BY ProblemFacts DEF DBInv, LoopInv, Neighborhood
<1>2. ~(Cardinality(neighbors) < MinPoints)  BY <1>1
<1>3. /\ at \in is_in_core /\ at \in Core /\ at \in in_a_cluster
      /\ \A r \in Neighborhood(at) \ found :
           r \in in_a_cluster /\ (r \in is_in_core => Grouped(at, r))
  BY <1>2 DEF DBInv, VisitInv, LoopInv
<1>4. /\ MinPoints' = MinPoints /\ (General' <=> General) /\ Core' = Core
      /\ \A p : Neighborhood(p)' = Neighborhood(p)
  BY ProblemKept
<1>5. /\ IsGrouping(uf')
      /\ is_in_core' = is_in_core
      /\ in_a_cluster' = in_a_cluster \cup {q}
      /\ \A x, y : Grouped(x, y) => Q!Together(uf', x, y)
      /\ q \in is_in_core' => Q!Together(uf', at, q)
      /\ PlacedInv' /\ TurnsInv' /\ CoresStayApart'
  <2> DEFINE S == {q}
  <2>1. S \in SUBSET Neighborhood(at) /\ q \in S  BY <1>1
  <2>2. UnionIfAvailable(S, is_in_core, in_a_cluster)  BY DEF UniteNext
  <2>3. is_in_core = is_in_core \cup {at} /\ in_a_cluster = in_a_cluster \cup {at}
    BY <1>3
  <2>4. in_a_cluster' = in_a_cluster \cup {q} /\ is_in_core' = is_in_core
    BY <2>2 DEF UnionIfAvailable
  <2> HIDE DEF S
  <2>5. QED  BY <1>3, <2>1, <2>2, <2>3, <2>4, TakeFacts
<1>6. neighbors' = neighbors  BY DEF UniteNext
<1>7. LoopInv'
  <2>1. in_a_cluster' \subseteq Geoms  BY <1>5 DEF DBInv, LoopInv
  <2>2. QED  BY <1>4, <1>5, <1>6, <2>1 DEF DBInv, LoopInv
<1>8. VisitInv'
  <2>1. ASSUME NEW r \in Neighborhood(at) \ found'
        PROVE  r \in in_a_cluster' /\ (r \in is_in_core' => Q!Together(uf', at, r))
    <3>1. CASE r = q  BY <1>5, <3>1
    <3>2. CASE r # q
      <4>1. r \in Neighborhood(at) \ found  BY <2>1, <3>2
      <4>2. QED  BY <1>3, <1>5, <4>1
    <3>3. QED  BY <3>1, <3>2
  <2>2. QED  BY <1>2, <1>3, <1>4, <1>5, <1>6, <2>1 DEF DBInv, VisitInv, Grouped
<1>9. QED  BY <1>5, <1>7, <1>8 DEF DBInv

\* A neighbor among the first min_points.
LEMMA SetAsideInv ==
  ASSUME DBInv, dbPhase = "visit", General, Cardinality(neighbors) < MinPoints,
         NEW q \in found, Near(at, q), found' = found \ {q},
         SetAside(q), UNCHANGED <<problem, at, dbPhase>>
  PROVE  DBInv'
<1> DEFINE near == neighbors \cup {q}
<1>1. /\ problem \in Problems /\ MinPoints \in Nat
      /\ at \in Geoms \ problem.empty /\ q \in Neighborhood(at)
      /\ \A i \in Geoms : i \in Nat
  BY ProblemFacts DEF DBInv, LoopInv, Neighborhood
<1>2. neighbors' = near /\ near \in SUBSET Neighborhood(at)
  BY <1>1 DEF SetAside, DBInv, VisitInv
<1>3. IsFiniteSet(near) /\ Cardinality(near) \in Nat /\ Cardinality(near) <= MinPoints
  <2>1. neighbors \subseteq Neighborhood(at)  BY DEF DBInv, VisitInv
  <2>2. IsFiniteSet(neighbors) /\ Cardinality(neighbors) \in Nat
    BY <2>1, NeighborhoodFinite, FS_Subset, FS_CardinalityType
  <2>3. /\ IsFiniteSet(near)
        /\ \/ Cardinality(near) = Cardinality(neighbors)
           \/ Cardinality(near) = Cardinality(neighbors) + 1
    BY <2>2, FS_AddElement
  <2> HIDE DEF near
  <2>4. QED  BY <1>1, <2>2, <2>3
<1>4. /\ MinPoints' = MinPoints /\ (General' <=> General) /\ Core' = Core
      /\ \A p : Neighborhood(p)' = Neighborhood(p)
      /\ \A p, r : Near(p, r)' <=> Near(p, r)
      /\ \A p, r : Linked(p, r)' <=> Linked(p, r)
  BY ProblemKept
<1>5. Neighborhood(at) \ found' \subseteq near
  BY DEF DBInv, VisitInv
<1>6. \A p \in is_in_core : p < at
  <2>1. Cardinality(neighbors) # MinPoints
    <3>1. Cardinality(neighbors) \in Nat
      BY NeighborhoodFinite, FS_Subset, FS_CardinalityType DEF DBInv, VisitInv
    <3>2. QED  BY <1>1, <3>1
  <2>2. QED  BY <2>1 DEF DBInv, VisitInv
<1>7. CASE Cardinality(near) # MinPoints
  <2>1. UNCHANGED <<uf, in_a_cluster, is_in_core>>  BY <1>2, <1>7 DEF SetAside
  <2>2. LoopInv'  BY <1>1, <1>2, <1>4, <2>1 DEF DBInv, LoopInv, Neighborhood
  <2>3. PlacedInv'  BY <1>4, <2>1 DEF DBInv, PlacedInv, Grouped
  <2>4. TurnsInv'  BY <1>4, <2>1 DEF DBInv, TurnsInv, Grouped
  <2>5. VisitInv'
    <3>1. Cardinality(near) < MinPoints  BY <1>1, <1>3, <1>7
    <3> HIDE DEF near
    <3>2. QED  BY <1>2, <1>3, <1>4, <1>5, <1>6, <2>1, <3>1 DEF VisitInv
  <2>6. CoresStayApart'  BY <1>4, <2>1 DEF DBInv, CoresStayApart
  <2>7. QED  BY <2>2, <2>3, <2>4, <2>5, <2>6 DEF DBInv
<1>8. CASE Cardinality(near) = MinPoints
  <2>1. UnionIfAvailable(near, is_in_core \cup {at}, in_a_cluster \cup {at})
    BY <1>2, <1>8 DEF SetAside
  <2>2. at \in Core
    <3>1. Cardinality(near) <= Cardinality(Neighborhood(at))
          /\ Cardinality(Neighborhood(at)) \in Nat
      BY <1>2, NeighborhoodFinite, FS_Subset
    <3>2. Cardinality(Neighborhood(at)) >= MinPoints  BY <1>1, <1>8, <3>1
    <3>3. QED  BY <1>1, <3>2 DEF Core
  <2> HIDE DEF near
  <2>3. /\ IsGrouping(uf')
        /\ is_in_core' = is_in_core \cup {at}
        /\ in_a_cluster' = in_a_cluster \cup {at} \cup near
        /\ \A r \in near : r \in is_in_core' => Q!Together(uf', at, r)
        /\ PlacedInv' /\ TurnsInv' /\ CoresStayApart'
    BY <1>2, <2>1, <2>2, TakeFacts
  <2>4. LoopInv'
    <3>1. near \subseteq Geoms  BY <1>2 DEF Neighborhood
    <3>2. in_a_cluster' \subseteq Geoms  BY <1>1, <2>3, <3>1 DEF DBInv, LoopInv
    <3>3. is_in_core' \subseteq in_a_cluster' \cap Core
      BY <2>2, <2>3 DEF DBInv, LoopInv
    <3>4. QED  BY <1>2, <1>4, <2>3, <3>1, <3>2, <3>3 DEF DBInv, LoopInv
  <2>5. VisitInv'
    <3>1. ~(MinPoints < MinPoints) /\ MinPoints <= MinPoints  BY <1>1
    <3>2. \A p \in is_in_core' : p < at \/ p = at  BY <1>6, <2>3
    <3>3. \A r \in Neighborhood(at) \ found' :
            r \in in_a_cluster' /\ (r \in is_in_core' => Q!Together(uf', at, r))
      BY <1>5, <2>3
    <3>4. at \in is_in_core'  BY <2>3
    <3>5. QED  BY <1>2, <1>4, <1>8, <3>1, <3>2, <3>3, <3>4 DEF VisitInv, Grouped
  <2>6. QED  BY <2>3, <2>4, <2>5 DEF DBInv
<1>9. QED  BY <1>7, <1>8

LEMMA VisitStepInv ==
  ASSUME DBInv, NEW q \in Geoms, Visit(q)
  PROVE  DBInv'
<1>1. /\ dbPhase = "visit" /\ q \in found /\ found' = found \ {q}
      /\ UNCHANGED <<problem, at, dbPhase>>
  BY DEF Visit
<1>2. CASE KnownAlready(q) \/ ~Near(at, q)
  BY <1>1, <1>2, PassOverInv DEF Visit
<1>3. CASE ~(KnownAlready(q) \/ ~Near(at, q))
  <2>1. \/ ~General /\ UniteNow(q)
        \/ General /\ Cardinality(neighbors) < MinPoints /\ SetAside(q)
        \/ General /\ Cardinality(neighbors) = MinPoints /\ UniteNext(q)
    BY <1>3 DEF Visit
  <2>2. CASE ~General /\ UniteNow(q)  BY <1>1, <1>3, <2>2, UniteNowInv
  <2>3. CASE General /\ Cardinality(neighbors) < MinPoints /\ SetAside(q)
    BY <1>1, <1>3, <2>3, SetAsideInv
  <2>4. CASE General /\ Cardinality(neighbors) = MinPoints /\ UniteNext(q)
    BY <1>1, <1>3, <2>4, UniteNextInv
  <2>5. QED  BY <2>1, <2>2, <2>3, <2>4
<1>4. QED  BY <1>2, <1>3

LEMMA DBStepInv == DBInv /\ [DBNext]_dbVars => DBInv'
<1> SUFFICES ASSUME DBInv, [DBNext]_dbVars  PROVE DBInv'
  OBVIOUS
<1>1. CASE Skip  BY <1>1, SkipInv
<1>2. CASE CandidatesDone  BY <1>2, CandidatesDoneInv
<1>3. CASE DistanceFails \/ DBEnds  BY <1>3, EndInv
<1>4. ASSUME NEW candidates \in SUBSET (Geoms \ problem.empty), UpdateContext(candidates)
      PROVE  DBInv'
  BY <1>4, UpdateContextInv
<1>5. ASSUME NEW q \in Geoms, Visit(q)  PROVE DBInv'
  BY <1>5, VisitStepInv
<1>6. CASE UNCHANGED dbVars
  <2>1. UNCHANGED <<problem, uf, in_a_cluster, is_in_core, at, found, neighbors, dbPhase>>
    BY <1>6 DEF dbVars
  <2>2. /\ MinPoints' = MinPoints /\ (General' <=> General) /\ Core' = Core
        /\ \A p : Neighborhood(p)' = Neighborhood(p)
        /\ \A p, q : Near(p, q)' <=> Near(p, q)
        /\ \A p, q : Linked(p, q)' <=> Linked(p, q)
    BY <2>1, ProblemKept
  <2>3. LoopInv'  BY <2>1, <2>2 DEF DBInv, LoopInv
  <2>4. PlacedInv'  BY <2>1, <2>2 DEF DBInv, PlacedInv, Grouped
  <2>5. TurnsInv'  BY <2>1, <2>2 DEF DBInv, TurnsInv, Grouped
  <2>6. VisitInv'  BY <2>1, <2>2 DEF DBInv, VisitInv, Grouped
  <2>7. CoresStayApart'  BY <2>1, <2>2 DEF DBInv, CoresStayApart
  <2>8. QED  BY <2>3, <2>4, <2>5, <2>6, <2>7 DEF DBInv
<1>7. QED  BY <1>1, <1>2, <1>3, <1>4, <1>5, <1>6 DEF DBNext

-----------------------------------------------------------------------------
(* What the invariant shows. *)

LEMMA InvariantType == DBInv => DBTypeOK
<1> SUFFICES ASSUME DBInv  PROVE DBTypeOK
  OBVIOUS
<1>1. IsGrouping(uf)  BY DEF DBInv, LoopInv
<1>2. UNION uf = Geoms
  <2>1. \A c \in uf : c \subseteq Geoms  BY <1>1 DEF IsGrouping
  <2>2. \A i \in Geoms : \E c \in uf : i \in c  BY <1>1 DEF IsGrouping
  <2>3. QED  BY <2>1, <2>2
<1>3. QED  BY <1>1, <1>2 DEF DBTypeOK, DBInv, LoopInv, IsGrouping

\* At the end nothing is left open.
LEMMA EndExact ==
  ASSUME DBInv, dbPhase = "success"
  PROVE  IsClustering
<1>1. /\ problem \in Problems /\ IsGrouping(uf) /\ is_in_core \subseteq Core
      /\ NumGeoms \in Nat /\ MinPoints \in Nat
      /\ \A i \in Geoms : i \in Nat /\ i < NumGeoms
  BY ProblemFacts DEF DBInv, LoopInv
<1>2. ASSUME NEW p \in Core  PROVE p < at
  <2>1. CASE at = NumGeoms  BY <1>1, <2>1 DEF Core
  <2>2. CASE General /\ NumGeoms < MinPoints
    <3>1. Cardinality(Neighborhood(p)) <= NumGeoms /\ Cardinality(Neighborhood(p)) \in Nat
      BY NeighborhoodFinite
    <3>2. Cardinality(Neighborhood(p)) >= MinPoints  BY DEF Core
    <3>3. QED  BY <1>1, <2>2, <3>1, <3>2
  <2>3. QED  BY <2>1, <2>2 DEF DBInv, LoopInv
<1>3. ASSUME NEW p \in Core, NEW q \in Core, Near(p, q)  PROVE Grouped(p, q)
  <2>1. p < at /\ q < at /\ q \in Neighborhood(p)
    BY <1>2, <1>3 DEF Core, Neighborhood
  <2>2. QED  BY <1>3, <2>1 DEF DBInv, TurnsInv
<1>4. ASSUME NEW p \in Core, NEW q \in Core, Linked(p, q)  PROVE Grouped(p, q)
  <2> DEFINE S == {x \in Core : Grouped(p, x)}
  <2>1. Spread(S)
    <3>1. ASSUME NEW x \in S, NEW y \in Core, Near(x, y)  PROVE Grouped(p, y)
      <4>1. Grouped(p, x) /\ Grouped(x, y)  BY <1>3, <3>1
      <4>2. QED  BY <1>1, <4>1, TogetherFacts DEF Grouped
    <3>2. QED  BY <3>1 DEF Spread
  <2>2. p \in S /\ S \in SUBSET Core  BY <1>1, TogetherFacts DEF Grouped, Core
  <2> HIDE DEF S
  <2>3. q \in S  BY <1>4, <2>1, <2>2 DEF Linked
  <2>4. QED  BY <2>3 DEF S
<1>5. \A p, q \in Core : Q!Together(uf, p, q) <=> Linked(p, q)
  BY <1>4 DEF Grouped, DBInv, CoresStayApart
<1>6. ASSUME NEW b \in Geoms \ Core,
             Neighborhood(b) \cap Core = {} \/ b \in problem.empty
      PROVE  {b} \in uf /\ (General => b \notin in_a_cluster)
  <2>1. Neighborhood(b) \cap Core = {}
    BY <1>1, <1>6, NearSymmetric
  <2>2. CASE General
    <3>1. b \notin in_a_cluster  BY <1>1, <2>1, <2>2 DEF DBInv, PlacedInv
    <3>2. QED  BY <3>1 DEF DBInv, PlacedInv
  <2>3. CASE ~General
    <3>1. b \in problem.empty  BY <1>1, <2>3, LoneCores
    <3>2. QED  BY <2>3, <3>1 DEF DBInv, PlacedInv
  <2>4. QED  BY <2>2, <2>3
<1>7. ASSUME NEW b \in Geoms \ Core, NEW d \in Neighborhood(b) \cap Core,
             b \notin problem.empty
      PROVE  /\ b \in in_a_cluster
             /\ \E c \in Neighborhood(b) \cap Core : Q!Together(uf, b, c)
  <2>1. General  BY <1>1, <1>7, LoneCores
  <2>2. b \in Neighborhood(d) /\ d < at  BY <1>1, <1>2, <1>7, NearSymmetric
  <2>3. b \in in_a_cluster  BY <2>1, <2>2 DEF DBInv, TurnsInv
  <2>4. QED  BY <1>1, <2>1, <2>3 DEF DBInv, PlacedInv, Grouped
<1>8. Core \subseteq in_a_cluster
  <2>1. CASE General
    <3>1. Core \subseteq is_in_core  BY <1>2, <2>1 DEF DBInv, TurnsInv
    <3>2. QED  BY <3>1 DEF DBInv, LoopInv
  <2>2. CASE ~General  BY <2>2 DEF DBInv, LoopInv, Core
  <2>3. QED  BY <2>1, <2>2
<1>9. QED  BY <1>5, <1>6, <1>7, <1>8 DEF IsClustering

-----------------------------------------------------------------------------
\* The invariant holds in every reachable state.
THEOREM ClusteringInvariant == DBSpec => []DBInv
<1>1. DBInit => DBInv  BY DBInitInv
<1>2. DBInv /\ [DBNext]_dbVars => DBInv'  BY DBStepInv
<1>3. QED  BY <1>1, <1>2, PTL DEF DBSpec

\* uf is always a partition of the geometries, is_in_core within in_a_cluster,
\* and at a geometry or the end.
THEOREM ClusteringTypeCorrect == DBSpec => []DBTypeOK
<1>1. DBInv => DBTypeOK  BY InvariantType
<1>2. QED  BY <1>1, ClusteringInvariant, PTL

\* No union in the middle of the loops - with a border point of two clusters
\* among them - brings core points together that no core points connect.
THEOREM CoresAlwaysApart == DBSpec => []CoresStayApart
<1>1. DBInv => CoresStayApart  BY DEF DBInv
<1>2. QED  BY <1>1, ClusteringInvariant, PTL

\* When union_dbscan returns LW_SUCCESS, the classes, in_a_cluster and the
\* borders are those of the definition, for any geometries, eps and min_points
\* and whatever candidates the index gives in whatever order.
THEOREM ClustersAlwaysExact == DBSpec => []ClustersExact
<1>1. DBInv => ClustersExact  BY EndExact DEF ClustersExact
<1>2. QED  BY <1>1, ClusteringInvariant, PTL
=============================================================================
