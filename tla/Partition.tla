----------------------------- MODULE Partition -----------------------------
(***************************************************************************)
(* What a union-find promises: elements fall into disjoint classes, at     *)
(* first each one alone, and the only thing that ever happens is that two  *)
(* classes become one.                                                     *)
(***************************************************************************)
CONSTANT Elements

VARIABLE classes

Alone == {{i} : i \in Elements}

\* mutant: the classes stay beside their union
MergeBeside(part, S) == part \cup {UNION {c \in part : c \cap S # {}}}

\* The classes that meet S become one.
Merge(part, S) ==
  {c \in part : c \cap S = {}} \cup {UNION {c \in part : c \cap S # {}}}

Together(part, i, j) == \E c \in part : i \in c /\ j \in c

Init == classes = Alone

\* Two classes become one.
Next ==
  /\ classes # classes'
  /\ \E c, d \in classes : classes' = Merge(classes, c \cup d)

Spec == Init /\ [][Next]_classes
=============================================================================
