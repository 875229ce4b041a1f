----------------------------- MODULE MCLongXact -----------------------------
(* Model-checking instances of LongXact. *)
EXTENDS LongXact, TLC

Symmetry ==
  Permutations(Sessions) \cup Permutations(Rows) \cup Permutations(Auths)
=============================================================================
