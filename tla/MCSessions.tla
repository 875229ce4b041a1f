----------------------------- MODULE MCSessions -----------------------------
(***************************************************************************)
(* Model-checking instances of what sessions do to tables, at each level   *)
(* of isolation: lock their rows (LongXact) or change those of a table     *)
(* with history (HistoryTable).  The two share nothing; a behaviour is one *)
(* of the feature it starts with, and the other stays at rest.             *)
(***************************************************************************)
EXTENDS LongXact, MCHistory, TLC

VARIABLE feature

\* Neither feature tells its sessions apart.
SessionSymmetry ==
  Permutations(Sessions) \cup Permutations(Rows) \cup Permutations(Auths)
    \cup Permutations(Clients)

SessionsInit ==
  \/ feature = "long transactions" /\ Init /\ HistInit /\ histLevel = "read committed"
  \/ feature = "history" /\ Init /\ isolation = "read committed" /\ HistInit

SessionsNext ==
  /\ UNCHANGED feature
  /\ \/ feature = "long transactions" /\ Next /\ UNCHANGED histVars
     \/ feature = "history" /\ HistNext /\ UNCHANGED vars

SessionsSpec == SessionsInit /\ [][SessionsNext]_<<feature, vars, histVars>>
=============================================================================
