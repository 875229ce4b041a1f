----------------------------- MODULE MCHistory -----------------------------
(* Model-checking instances of HistoryTable. *)
EXTENDS HistoryTable

\* UPDATE ... SET data = 1 - data
Negate == {[d \in Data |-> 1 - d]}
=============================================================================
