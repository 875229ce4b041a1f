---------------------------- MODULE HistoryTable ----------------------------
(***************************************************************************)
(* A table with history: extras/history_table.  Three rewrite rules keep a *)
(* side table of versions beside the table itself.  An INSERT adds a       *)
(* version; an UPDATE fills in date_deleted of the versions of the row and *)
(* adds a new one; a DELETE fills in date_deleted.                         *)
(*                                                                         *)
(* The rules rewrite one statement into several queries.  They share the   *)
(* snapshot the statement starts with, wait for rows that another          *)
(* transaction has changed, and then go on with the row as that            *)
(* transaction left it ("read committed") or fail ("repeatable read").     *)
(* The queries of one statement all touch the same row and its versions,   *)
(* in an order that makes a second statement on that row wait at its first *)
(* query: they are one step here.                                          *)
(*                                                                         *)
(* now() is the time a transaction began.  last_operation, active_user and *)
(* current_version are left out: the rules write them and never read them. *)
(***************************************************************************)
EXTENDS Naturals

CONSTANTS
  Clients,     \* database sessions
  Gids,        \* primary keys, chosen by the client
  Data,        \* what the other columns of a row hold
  Inserts,     \* the data a client may insert
  Updates,     \* what an UPDATE may compute from a row
  HistLevels,  \* isolation levels the system may start with
  HistMaxTime, \* bound: the clock stops here
  MaxVersion   \* bound: number of history_id values handed out

ASSUME HistoryAssumption ==
  /\ HistMaxTime \in Nat
  /\ MaxVersion \in Nat
  /\ Inserts \subseteq Data
  /\ Updates \subseteq [Data -> Data]
  /\ HistLevels \subseteq {"read committed", "repeatable read"}

HistTimes == 0 .. HistMaxTime
Never     == HistMaxTime + 1     \* a date_deleted that is NULL
Ids       == 1 .. MaxVersion

\* born, the history_id the row was inserted under, tells a row from another
\* inserted later with the same key; stamp is the history_id of its version.
HistRows == [data : Data, born : Ids, stamp : Ids]
NoRow    == [stamp |-> 0]

Versions == [gid : Gids, data : Data, added : HistTimes, deleted : HistTimes \cup {Never}]

Statements ==
  [kind : {"insert"}, gid : Gids, data : Inserts]
    \cup [kind : {"update"}, gid : Gids, f : Updates]
    \cup [kind : {"delete"}, gid : Gids]
NoStatement == [kind |-> "none"]

VARIABLES
  histLevel,    \* isolation level of every transaction
  histClock,    \* wall-clock time
  nextVersion,  \* the sequence behind history_id; no rollback takes it back
  rows,         \* the table: its row for each key, or NoRow
  history,      \* the history table: its version for each history_id in use
  histTxn       \* the running transaction of each session, if any

histVars == <<histLevel, histClock, nextVersion, rows, history, histTxn>>

Nothing == [x \in {} |-> x]

\* f with the entries of g put over its own.
Overlay(f, g) ==
  [x \in DOMAIN f \cup DOMAIN g |-> IF x \in DOMAIN g THEN g[x] ELSE f[x]]

(***************************************************************************)
(* A running transaction: now is its start time, snapRows and snapHist     *)
(* what was committed when its snapshot was taken, newRows and newHist its *)
(* own changes, stmt the statement it has begun.                           *)
(***************************************************************************)
NoHistTxn  == [now |-> Never]
NewHistTxn ==
  [now |-> histClock, snapped |-> FALSE,
   snapRows |-> [g \in Gids |-> NoRow], snapHist |-> Nothing,
   newRows |-> Nothing, newHist |-> Nothing, stmt |-> NoStatement]

InTxn(s) == histTxn[s] # NoHistTxn

\* The row of g, and the versions, as the snapshot of s shows them ...
SeenRow(s, g) == Overlay(histTxn[s].snapRows, histTxn[s].newRows)[g]

SeenVersions(s, g) ==
  LET seen == Overlay(histTxn[s].snapHist, histTxn[s].newHist)
  IN  {v \in DOMAIN seen : seen[v].gid = g}

\* ... and as they are once the transactions waited for have ended.
LatestRow(s, g)  == Overlay(rows, histTxn[s].newRows)[g]
LatestHistory(s) == Overlay(history, histTxn[s].newHist)

HistInit ==
  /\ histLevel \in HistLevels
  /\ histClock = 0
  /\ nextVersion = 1
  /\ rows = [g \in Gids |-> NoRow]
  /\ history = Nothing
  /\ histTxn = [s \in Clients |-> NoHistTxn]

-----------------------------------------------------------------------------
(* Transaction control, which the database provides. *)

HistBegin(s) ==
  /\ ~InTxn(s)
  /\ histTxn' = [histTxn EXCEPT ![s] = NewHistTxn]
  /\ UNCHANGED <<histLevel, histClock, nextVersion, rows, history>>

\* A statement reaches the server and takes its snapshot: the first of the
\* transaction at "repeatable read", each one at "read committed".
HistIssue(s, stmt) ==
  /\ InTxn(s)
  /\ histTxn[s].stmt = NoStatement
  /\ histTxn' = [histTxn EXCEPT
       ![s] = IF @.snapped
              THEN [@ EXCEPT !.stmt = stmt]
              ELSE [@ EXCEPT !.stmt = stmt, !.snapRows = rows, !.snapHist = history,
                             !.snapped = histLevel = "repeatable read"]]
  /\ UNCHANGED <<histLevel, histClock, nextVersion, rows, history>>

HistCommit(s) ==
  /\ InTxn(s)
  /\ histTxn[s].stmt = NoStatement
  /\ rows' = Overlay(rows, histTxn[s].newRows)
  /\ history' = Overlay(history, histTxn[s].newHist)
  /\ histTxn' = [histTxn EXCEPT ![s] = NoHistTxn]
  /\ UNCHANGED <<histLevel, histClock, nextVersion>>

\* ROLLBACK, or any error.
HistRollback(s) ==
  /\ InTxn(s)
  /\ histTxn' = [histTxn EXCEPT ![s] = NoHistTxn]
  /\ UNCHANGED <<histLevel, histClock, nextVersion, rows, history>>

HistTick ==
  /\ histClock < HistMaxTime
  /\ histClock' = histClock + 1
  /\ UNCHANGED <<histLevel, nextVersion, rows, history, histTxn>>

\* Another running transaction has changed the row of g or one of versions.
Blocked(s, g, versions) ==
  \E p \in Clients \ {s} :
    /\ InTxn(p)
    /\ g \in DOMAIN histTxn[p].newRows \/ versions \cap DOMAIN histTxn[p].newHist # {}

\* A row or version the statement would change was changed since the snapshot.
Conflict(s, g) ==
  LET t == histTxn[s]
  IN  /\ histLevel = "repeatable read"
      /\ \/ g \notin DOMAIN t.newRows /\ rows[g] # t.snapRows[g]
         \/ \E v \in SeenVersions(s, g) \ DOMAIN t.newHist : history[v] # t.snapHist[v]

-----------------------------------------------------------------------------
(* The statements, as the rules rewrite them. *)

\* mutant: the two dates swapped
NewVersionClosed(s, g, d) ==
  [gid |-> g, data |-> d, added |-> Never, deleted |-> histTxn[s].now]

\* The version that _postgis_add_insert_rule and _postgis_add_update_rule add.
NewVersion(s, g, d) ==
  [gid |-> g, data |-> d, added |-> histTxn[s].now, deleted |-> Never]

\* mutant: WHERE date_deleted IS NOT NULL
CloseClosed(s, g) ==
  [v \in {w \in SeenVersions(s, g) : LatestHistory(s)[w].deleted # Never} |->
     [LatestHistory(s)[v] EXCEPT !.deleted = histTxn[s].now]]

\* The versions that WHERE gid = OLD.gid finds, with date_deleted filled in.
Close(s, g) ==
  [v \in SeenVersions(s, g) |-> [LatestHistory(s)[v] EXCEPT !.deleted = histTxn[s].now]]

\* mutant: the new version is added first, and closed with the others
InsertThenClose(s, g, d) ==
  Overlay(Close(s, g),
          [v \in {nextVersion} |->
             [NewVersion(s, g, d) EXCEPT !.deleted = histTxn[s].now]])

\* _postgis_add_update_rule: close, then insert.
CloseThenInsert(s, g, d) ==
  Overlay(Close(s, g), [v \in {nextVersion} |-> NewVersion(s, g, d)])

\* The statement of s has run, and changed these rows and versions.
Ran(s, newRows, newHist) ==
  [histTxn EXCEPT
     ![s].stmt = NoStatement,
     ![s].snapRows = IF histTxn[s].snapped THEN @ ELSE [g \in Gids |-> NoRow],
     ![s].snapHist = IF histTxn[s].snapped THEN @ ELSE Nothing,
     ![s].newRows = Overlay(@, newRows),
     ![s].newHist = Overlay(@, newHist)]

\* The row is inserted, then its version.
RunInsert(s, stmt) ==
  LET g == stmt.gid
  IN  /\ ~Blocked(s, g, {})
      /\ LatestRow(s, g) = NoRow
      /\ nextVersion <= MaxVersion
      /\ histTxn' =
           Ran(s, [x \in {g} |-> [data |-> stmt.data, born |-> nextVersion,
                                  stamp |-> nextVersion]],
                  [v \in {nextVersion} |-> NewVersion(s, g, stmt.data)])
      /\ nextVersion' = nextVersion + 1

\* The row of g that the query itself changes: the latest one, if it is still
\* the row that the snapshot shows.
Found(s, g) ==
  LatestRow(s, g) # NoRow /\ LatestRow(s, g).born = SeenRow(s, g).born

\* The rule's queries run before the UPDATE, on OLD as the snapshot shows it;
\* the UPDATE itself computes the row from the latest one.
RunUpdate(s, stmt) ==
  LET g == stmt.gid
  IN  /\ SeenRow(s, g) # NoRow
      /\ ~Blocked(s, g, SeenVersions(s, g))
      /\ ~Conflict(s, g)
      /\ nextVersion <= MaxVersion
      /\ histTxn' =
           Ran(s, [x \in {y \in {g} : Found(s, y)} |->
                     [LatestRow(s, x) EXCEPT !.data = stmt.f[@], !.stamp = nextVersion]],
                  CloseThenInsert(s, g, stmt.f[SeenRow(s, g).data]))
      /\ nextVersion' = nextVersion + 1

RunDelete(s, stmt) ==
  LET g == stmt.gid
  IN  /\ SeenRow(s, g) # NoRow
      /\ ~Blocked(s, g, SeenVersions(s, g))
      /\ ~Conflict(s, g)
      /\ histTxn' = Ran(s, [x \in {y \in {g} : Found(s, y)} |-> NoRow], Close(s, g))
      /\ UNCHANGED nextVersion

\* No row has the key: the statement and the rule's queries do nothing.
RunNothing(s, stmt) ==
  /\ SeenRow(s, stmt.gid) = NoRow
  /\ histTxn' = Ran(s, Nothing, Nothing)
  /\ UNCHANGED nextVersion

HistRun(s) ==
  LET stmt == histTxn[s].stmt
  IN  /\ InTxn(s)
      /\ \/ stmt.kind = "insert" /\ RunInsert(s, stmt)
         \/ stmt.kind = "update" /\ RunUpdate(s, stmt)
         \/ stmt.kind = "delete" /\ RunDelete(s, stmt)
         \/ stmt.kind \in {"update", "delete"} /\ RunNothing(s, stmt)
      /\ UNCHANGED <<histLevel, histClock, rows, history>>

-----------------------------------------------------------------------------
HistNext ==
  \/ HistTick
  \/ \E s \in Clients :
       \/ HistBegin(s) \/ HistCommit(s) \/ HistRollback(s) \/ HistRun(s)
       \/ \E stmt \in Statements : HistIssue(s, stmt)

HistSpec == HistInit /\ [][HistNext]_histVars

-----------------------------------------------------------------------------
\* The functions from some of the members of S to T.
PartFun(S, T) == UNION {[D -> T] : D \in SUBSET S}

HistTxns ==
  [now : HistTimes, snapped : BOOLEAN,
   snapRows : [Gids -> HistRows \cup {NoRow}], snapHist : PartFun(Ids, Versions),
   newRows : PartFun(Gids, HistRows \cup {NoRow}), newHist : PartFun(Ids, Versions),
   stmt : Statements \cup {NoStatement}]

\* The variables hold values of the types their declarations say.
HistTypeOK ==
  /\ histLevel \in HistLevels
  /\ histClock \in HistTimes
  /\ nextVersion \in 1 .. MaxVersion + 1
  /\ rows \in [Gids -> HistRows \cup {NoRow}]
  /\ history \in PartFun(Ids, Versions)
  /\ histTxn \in [Clients -> HistTxns \cup {NoHistTxn}]

IsOpen(v) == history[v].deleted = Never

OpenVersions(g) == {v \in DOMAIN history : history[v].gid = g /\ IsOpen(v)}

\* What the history table says is there now is what is there: where a
\* transaction keeps its snapshot, the versions of a key without date_deleted
\* are none for a key without a row, and else one, with what the row holds.
HistOpenIsCurrent ==
  histLevel = "repeatable read" =>
    \A g \in Gids :
      IF rows[g] = NoRow
      THEN OpenVersions(g) = {}
      ELSE /\ OpenVersions(g) = {rows[g].stamp}
           /\ history[rows[g].stamp].data = rows[g].data

\* At either level, and whatever updates and deletes wait for each other,
\* every row of the table has a version without date_deleted.
HistRowIsOpen == \A g \in Gids : rows[g] # NoRow => OpenVersions(g) # {}

\* The versions of key g that the query of the README returns for time t.
AsOf(g, t) ==
  {v \in DOMAIN history :
     history[v].gid = g /\ history[v].added < t /\ history[v].deleted >= t}

\* "retrieve a view of the roads table at any point in the past": the view
\* holds no key twice.
HistOneVersionAtATime ==
  \A g \in Gids, t \in HistTimes : \A v, w \in AsOf(g, t) : v = w
=============================================================================
