------------------------------ MODULE LongXact ------------------------------
(***************************************************************************)
(* Long transactions (row locks for WFS clients): the functions of         *)
(* postgis/long_xact.sql.in and the row trigger of postgis/long_xact.c.    *)
(*                                                                         *)
(* A lock is a row of authorization_table that names a row, a token and    *)
(* an expiry time.  A session adds tokens to a temporary table for the     *)
(* duration of one transaction; the check_auth trigger lets an UPDATE of a *)
(* locked row through only if the token of the lock is among them.         *)
(*                                                                         *)
(* What the functions read is decided by the database: sessions run        *)
(* transactions at one isolation level, chosen when the system starts, and *)
(* see a snapshot ("repeatable read", "serializable") or the latest        *)
(* committed rows ("read committed"), with their own changes on top.       *)
(* "serializable" also refuses to commit two transactions that each read   *)
(* what the other wrote.  One lock-checked table is modelled; a row of     *)
(* Rows stands for its (toid, rid) pair.                                   *)
(***************************************************************************)
EXTENDS Naturals, FiniteSets

CONSTANTS
  Sessions,   \* database sessions (backends)
  Rows,       \* rows of the lock-checked table
  Auths,      \* authorization tokens
  MaxTime,    \* bound: the clock stops here
  MaxXid,     \* bound: number of transactions in a behaviour
  Isolations  \* isolation levels the system may start with

Levels == {"read committed", "repeatable read", "serializable"}

ASSUME LongXactAssumption ==
  /\ MaxTime \in Nat
  /\ MaxXid \in Nat
  /\ Isolations \subseteq Levels

Times == 0 .. MaxTime
Xids  == 1 .. MaxXid

\* A row of authorization_table; xid, the inserting transaction, tells two
\* rows with the same contents apart.
Locks == [xid : Xids, rid : Rows, expires : Times, authid : Auths]

VARIABLES
  isolation, \* isolation level of every transaction
  clock,     \* wall-clock time
  nextXid,   \* next transaction identifier
  enabled,   \* authorized_tables and authorization_table exist
  trigger,   \* CheckAuth has put the check_auth trigger on the table
  locks,     \* committed rows of authorization_table
  writer,    \* last committed writer of each row, 0 at first
  temp,      \* temp[s]: rows of the session's temp_lock_have_table, if any
  txn        \* txn[s]: the running transaction of the session, if any

vars == <<isolation, clock, nextXid, enabled, trigger, locks, writer, temp, txn>>

NoTable == [made |-> FALSE, has |-> {}]
NoTxn   == [xid |-> 0]

Active(s) == txn[s] # NoTxn

\* Other sessions see the temporary table of p once its creation commits.
TempCommitted(p) == IF Active(p) THEN txn[p].old.made ELSE temp[p].made

AnyAuth(s, a) == \E x \in Xids : <<x, a>> \in temp[s].has   \* mutant: xid unchecked

\* The rows of temp_lock_have_table that carry this transaction's xid.
HasAuth(s, a) == <<txn[s].xid, a>> \in temp[s].has

(***************************************************************************)
(* A running transaction.  now is its start time, which now() returns all  *)
(* through it; snap, snapTemp, snapOn and snapWriter are what was          *)
(* committed when it began, for a level that keeps a snapshot; ins and del *)
(* are its uncommitted changes to                                          *)
(* authorization_table, wrote the rows it updated; old is the temporary    *)
(* table it rolls back to.  looked says whether it read                    *)
(* authorization_table, rivals what concurrent transactions that have      *)
(* committed since did to that table.  tokens and released record the      *)
(* arguments of its AddAuth and UnlockRows calls.                          *)
(***************************************************************************)
Latest == isolation = "read committed"

NewTxn(s) ==
  [xid |-> nextXid, now |-> clock,
   snap |-> IF Latest THEN {} ELSE locks,
   snapTemp |-> IF Latest THEN {} ELSE {p \in Sessions : TempCommitted(p)},
   snapOn |-> ~Latest /\ enabled,
   snapWriter |-> IF Latest THEN [r \in Rows |-> 0] ELSE writer,
   ins |-> {}, del |-> {}, wrote |-> {}, old |-> temp[s],
   looked |-> FALSE, rivals |-> {},
   tokens |-> {}, released |-> {}]

\* Rows of authorization_table a statement of s sees.
Visible(s) ==
  ((IF Latest THEN locks ELSE txn[s].snap) \cup txn[s].ins) \ txn[s].del

\* A pg_class row named temp_lock_have_table is visible to s, whoever owns it.
SeesTempTable(s) ==
  \/ temp[s].made
  \/ IF Latest
     THEN \E p \in Sessions \ {s} : TempCommitted(p)
     ELSE txn[s].snapTemp # {}

ExpiredTooSoon(l, t) == l.expires <= t   \* mutant: off by one at the boundary

Expired(l, t) == l.expires < t

Init ==
  /\ isolation \in Isolations
  /\ clock = 0
  /\ nextXid = 1
  /\ enabled = FALSE
  /\ trigger = FALSE
  /\ locks = {}
  /\ writer = [r \in Rows |-> 0]
  /\ temp = [s \in Sessions |-> NoTable]
  /\ txn = [s \in Sessions |-> NoTxn]

-----------------------------------------------------------------------------
(* Transaction control, which the database provides. *)

Begin(s) ==
  /\ ~Active(s)
  /\ nextXid <= MaxXid
  /\ txn' = [txn EXCEPT ![s] = NewTxn(s)]
  /\ nextXid' = nextXid + 1
  /\ UNCHANGED <<isolation, clock, enabled, trigger, locks, writer, temp>>

\* Leave the transaction of s without effect: ROLLBACK, or any ERROR.
Undo(s) ==
  /\ txn' = [txn EXCEPT ![s] = NoTxn]
  /\ temp' = [temp EXCEPT ![s] = txn[s].old]
  /\ UNCHANGED <<isolation, clock, nextXid, enabled, trigger, locks, writer>>

Rollback(s) == Active(s) /\ Undo(s)

Changed(t) == t.ins \cup t.del # {}

\* Two committed transactions would each have read what the other changed: the
\* second to commit gets a serialization error, and can only roll back.
Cycle(t) ==
  /\ isolation = "serializable"
  /\ t.looked /\ Changed(t)
  /\ \E rival \in t.rivals : rival.looked /\ rival.changed

Met(t, u) ==
  IF isolation = "serializable"
  THEN [t EXCEPT !.rivals = @ \cup {[looked |-> u.looked, changed |-> Changed(u)]}]
  ELSE t

Commit(s) ==
  /\ Active(s)
  /\ ~Cycle(txn[s])
  /\ locks' = (locks \ txn[s].del) \cup txn[s].ins
  /\ writer' = [r \in Rows |-> IF r \in txn[s].wrote THEN txn[s].xid ELSE writer[r]]
  /\ txn' = [p \in Sessions |-> IF p = s THEN NoTxn
                                ELSE IF Active(p) THEN Met(txn[p], txn[s]) ELSE NoTxn]
  /\ UNCHANGED <<isolation, clock, nextXid, enabled, trigger, temp>>

\* The session ends between transactions and its temporary table is dropped.
Disconnect(s) ==
  /\ ~Active(s)
  /\ temp[s].made
  /\ temp' = [temp EXCEPT ![s] = NoTable]
  /\ UNCHANGED <<isolation, clock, nextXid, enabled, trigger, locks, writer, txn>>

Tick ==
  /\ clock < MaxTime
  /\ clock' = clock + 1
  /\ UNCHANGED <<isolation, nextXid, enabled, trigger, locks, writer, temp, txn>>

-----------------------------------------------------------------------------
(* The functions of long_xact.sql.in. *)

LongTransactionsEnabled(s) == enabled /\ (Latest \/ txn[s].snapOn)

\* DELETE waits while another transaction has deleted one of the rows ...
Waits(s, rows) == \E p \in Sessions \ {s} : Active(p) /\ txn[p].del \cap rows # {}

\* ... and fails when such a transaction committed after the snapshot.
Gone(s, rows) == ~(rows \subseteq locks \cup txn[s].ins)

\* The transaction after a DELETE of rows and an INSERT of new.
After(t, rows, new) ==
  [t EXCEPT !.ins = (@ \ rows) \cup new,
            !.del = @ \cup (rows \ t.ins),
            !.looked = TRUE]

\* mutant: a lock that expires at this very instant is neither purged nor found
HeldLater(s, r) ==
  {l \in Visible(s) : l.rid = r /\ ~Expired(l, txn[s].now) /\ l.expires # txn[s].now}

\* The locks on row r that LockRow finds once it has purged the expired ones.
Held(s, r) == {l \in Visible(s) : l.rid = r /\ ~Expired(l, txn[s].now)}

\* mutant: the expiry time is taken for a duration
NewLockFor(s, r, a, e) ==
  [xid |-> txn[s].xid, rid |-> r, expires |-> txn[s].now + e, authid |-> a]

NewLock(s, r, a, e) ==
  [xid |-> txn[s].xid, rid |-> r, expires |-> e, authid |-> a]

LockRow(s, r, a, e) ==
  LET old == {l \in Visible(s) : Expired(l, txn[s].now)}
      new == IF Held(s, r) = {} THEN {NewLock(s, r, a, e)} ELSE {}
  IN  /\ Active(s)
      /\ \/ /\ ~LongTransactionsEnabled(s) \/ Gone(s, old)
            /\ Undo(s)
         \/ /\ LongTransactionsEnabled(s)
            /\ ~Gone(s, old)
            /\ ~Waits(s, old)
            /\ txn' = [txn EXCEPT ![s] = After(@, old, new)]
            /\ UNCHANGED <<isolation, clock, nextXid, enabled, trigger, locks, writer, temp>>

Released(t, a) == [t EXCEPT !.released = @ \cup {a}]

UnlockRows(s, a) ==
  LET mine == {l \in Visible(s) : l.authid = a}
  IN  /\ Active(s)
      /\ \/ /\ ~LongTransactionsEnabled(s) \/ Gone(s, mine)
            /\ Undo(s)
         \/ /\ LongTransactionsEnabled(s)
            /\ ~Gone(s, mine)
            /\ ~Waits(s, mine)
            /\ txn' = [txn EXCEPT ![s] = Released(After(@, mine, {}), a)]
            /\ UNCHANGED <<isolation, clock, nextXid, enabled, trigger, locks, writer, temp>>

\* The INSERT resolves the name in the session's own schema: it fails when the
\* table found in pg_class is another session's.
AddAuth(s, a) ==
  /\ Active(s)
  /\ IF SeesTempTable(s) /\ ~temp[s].made
     THEN Undo(s)
     ELSE /\ temp' = [temp EXCEPT ![s] = [made |-> TRUE,
                                         has |-> @.has \cup {<<txn[s].xid, a>>}]]
          /\ txn' = [txn EXCEPT ![s].tokens = @ \cup {a}]
          /\ UNCHANGED <<isolation, clock, nextXid, enabled, trigger, locks, writer>>

\* Each of the three below is a transaction of its own; the locks that DDL
\* takes make it wait for the transactions that use the table it changes.
CheckAuth ==
  /\ enabled
  /\ ~trigger
  /\ \A p \in Sessions : Active(p) => txn[p].wrote = {}
  /\ trigger' = TRUE
  /\ UNCHANGED <<isolation, clock, nextXid, enabled, locks, writer, temp, txn>>

EnableLongTransactions ==
  /\ enabled' = TRUE
  /\ UNCHANGED <<isolation, clock, nextXid, trigger, locks, writer, temp, txn>>

DisableLongTransactions ==
  /\ \A p \in Sessions : Active(p) => ~txn[p].looked /\ txn[p].wrote = {}
  /\ enabled' = FALSE
  /\ trigger' = FALSE
  /\ locks' = {}
  /\ txn' = [p \in Sessions |-> IF Active(p) THEN [txn[p] EXCEPT !.snap = {}]
                                ELSE NoTxn]
  /\ UNCHANGED <<isolation, clock, nextXid, writer, temp>>

-----------------------------------------------------------------------------
(* UPDATE or DELETE of a row of the table, with the row trigger of          *)
(* long_xact.c when CheckAuth has created it.                               *)

\* The trigger takes the first lock the query returns, in no given order.
Authorized(s, l) == temp[s].made /\ HasAuth(s, l.authid)

check_authorization(s, r) ==
  Held(s, r) = {} \/ \E l \in Held(s, r) : Authorized(s, l)

Denied(s, r) == \E l \in Held(s, r) : ~Authorized(s, l)

Stale(s, r) == ~Latest /\ r \notin txn[s].wrote /\ writer[r] # txn[s].snapWriter[r]

UpdateRow(s, r) ==
  /\ Active(s)
  /\ \A p \in Sessions \ {s} : Active(p) => r \notin txn[p].wrote
  /\ \/ /\ Stale(s, r) \/ (trigger /\ Denied(s, r))
        /\ Undo(s)
     \/ /\ ~Stale(s, r)
        /\ trigger => check_authorization(s, r)
        /\ txn' = [txn EXCEPT ![s].wrote = @ \cup {r},
                              ![s].looked = @ \/ trigger]
        /\ UNCHANGED <<isolation, clock, nextXid, enabled, trigger, locks, writer, temp>>

-----------------------------------------------------------------------------
Next ==
  \/ Tick \/ CheckAuth \/ EnableLongTransactions \/ DisableLongTransactions
  \/ \E s \in Sessions :
       \/ Begin(s) \/ Commit(s) \/ Rollback(s) \/ Disconnect(s)
       \/ \E a \in Auths : UnlockRows(s, a) \/ AddAuth(s, a)
       \/ \E r \in Rows : UpdateRow(s, r)
       \/ \E r \in Rows, a \in Auths, e \in Times : LockRow(s, r, a, e)

Spec == Init /\ [][Next]_vars

-----------------------------------------------------------------------------
Txns ==
  [xid : Xids, now : Times, snap : SUBSET Locks, snapTemp : SUBSET Sessions,
   snapOn : BOOLEAN, snapWriter : [Rows -> Xids \cup {0}],
   ins : SUBSET Locks, del : SUBSET Locks, wrote : SUBSET Rows,
   old : [made : BOOLEAN, has : SUBSET (Xids \X Auths)],
   looked : BOOLEAN, rivals : SUBSET [looked : BOOLEAN, changed : BOOLEAN],
   tokens : SUBSET Auths, released : SUBSET Auths]

\* The variables hold values of the types their declarations say.
TypeOK ==
  /\ isolation \in Isolations
  /\ clock \in Times
  /\ nextXid \in 1 .. MaxXid + 1
  /\ enabled \in BOOLEAN
  /\ trigger \in BOOLEAN
  /\ locks \in SUBSET Locks
  /\ writer \in [Rows -> Xids \cup {0}]
  /\ temp \in [Sessions -> [made : BOOLEAN, has : SUBSET (Xids \X Auths)]]
  /\ txn \in [Sessions -> Txns \cup {NoTxn}]

InForce(l) == l.expires >= clock

\* At most one token holds a row: at the level the manual asks for, no two
\* committed locks in force on one row carry different tokens.  LockRow reads,
\* then inserts, with no key on the table to stop a second session doing the
\* same.
LockExclusive ==
  isolation = "serializable" =>
    \A l, m \in locks :
      l.rid = m.rid /\ InForce(l) /\ InForce(m) => l.authid = m.authid

\* A lock in force is only ever removed by a transaction that released its
\* token with UnlockRows, or with the whole table by DisableLongTransactions:
\* the purge of expired locks in LockRow never takes it, however late the
\* purging transaction commits.
LocksOutlivePurges ==
  [][\A l \in locks \ locks' :
       InForce(l) => \/ ~enabled'
                     \/ \E s \in Sessions : Active(s) /\ ~Active(s)' /\
                                             l.authid \in txn[s].released]_vars

\* The step lets s update r while a committed lock is in force on the row, and
\* the trigger is in place.
UpdatesLocked(s, r) ==
  /\ trigger
  /\ \E l \in locks : l.rid = r /\ InForce(l)
  /\ Active(s) /\ Active(s)'
  /\ r \in txn'[s].wrote \ txn[s].wrote

\* In this transaction, s has added or released the token of a lock on r.
HoldsToken(s, r) ==
  \E l \in locks \cup txn[s].ins :
    l.rid = r /\ l.authid \in txn[s].tokens \cup txn[s].released

\* An UPDATE that goes through while a committed lock is in force on the row,
\* and the trigger is in place, was made by a transaction that had added the
\* token of a lock on that row - in that same transaction - or released it.
\* Any lock on the row will do here: that there is only one in force is
\* LockExclusive, which needs another isolation level.
UpdatesAuthorized ==
  [][\A s \in Sessions, r \in Rows : UpdatesLocked(s, r) => HoldsToken(s, r)]_vars

\* The same where every statement sees what is committed when it runs: the
\* check then reads the lock that is in force.
FreshUpdatesAuthorized ==
  [][\A s \in Sessions, r \in Rows :
       Latest /\ UpdatesLocked(s, r) => HoldsToken(s, r)]_vars

\* The temporary table AddAuth finds is one the session can insert into.
TempTableIsOwn ==
  \A s \in Sessions : Active(s) /\ SeesTempTable(s) => temp[s].made
=============================================================================
