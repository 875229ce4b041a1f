--------------------------- MODULE SessionProofs ---------------------------
(***************************************************************************)
(* What sessions keep true of the tables that they share, for any          *)
(* sessions, rows, keys, tokens and bounds.                                *)
(*                                                                         *)
(* The long transaction functions: at every isolation level types, and     *)
(* that a purge of expired locks never takes a lock that is in force; that *)
(* an update of a locked row takes the token, where statements see the     *)
(* latest locks; and that one token holds a row, at serializable.          *)
(*                                                                         *)
(* The rules of a table with history: every row has a version that is      *)
(* still open, at either isolation level; and where transactions keep a    *)
(* snapshot the open versions are exactly the rows, with their data.       *)
(***************************************************************************)
EXTENDS LongXact, HistoryTable, TLAPS

TxnType == Txns \cup {NoTxn}

\* A lock a transaction is about to delete had expired when it began, or is
\* of a token that it released.
DeletesJustified(t, time) ==
  /\ t.now <= time
  /\ \A l \in t.del : Expired(l, t.now) \/ l.authid \in t.released

PurgeInv == \A s \in Sessions : Active(s) => DeletesJustified(txn[s], clock)

-----------------------------------------------------------------------------
(* What the operators return. *)

LEMMA VisibleType == 
  ASSUME TypeOK, NEW s \in Sessions, Active(s)
  PROVE  /\ txn[s] \in Txns
         /\ Visible(s) \in SUBSET Locks
<1>1. txn[s] \in Txns  BY DEF TypeOK, Active
<1>2. QED  BY <1>1 DEF TypeOK, Visible, Txns

LEMMA NewTxnType ==
  ASSUME TypeOK, NEW s \in Sessions, nextXid <= MaxXid
  PROVE  NewTxn(s) \in Txns
  BY LongXactAssumption DEF TypeOK, NewTxn, Txns, Xids

LEMMA AfterType ==
  ASSUME NEW t \in Txns, NEW held \in SUBSET Locks, NEW new \in SUBSET Locks
  PROVE  /\ After(t, held, new) \in Txns
         /\ After(t, held, new).now = t.now
         /\ After(t, held, new).released = t.released
         /\ After(t, held, new).del \subseteq t.del \cup held
  BY DEF After, Txns

LEMMA MetType ==
  ASSUME NEW t \in Txns, NEW u \in Txns
  PROVE  /\ Met(t, u) \in Txns
         /\ Met(t, u).now = t.now
         /\ Met(t, u).released = t.released
         /\ Met(t, u).del = t.del
<1> DEFINE Rival == [looked |-> u.looked, changed |-> Changed(u)]
           Rivals == SUBSET [looked : BOOLEAN, changed : BOOLEAN]
<1>1. Rival \in [looked : BOOLEAN, changed : BOOLEAN]
  <2>1. u.looked \in BOOLEAN  BY DEF Txns
  <2>2. Changed(u) \in BOOLEAN  BY DEF Changed
  <2>3. QED  BY <2>1, <2>2, Zenon
<1>2. t.rivals \in Rivals  BY DEF Txns
<1>3. t.rivals \cup {Rival} \in Rivals  BY <1>1, <1>2
<1>4. Met(t, u) = IF isolation = "serializable"
                  THEN [t EXCEPT !.rivals = t.rivals \cup {Rival}] ELSE t
  BY DEF Met
<1> HIDE DEF Rival
<1>5. QED  BY <1>3, <1>4 DEF Txns

LEMMA NewLockType ==
  ASSUME TypeOK, NEW s \in Sessions, Active(s),
         NEW r \in Rows, NEW a \in Auths, NEW e \in Times
  PROVE  NewLock(s, r, a, e) \in Locks
<1>1. txn[s].xid \in Xids  BY VisibleType DEF Txns
<1>2. QED  BY <1>1 DEF NewLock, Locks

-----------------------------------------------------------------------------
(* Type correctness. *)

LEMMA UndoType ==
  ASSUME TypeOK, NEW s \in Sessions, Active(s), Undo(s)
  PROVE  TypeOK'
<1>1. txn[s].old \in [made : BOOLEAN, has : SUBSET (Xids \X Auths)]
  BY VisibleType DEF Txns
<1>2. txn' \in [Sessions -> TxnType]
  BY DEF TypeOK, Undo, TxnType
<1>3. temp' \in [Sessions -> [made : BOOLEAN, has : SUBSET (Xids \X Auths)]]
  BY <1>1 DEF TypeOK, Undo
<1>4. QED  BY <1>2, <1>3 DEF TypeOK, Undo, TxnType

LEMMA TypeStep == TypeOK /\ [Next]_vars => TypeOK'
<1> SUFFICES ASSUME TypeOK, [Next]_vars  PROVE TypeOK'
  OBVIOUS
<1>1. CASE Tick
  BY <1>1, LongXactAssumption DEF TypeOK, Tick, Times
<1>2. CASE CheckAuth
  BY <1>2 DEF TypeOK, CheckAuth
<1>3. CASE EnableLongTransactions
  BY <1>3 DEF TypeOK, EnableLongTransactions
<1>4. CASE DisableLongTransactions
  <2>1. ASSUME NEW t \in Txns  PROVE [t EXCEPT !.snap = {}] \in Txns
    BY DEF Txns
  <2>2. txn' \in [Sessions -> TxnType]
    BY <1>4, <2>1 DEF DisableLongTransactions, TypeOK, Active, TxnType
  <2>3. QED  BY <1>4, <2>2 DEF DisableLongTransactions, TypeOK, TxnType
<1>5. ASSUME NEW s \in Sessions, Begin(s)  PROVE TypeOK'
  <2>1. NewTxn(s) \in Txns  BY <1>5, NewTxnType DEF Begin
  <2>2. txn' \in [Sessions -> TxnType]
    BY <1>5, <2>1 DEF Begin, TypeOK, TxnType
  <2>3. nextXid' \in 1 .. MaxXid + 1
    BY <1>5, LongXactAssumption DEF Begin, TypeOK
  <2>4. QED  BY <1>5, <2>2, <2>3 DEF Begin, TypeOK, TxnType
<1>6. ASSUME NEW s \in Sessions, Commit(s)  PROVE TypeOK'
  <2>1. txn[s] \in Txns  BY <1>6, VisibleType DEF Commit
  <2>2. locks' \in SUBSET Locks
    BY <1>6, <2>1 DEF Commit, TypeOK, Txns
  <2>3. writer' \in [Rows -> Xids \cup {0}]
    BY <1>6, <2>1 DEF Commit, TypeOK, Txns
  <2>4. txn' \in [Sessions -> TxnType]
    BY <1>6, <2>1, VisibleType, MetType DEF Commit, TxnType
  <2>5. QED  BY <1>6, <2>2, <2>3, <2>4 DEF Commit, TypeOK, TxnType
<1>7. ASSUME NEW s \in Sessions, Rollback(s)  PROVE TypeOK'
  BY <1>7, UndoType DEF Rollback
<1>8. ASSUME NEW s \in Sessions, Disconnect(s)  PROVE TypeOK'
  BY <1>8 DEF Disconnect, TypeOK, NoTable
<1>9. ASSUME NEW s \in Sessions, NEW a \in Auths, UnlockRows(s, a)  PROVE TypeOK'
  <2>1. CASE Undo(s)  BY <1>9, <2>1, UndoType DEF UnlockRows
  <2> DEFINE mine == {l \in Visible(s) : l.authid = a}
             t    == After(txn[s], mine, {})
  <2>2. CASE /\ txn' = [txn EXCEPT ![s] = Released(t, a)]
             /\ UNCHANGED <<isolation, clock, nextXid, enabled, trigger, locks, writer, temp>>
    <3>1. t \in Txns  BY <1>9, VisibleType, AfterType DEF UnlockRows
    <3> HIDE DEF t
    <3>2. Released(t, a) \in Txns  BY <3>1 DEF Txns, Released
    <3>3. txn' \in [Sessions -> TxnType]  BY <2>2, <3>2 DEF TypeOK, TxnType
    <3>4. QED  BY <2>2, <3>3 DEF TypeOK, TxnType
  <2>3. QED  BY <1>9, <2>1, <2>2 DEF UnlockRows
<1>10. ASSUME NEW s \in Sessions, NEW a \in Auths, AddAuth(s, a)  PROVE TypeOK'
  <2>1. CASE Undo(s)  BY <1>10, <2>1, UndoType DEF AddAuth
  <2>2. CASE ~Undo(s)
    <3>1. txn[s] \in Txns  BY <1>10, VisibleType DEF AddAuth
    <3>2. <<txn[s].xid, a>> \in Xids \X Auths  BY <3>1 DEF Txns
    <3>3. [txn[s] EXCEPT !.tokens = @ \cup {a}] \in Txns  BY <3>1 DEF Txns
    <3>4. txn' = [txn EXCEPT ![s] = [txn[s] EXCEPT !.tokens = @ \cup {a}]]
      BY <1>10, <2>2 DEF AddAuth
    <3>5. txn' \in [Sessions -> TxnType]  BY <3>3, <3>4 DEF TypeOK, TxnType
    <3> DEFINE Tables == [made : BOOLEAN, has : SUBSET (Xids \X Auths)]
               own    == [made |-> TRUE, has |-> temp[s].has \cup {<<txn[s].xid, a>>}]
    <3>8. own \in Tables  BY <3>2 DEF TypeOK
    <3>9. temp' = [temp EXCEPT ![s] = own]  BY <1>10, <2>2 DEF AddAuth
    <3> HIDE DEF own
    <3>6. temp' \in [Sessions -> Tables]  BY <3>8, <3>9 DEF TypeOK
    <3>7. QED  BY <1>10, <2>2, <3>5, <3>6 DEF AddAuth, TypeOK, TxnType
  <2>3. QED  BY <2>1, <2>2
<1>11. ASSUME NEW s \in Sessions, NEW r \in Rows, UpdateRow(s, r)  PROVE TypeOK'
  <2>1. CASE Undo(s)  BY <1>11, <2>1, UndoType DEF UpdateRow
  <2> DEFINE t == [txn[s] EXCEPT !.wrote = @ \cup {r},
                                 !.looked = @ \/ trigger]
  <2>2. CASE /\ txn' = [txn EXCEPT ![s] = t]
             /\ UNCHANGED <<isolation, clock, nextXid, enabled, trigger, locks, writer, temp>>
    <3>1. txn[s] \in Txns  BY <1>11, VisibleType DEF UpdateRow
    <3>2. (txn[s].looked \/ trigger) \in BOOLEAN  OBVIOUS
    <3>3. t \in Txns  BY <3>1, <3>2 DEF Txns
    <3> HIDE DEF t
    <3>4. txn' \in [Sessions -> TxnType]  BY <2>2, <3>3 DEF TypeOK, TxnType
    <3>5. QED  BY <2>2, <3>4 DEF TypeOK, TxnType
  <2>3. txn' = [txn EXCEPT ![s].wrote = @ \cup {r}, ![s].looked = @ \/ trigger]
        => txn' = [txn EXCEPT ![s] = t]
    BY DEF TypeOK
  <2>4. QED  BY <1>11, <2>1, <2>2, <2>3 DEF UpdateRow
<1>12. ASSUME NEW s \in Sessions, NEW r \in Rows, NEW a \in Auths, NEW e \in Times,
              LockRow(s, r, a, e)
       PROVE TypeOK'
  <2>1. CASE Undo(s)  BY <1>12, <2>1, UndoType DEF LockRow
  <2> DEFINE old == {l \in Visible(s) : Expired(l, txn[s].now)}
             new == IF Held(s, r) = {} THEN {NewLock(s, r, a, e)} ELSE {}
             t   == After(txn[s], old, new)
  <2>2. CASE /\ txn' = [txn EXCEPT ![s] = t]
             /\ UNCHANGED <<isolation, clock, nextXid, enabled, trigger, locks, writer, temp>>
    <3>1. new \in SUBSET Locks  BY <1>12, NewLockType DEF LockRow
    <3>2. old \in SUBSET Locks  BY <1>12, VisibleType DEF LockRow
    <3>3. txn[s] \in Txns  BY <1>12, VisibleType DEF LockRow
    <3> HIDE DEF old, new
    <3>4. t \in Txns  BY <3>1, <3>2, <3>3, AfterType
    <3> HIDE DEF t
    <3>5. txn' \in [Sessions -> TxnType]  BY <2>2, <3>4 DEF TypeOK, TxnType
    <3>6. QED  BY <2>2, <3>5 DEF TypeOK, TxnType
  <2>3. QED  BY <1>12, <2>1, <2>2 DEF LockRow
<1>13. CASE UNCHANGED vars
  BY <1>13 DEF TypeOK, vars
<1>14. QED
  BY <1>1, <1>2, <1>3, <1>4, <1>5, <1>6, <1>7, <1>8, <1>9, <1>10, <1>11, <1>12,
     <1>13 DEF Next

\* The state keeps its types whatever sessions do.
THEOREM TypeCorrect == Spec => []TypeOK
<1>1. ASSUME Init  PROVE TypeOK
  <2>1. clock \in Times /\ nextXid \in 1 .. MaxXid + 1
    BY <1>1, LongXactAssumption DEF Init, Times
  <2>2. NoTable \in [made : BOOLEAN, has : SUBSET (Xids \X Auths)]
    BY DEF NoTable
  <2>3. QED  BY <1>1, <2>1, <2>2 DEF Init, TypeOK
<1>2. QED  BY <1>1, TypeStep, PTL DEF Spec

-----------------------------------------------------------------------------
(* Locks in force are not purged.                                           *)
(* A deleted lock that had expired when the transaction began has expired   *)
(* when it commits, for the clock never runs back: PurgeInv carries this    *)
(* from the call of LockRow to the commit.                                  *)

LEMMA PurgeKept ==
  ASSUME TypeOK, TypeOK', PurgeInv, clock <= clock',
         \A p \in Sessions : Active(p)' =>
           \/ DeletesJustified(txn'[p], clock)
           \/ /\ Active(p)
              /\ txn'[p].del = txn[p].del
              /\ txn'[p].now = txn[p].now
              /\ txn'[p].released = txn[p].released
  PROVE  PurgeInv'
<1> SUFFICES ASSUME NEW p \in Sessions, Active(p)'
             PROVE  DeletesJustified(txn'[p], clock')
  BY DEF PurgeInv
<1>1. DeletesJustified(txn'[p], clock)
  BY DEF PurgeInv, DeletesJustified
<1>2. txn'[p] \in Txns  BY DEF TypeOK, Active
<1>3. txn'[p].now \in Nat  BY <1>2, LongXactAssumption DEF Txns, Times
<1>4. clock \in Nat /\ clock' \in Nat  BY LongXactAssumption DEF TypeOK, Times
<1>5. QED  BY <1>1, <1>3, <1>4 DEF DeletesJustified

LEMMA PurgeStep == TypeOK /\ TypeOK' /\ PurgeInv /\ [Next]_vars => PurgeInv'
<1> SUFFICES ASSUME TypeOK, TypeOK', PurgeInv, [Next]_vars  PROVE PurgeInv'
  OBVIOUS
<1> USE DEF Active
<1> clock \in Nat  BY LongXactAssumption DEF TypeOK, Times
<1>0. ASSUME NEW s \in Sessions, Undo(s)  PROVE PurgeInv'
  BY <1>0, PurgeKept DEF Undo, TypeOK
<1>1. CASE Tick
  BY <1>1, PurgeKept DEF Tick
<1>2. CASE CheckAuth
  BY <1>2, PurgeKept DEF CheckAuth
<1>3. CASE EnableLongTransactions
  BY <1>3, PurgeKept DEF EnableLongTransactions
<1>4. CASE DisableLongTransactions
  <2>1. ASSUME NEW t \in Txns
        PROVE  /\ [t EXCEPT !.snap = {}].del = t.del
               /\ [t EXCEPT !.snap = {}].now = t.now
               /\ [t EXCEPT !.snap = {}].released = t.released
    BY DEF Txns
  <2>2. QED  BY <1>4, <2>1, PurgeKept DEF DisableLongTransactions, TypeOK
<1>5. ASSUME NEW s \in Sessions, Begin(s)  PROVE PurgeInv'
  <2>1. DeletesJustified(NewTxn(s), clock)  BY DEF NewTxn, DeletesJustified
  <2>2. QED  BY <1>5, <2>1, PurgeKept DEF Begin, TypeOK
<1>6. ASSUME NEW s \in Sessions, Commit(s)  PROVE PurgeInv'
  BY <1>6, VisibleType, MetType, PurgeKept DEF Commit
<1>7. ASSUME NEW s \in Sessions, Rollback(s)  PROVE PurgeInv'
  BY <1>7, <1>0 DEF Rollback
<1>8. ASSUME NEW s \in Sessions, Disconnect(s)  PROVE PurgeInv'
  BY <1>8, PurgeKept DEF Disconnect
<1>9. ASSUME NEW s \in Sessions, NEW a \in Auths, UnlockRows(s, a)  PROVE PurgeInv'
  <2> DEFINE mine == {l \in Visible(s) : l.authid = a}
             t    == After(txn[s], mine, {})
  <2>1. CASE txn' = [txn EXCEPT ![s] = Released(t, a)] /\ clock' = clock
    <3>1. /\ t \in Txns
          /\ t.now = txn[s].now
          /\ t.released = txn[s].released
          /\ t.del \subseteq txn[s].del \cup mine
      BY <1>9, VisibleType, AfterType DEF UnlockRows
    <3> HIDE DEF t
    <3>2. /\ Released(t, a).now = t.now
          /\ Released(t, a).del = t.del
          /\ Released(t, a).released = t.released \cup {a}
      BY <3>1 DEF Released, Txns
    <3>3. DeletesJustified(txn[s], clock)  BY <1>9 DEF PurgeInv, UnlockRows
    <3>4. DeletesJustified(Released(t, a), clock)
      BY <3>1, <3>2, <3>3 DEF DeletesJustified
    <3>5. QED  BY <1>9, <2>1, <3>4, PurgeKept DEF TypeOK
  <2>2. QED  BY <1>9, <1>0, <2>1 DEF UnlockRows
<1>10. ASSUME NEW s \in Sessions, NEW a \in Auths, AddAuth(s, a)  PROVE PurgeInv'
  <2>1. CASE Undo(s)  BY <2>1, <1>0
  <2>2. CASE ~Undo(s)
    <3>1. txn[s] \in Txns  BY <1>10, VisibleType DEF AddAuth
    <3> DEFINE t == [txn[s] EXCEPT !.tokens = @ \cup {a}]
    <3>2. t.del = txn[s].del /\ t.now = txn[s].now /\ t.released = txn[s].released
      BY <3>1 DEF Txns
    <3>3. txn' = [txn EXCEPT ![s] = t] /\ clock' = clock  BY <1>10, <2>2 DEF AddAuth
    <3> HIDE DEF t
    <3>4. QED  BY <1>10, <3>2, <3>3, PurgeKept DEF TypeOK, AddAuth
  <2>3. QED  BY <2>1, <2>2
<1>11. ASSUME NEW s \in Sessions, NEW r \in Rows, UpdateRow(s, r)  PROVE PurgeInv'
  <2>1. CASE Undo(s)  BY <2>1, <1>0
  <2>2. CASE ~Undo(s)
    <3>1. txn[s] \in Txns  BY <1>11, VisibleType DEF UpdateRow
    <3> DEFINE t == [txn[s] EXCEPT !.wrote = @ \cup {r}, !.looked = @ \/ trigger]
    <3>2. t.del = txn[s].del /\ t.now = txn[s].now /\ t.released = txn[s].released
      BY <3>1 DEF Txns
    <3>3. txn' = [txn EXCEPT ![s] = t] /\ clock' = clock
      BY <1>11, <2>2 DEF UpdateRow, TypeOK
    <3> HIDE DEF t
    <3>4. QED  BY <1>11, <3>2, <3>3, PurgeKept DEF TypeOK, UpdateRow
  <2>3. QED  BY <2>1, <2>2
<1>12. ASSUME NEW s \in Sessions, NEW r \in Rows, NEW a \in Auths, NEW e \in Times,
              LockRow(s, r, a, e)
       PROVE PurgeInv'
  <2> DEFINE old == {l \in Visible(s) : Expired(l, txn[s].now)}
             new == IF Held(s, r) = {} THEN {NewLock(s, r, a, e)} ELSE {}
             t   == After(txn[s], old, new)
  <2>1. CASE txn' = [txn EXCEPT ![s] = t] /\ clock' = clock
    <3>1. /\ new \in SUBSET Locks
          /\ old \in SUBSET Locks
          /\ txn[s] \in Txns
      BY <1>12, NewLockType, VisibleType DEF LockRow
    <3>2. \A l \in old : Expired(l, txn[s].now)  OBVIOUS
    <3> HIDE DEF old, new
    <3>3. /\ t.now = txn[s].now
          /\ t.released = txn[s].released
          /\ t.del \subseteq txn[s].del \cup old
      BY <3>1, AfterType
    <3> HIDE DEF t
    <3>4. DeletesJustified(txn[s], clock)  BY <1>12 DEF PurgeInv, LockRow
    <3>5. DeletesJustified(t, clock)  BY <3>2, <3>3, <3>4 DEF DeletesJustified
    <3>6. QED  BY <1>12, <2>1, <3>5, PurgeKept DEF TypeOK
  <2>2. QED  BY <1>12, <1>0, <2>1 DEF LockRow
<1>13. CASE UNCHANGED vars
  BY <1>13, PurgeKept DEF vars
<1>14. QED
  BY <1>1, <1>2, <1>3, <1>4, <1>5, <1>6, <1>7, <1>8, <1>9, <1>10, <1>11, <1>12,
     <1>13 DEF Next

\* The steps that change the locks in force.
LEMMA LocksChange ==
  ASSUME Next
  PROVE  \/ Tick \/ DisableLongTransactions \/ \E s \in Sessions : Commit(s)
         \/ UNCHANGED <<isolation, clock, locks>>
<1>1. CASE CheckAuth \/ EnableLongTransactions
  BY <1>1 DEF CheckAuth, EnableLongTransactions
<1>2. ASSUME NEW s \in Sessions, Begin(s) \/ Rollback(s) \/ Disconnect(s)
      PROVE  UNCHANGED <<isolation, clock, locks>>
  BY <1>2 DEF Begin, Rollback, Undo, Disconnect
<1>3. ASSUME NEW s \in Sessions, NEW a \in Auths, UnlockRows(s, a) \/ AddAuth(s, a)
      PROVE  UNCHANGED <<isolation, clock, locks>>
  BY <1>3 DEF UnlockRows, AddAuth, Undo
<1>4. ASSUME NEW s \in Sessions, NEW r \in Rows, UpdateRow(s, r)
      PROVE  UNCHANGED <<isolation, clock, locks>>
  BY <1>4 DEF UpdateRow, Undo
<1>5. ASSUME NEW s \in Sessions, NEW r \in Rows, NEW a \in Auths, NEW e \in Times,
             LockRow(s, r, a, e)
      PROVE  UNCHANGED <<isolation, clock, locks>>
  BY <1>5 DEF LockRow, Undo
<1>6. QED  BY <1>1, <1>2, <1>3, <1>4, <1>5 DEF Next

\* No step removes a lock in force unless its token was released, or long
\* transactions are disabled: LocksOutlivePurges, at every isolation level.
THEOREM PurgeTakesExpired == Spec => LocksOutlivePurges
<1> DEFINE Taken(l) == \/ ~enabled'
                       \/ \E s \in Sessions : Active(s) /\ ~Active(s)' /\
                                               l.authid \in txn[s].released
           Step == \A l \in locks \ locks' : InForce(l) => Taken(l)
<1>1. Init => PurgeInv  BY DEF Init, PurgeInv, Active
<1>2. Spec => []PurgeInv
  BY <1>1, TypeCorrect, PurgeStep, PTL DEF Spec
<1>3. TypeOK /\ PurgeInv /\ [Next]_vars => [Step]_vars
  <2> SUFFICES ASSUME TypeOK, PurgeInv, [Next]_vars,
                      NEW l \in locks \ locks', InForce(l)
               PROVE  Taken(l)
    OBVIOUS
  <2>1. CASE DisableLongTransactions
    BY <2>1 DEF DisableLongTransactions
  <2>2. CASE \E s \in Sessions : Commit(s)
    <3>1. PICK s \in Sessions : Commit(s)  BY <2>2
    <3>2. txn[s] \in Txns  BY <3>1, VisibleType DEF Commit
    <3>3. l \in txn[s].del  BY <3>1 DEF Commit
    <3>4. DeletesJustified(txn[s], clock)  BY <3>1 DEF PurgeInv, Commit
    <3>5. /\ txn[s].now \in Nat
          /\ clock \in Nat
          /\ l.expires \in Nat
      BY <3>2, <3>3, LongXactAssumption DEF TypeOK, Txns, Times, Locks
    <3>6. l.authid \in txn[s].released
      BY <3>3, <3>4, <3>5 DEF DeletesJustified, Expired, InForce
    <3>7. Active(s) /\ ~Active(s)'  BY <3>1 DEF Commit, Active
    <3>8. QED  BY <3>6, <3>7
  <2>3. CASE locks' = locks
    BY <2>3
  <2>4. CASE Tick  BY <2>3, <2>4 DEF Tick
  <2>5. QED
    BY <2>1, <2>2, <2>3, <2>4, LocksChange DEF vars
<1>4. QED
  BY <1>2, <1>3, TypeCorrect, PTL DEF Spec, LocksOutlivePurges

-----------------------------------------------------------------------------
(* Updates of a locked row, where every statement sees the latest locks.    *)
(* A token with the identifier of the running transaction is one that this  *)
(* transaction added: no later transaction gets the identifier again.       *)

Older(table, xid) == \A x \in Xids, a \in Auths : <<x, a>> \in table.has => x < xid

OwnTokens(t, table) ==
  /\ Older(t.old, t.xid)
  /\ \A a \in Auths : <<t.xid, a>> \in table.has => a \in t.tokens

TokenInv ==
  \A s \in Sessions :
    /\ Older(temp[s], nextXid)
    /\ Active(s) => txn[s].xid < nextXid /\ OwnTokens(txn[s], temp[s])

\* The fields that the calls leave alone.
SameTokens(t, u) == t.xid = u.xid /\ t.old = u.old /\ t.tokens = u.tokens

LEMMA SameTokensAfter ==
  ASSUME NEW t \in Txns
  PROVE  /\ \A held, new : SameTokens(After(t, held, new), t)
         /\ \A a : SameTokens(Released(t, a), t)
         /\ \A u : SameTokens(Met(t, u), t)
         /\ SameTokens([t EXCEPT !.snap = {}], t)
<1>1. ASSUME NEW held, NEW new  PROVE SameTokens(After(t, held, new), t)
  BY DEF SameTokens, After, Txns
<1>2. ASSUME NEW a  PROVE SameTokens(Released(t, a), t)
  BY DEF SameTokens, Released, Txns
<1>3. ASSUME NEW u  PROVE SameTokens(Met(t, u), t)
  <2> DEFINE R == t.rivals \cup {[looked |-> u.looked, changed |-> Changed(u)]}
  <2>1. Met(t, u) = IF isolation = "serializable" THEN [t EXCEPT !.rivals = R] ELSE t
    BY DEF Met
  <2> HIDE DEF R
  <2>2. QED  BY <2>1 DEF SameTokens, Txns
<1>4. SameTokens([t EXCEPT !.snap = {}], t)  BY DEF SameTokens, Txns
<1>5. QED  BY <1>1, <1>2, <1>3, <1>4

\* A step that neither begins a transaction nor touches a temporary table.
LEMMA TokenKept ==
  ASSUME TokenInv, UNCHANGED <<nextXid, temp>>,
         \A p \in Sessions : Active(p)' => Active(p) /\ SameTokens(txn'[p], txn[p])
  PROVE  TokenInv'
  BY DEF TokenInv, SameTokens, OwnTokens, Older

\* A step that leaves every session but s alone.
LEMMA TokenKeptBut ==
  ASSUME TypeOK, TokenInv, NEW s \in Sessions, NEW t, NEW table,
         txn' = [txn EXCEPT ![s] = t],
         temp' = [temp EXCEPT ![s] = table],
         UNCHANGED nextXid,
         Older(table, nextXid),
         t # NoTxn => t.xid < nextXid /\ OwnTokens(t, table)
  PROVE  TokenInv'
<1>1. SUFFICES ASSUME NEW p \in Sessions
               PROVE  /\ Older(temp'[p], nextXid)
                      /\ txn'[p] # NoTxn => txn'[p].xid < nextXid /\ OwnTokens(txn'[p], temp'[p])
  BY DEF TokenInv, Active
<1>2. CASE p = s
  <2>1. txn'[p] = t /\ temp'[p] = table  BY <1>2 DEF TypeOK
  <2>2. QED  BY <2>1
<1>3. CASE p # s
  <2>1. txn'[p] = txn[p] /\ temp'[p] = temp[p]  BY <1>3 DEF TypeOK
  <2>2. QED  BY <2>1 DEF TokenInv, Active
<1>4. QED  BY <1>2, <1>3

LEMMA CountsAreNat ==
  ASSUME TypeOK
  PROVE  /\ nextXid \in Nat /\ clock \in Nat
         /\ Xids \subseteq Nat /\ Times \subseteq Nat
  BY LongXactAssumption DEF TypeOK, Xids, Times

LEMMA OlderYet ==
  ASSUME TypeOK, NEW table, NEW x \in Nat, NEW y \in Nat, x <= y, Older(table, x)
  PROVE  Older(table, y)
<1>1. SUFFICES ASSUME NEW z \in Xids, NEW a \in Auths, <<z, a>> \in table.has
               PROVE  z < y
  BY DEF Older
<1>2. z \in Nat /\ z < x  BY <1>1, CountsAreNat DEF Older
<1>3. QED  BY <1>2

LEMMA UndoTokens ==
  ASSUME TypeOK, TokenInv, NEW s \in Sessions, Active(s), Undo(s)
  PROVE  TokenInv'
<1>1. txn[s] \in Txns  BY VisibleType
<1>2. txn[s].xid \in Nat /\ nextXid \in Nat  BY <1>1, CountsAreNat DEF Txns
<1>3. txn[s].xid < nextXid /\ Older(txn[s].old, txn[s].xid)
  BY DEF TokenInv, OwnTokens
<1>4. Older(txn[s].old, nextXid)  BY <1>2, <1>3, OlderYet
<1>5. QED  BY <1>4, TokenKeptBut DEF Undo

LEMMA TokenStep == TypeOK /\ TokenInv /\ [Next]_vars => TokenInv'
<1> SUFFICES ASSUME TypeOK, TokenInv, [Next]_vars  PROVE TokenInv'
  OBVIOUS
<1>0. ASSUME NEW s \in Sessions, Active(s), Undo(s)  PROVE TokenInv'
  BY <1>0, UndoTokens
<1>1. ASSUME UNCHANGED <<nextXid, temp, txn>>  PROVE TokenInv'
  BY <1>1 DEF TokenInv, Active
<1>2. CASE Tick  BY <1>1, <1>2 DEF Tick
<1>3. CASE CheckAuth  BY <1>1, <1>3 DEF CheckAuth
<1>4. CASE EnableLongTransactions  BY <1>1, <1>4 DEF EnableLongTransactions
<1>5. CASE DisableLongTransactions
  <2>1. \A p \in Sessions : Active(p)' => Active(p) /\ SameTokens(txn'[p], txn[p])
    BY <1>5, SameTokensAfter, VisibleType DEF DisableLongTransactions, Active
  <2>2. QED  BY <1>5, <2>1, TokenKept DEF DisableLongTransactions
<1>6. ASSUME NEW s \in Sessions, Begin(s)  PROVE TokenInv'
  <2> DEFINE t == NewTxn(s)
  <2>1. t.xid = nextXid /\ t.old = temp[s]  BY DEF NewTxn
  <2>2. nextXid \in Nat /\ nextXid' = nextXid + 1 /\ nextXid < nextXid + 1
    BY <1>6, CountsAreNat DEF Begin
  <2>3. \A p \in Sessions : Older(temp[p], nextXid)  BY DEF TokenInv
  <2>4. OwnTokens(t, temp[s])
    <3>1. ~(nextXid < nextXid)  BY <2>2
    <3>2. nextXid \in Xids  BY <1>6, LongXactAssumption DEF Begin, TypeOK, Xids
    <3> HIDE DEF t
    <3>3. QED  BY <2>1, <2>3, <3>1, <3>2 DEF OwnTokens, Older
  <2>5. \A p \in Sessions : Older(temp[p], nextXid')
    <3>1. nextXid + 1 \in Nat /\ nextXid <= nextXid + 1  BY <2>2
    <3>2. QED  BY <2>2, <2>3, <3>1, OlderYet
  <2> HIDE DEF t
  <2>6. ASSUME NEW p \in Sessions, Active(p)'
        PROVE  txn'[p].xid < nextXid' /\ OwnTokens(txn'[p], temp[p])
    <3>1. CASE p = s
      <4>1. txn'[p] = t  BY <1>6, <3>1 DEF Begin, TypeOK, t
      <4>2. QED  BY <2>1, <2>2, <2>4, <3>1, <4>1
    <3>2. CASE p # s
      <4>1. txn'[p] = txn[p] /\ Active(p)  BY <1>6, <2>6, <3>2 DEF Begin, TypeOK, Active
      <4>2. txn[p].xid \in Nat  BY <4>1, VisibleType, CountsAreNat DEF Txns
      <4>3. txn[p].xid < nextXid /\ OwnTokens(txn[p], temp[p])  BY <4>1 DEF TokenInv
      <4>4. txn[p].xid < nextXid'  BY <2>2, <4>2, <4>3
      <4>5. QED  BY <4>1, <4>3, <4>4
    <3>3. QED  BY <3>1, <3>2
  <2>7. temp' = temp  BY <1>6 DEF Begin
  <2>8. QED  BY <2>5, <2>6, <2>7 DEF TokenInv
<1>7. ASSUME NEW s \in Sessions, Commit(s)  PROVE TokenInv'
  <2>1. \A p \in Sessions : Active(p)' => Active(p) /\ SameTokens(txn'[p], txn[p])
    BY <1>7, SameTokensAfter, VisibleType DEF Commit, Active
  <2>2. QED  BY <1>7, <2>1, TokenKept DEF Commit
<1>8. ASSUME NEW s \in Sessions, Rollback(s)  PROVE TokenInv'
  BY <1>0, <1>8 DEF Rollback
<1>9. ASSUME NEW s \in Sessions, Disconnect(s)  PROVE TokenInv'
  <2>1. Older(NoTable, nextXid)  BY DEF Older, NoTable
  <2>2. txn[s] = NoTxn  BY <1>9 DEF Disconnect, Active
  <2>3. txn' = [txn EXCEPT ![s] = NoTxn]  BY <1>9, <2>2 DEF Disconnect, TypeOK
  <2>4. QED  BY <1>9, <2>1, <2>3, TokenKeptBut DEF Disconnect
<1>10. ASSUME NEW s \in Sessions, Active(s), NEW t,
              txn' = [txn EXCEPT ![s] = t], SameTokens(t, txn[s]),
              UNCHANGED <<nextXid, temp>>
       PROVE  TokenInv'
  <2>1. \A p \in Sessions : Active(p)' => Active(p) /\ SameTokens(txn'[p], txn[p])
    BY <1>10 DEF TypeOK, Active, SameTokens
  <2>2. QED  BY <1>10, <2>1, TokenKept
<1>11. ASSUME NEW s \in Sessions, NEW a \in Auths, UnlockRows(s, a)  PROVE TokenInv'
  <2> DEFINE mine == {l \in Visible(s) : l.authid = a}
             t    == After(txn[s], mine, {})
  <2>1. CASE Undo(s)  BY <1>0, <1>11, <2>1 DEF UnlockRows
  <2>2. CASE ~Undo(s)
    <3>1. /\ Active(s) /\ txn' = [txn EXCEPT ![s] = Released(t, a)]
          /\ UNCHANGED <<nextXid, temp>>
      BY <1>11, <2>2 DEF UnlockRows
    <3>2. t \in Txns /\ SameTokens(t, txn[s])
      BY <3>1, VisibleType, AfterType, SameTokensAfter
    <3> HIDE DEF t
    <3>3. SameTokens(Released(t, a), t)  BY <3>2, SameTokensAfter
    <3>4. SameTokens(Released(t, a), txn[s])  BY <3>2, <3>3 DEF SameTokens
    <3>5. QED  BY <1>10, <3>1, <3>4
  <2>3. QED  BY <2>1, <2>2
<1>12. ASSUME NEW s \in Sessions, NEW a \in Auths, AddAuth(s, a)  PROVE TokenInv'
  <2>1. CASE Undo(s)  BY <1>0, <1>12, <2>1 DEF AddAuth
  <2>2. CASE ~Undo(s)
    <3> DEFINE t     == [txn[s] EXCEPT !.tokens = @ \cup {a}]
               table == [made |-> TRUE, has |-> temp[s].has \cup {<<txn[s].xid, a>>}]
    <3>1. /\ Active(s)
          /\ txn' = [txn EXCEPT ![s] = t] /\ temp' = [temp EXCEPT ![s] = table]
          /\ UNCHANGED nextXid
      BY <1>12, <2>2 DEF AddAuth
    <3>2. txn[s] \in Txns  BY <3>1, VisibleType
    <3>3. t.xid = txn[s].xid /\ t.old = txn[s].old /\ t.tokens = txn[s].tokens \cup {a}
      BY <3>2 DEF Txns
    <3>4. table.has = temp[s].has \cup {<<txn[s].xid, a>>}  OBVIOUS
    <3>5. /\ Older(temp[s], nextXid) /\ txn[s].xid < nextXid
          /\ OwnTokens(txn[s], temp[s])
      BY <3>1 DEF TokenInv
    <3> HIDE DEF t, table
    <3>6. Older(table, nextXid)
      BY <3>4, <3>5 DEF Older
    <3>7. OwnTokens(t, table)
      BY <3>3, <3>4, <3>5 DEF OwnTokens
    <3>8. QED  BY <3>1, <3>3, <3>5, <3>6, <3>7, TokenKeptBut
  <2>3. QED  BY <2>1, <2>2
<1>13. ASSUME NEW s \in Sessions, NEW r \in Rows, UpdateRow(s, r)  PROVE TokenInv'
  <2>1. CASE Undo(s)  BY <1>0, <1>13, <2>1 DEF UpdateRow
  <2>2. CASE ~Undo(s)
    <3> DEFINE t == [txn[s] EXCEPT !.wrote = @ \cup {r}, !.looked = @ \/ trigger]
    <3>1. Active(s) /\ txn' = [txn EXCEPT ![s] = t] /\ UNCHANGED <<nextXid, temp>>
      BY <1>13, <2>2 DEF UpdateRow, TypeOK
    <3>2. SameTokens(t, txn[s])  BY <3>1, VisibleType DEF SameTokens, Txns
    <3> HIDE DEF t
    <3>3. QED  BY <1>10, <3>1, <3>2
  <2>3. QED  BY <2>1, <2>2
<1>14. ASSUME NEW s \in Sessions, NEW r \in Rows, NEW a \in Auths, NEW e \in Times,
              LockRow(s, r, a, e)
       PROVE TokenInv'
  <2> DEFINE old == {l \in Visible(s) : Expired(l, txn[s].now)}
             new == IF Held(s, r) = {} THEN {NewLock(s, r, a, e)} ELSE {}
             t   == After(txn[s], old, new)
  <2>1. CASE Undo(s)  BY <1>0, <1>14, <2>1 DEF LockRow
  <2>2. CASE ~Undo(s)
    <3>1. Active(s) /\ txn' = [txn EXCEPT ![s] = t] /\ UNCHANGED <<nextXid, temp>>
      BY <1>14, <2>2 DEF LockRow
    <3> HIDE DEF old, new
    <3>2. SameTokens(t, txn[s])  BY <3>1, VisibleType, SameTokensAfter
    <3> HIDE DEF t
    <3>3. QED  BY <1>10, <3>1, <3>2
  <2>3. QED  BY <2>1, <2>2
<1>15. CASE UNCHANGED vars  BY <1>1, <1>15 DEF vars
<1>16. QED
  BY <1>2, <1>3, <1>4, <1>5, <1>6, <1>7, <1>8, <1>9, <1>11, <1>12, <1>13, <1>14,
     <1>15 DEF Next

\* The fields that tell of the rows that a transaction updated.
LEMMA WroteAfter ==
  ASSUME NEW t \in Txns
  PROVE  /\ \A held, new : After(t, held, new).wrote = t.wrote
         /\ \A a : Released(t, a).wrote = t.wrote
         /\ \A u : Met(t, u).wrote = t.wrote
         /\ [t EXCEPT !.snap = {}].wrote = t.wrote
<1>1. ASSUME NEW held, NEW new  PROVE After(t, held, new).wrote = t.wrote
  BY DEF After, Txns
<1>2. ASSUME NEW a  PROVE Released(t, a).wrote = t.wrote
  BY DEF Released, Txns
<1>3. ASSUME NEW u  PROVE Met(t, u).wrote = t.wrote
  <2> DEFINE R == t.rivals \cup {[looked |-> u.looked, changed |-> Changed(u)]}
  <2>1. Met(t, u) = IF isolation = "serializable" THEN [t EXCEPT !.rivals = R] ELSE t
    BY DEF Met
  <2> HIDE DEF R
  <2>2. QED  BY <2>1 DEF Txns
<1>4. [t EXCEPT !.snap = {}].wrote = t.wrote  BY DEF Txns
<1>5. QED  BY <1>1, <1>2, <1>3, <1>4

\* Only an UPDATE of the row adds it to what a running transaction wrote.
LEMMA OnlyUpdateWrites ==
  ASSUME TypeOK, [Next]_vars, NEW s \in Sessions, NEW r \in Rows,
         Active(s), Active(s)', r \in txn'[s].wrote \ txn[s].wrote
  PROVE  /\ txn[s] \in Txns
         /\ trigger => check_authorization(s, r)
<1>1. txn[s] \in Txns  BY VisibleType
<1>2. txn'[s].wrote # txn[s].wrote  OBVIOUS
<1>3. ASSUME NEW p \in Sessions, Undo(p)  PROVE FALSE
  <2>1. p = s => txn'[s] = NoTxn  BY <1>3 DEF Undo, TypeOK
  <2>2. p # s => txn'[s] = txn[s]  BY <1>3 DEF Undo, TypeOK
  <2>3. QED  BY <1>2, <2>1, <2>2 DEF Active
<1>4. ASSUME NEW p \in Sessions, Active(p), NEW t, txn' = [txn EXCEPT ![p] = t],
             t.wrote = txn[p].wrote
      PROVE  FALSE
  <2>1. txn'[s].wrote = txn[s].wrote  BY <1>4 DEF TypeOK
  <2>2. QED  BY <1>2, <2>1
<1>5. txn' # txn  BY <1>2
<1>6. ASSUME DisableLongTransactions  PROVE FALSE
  BY <1>1, <1>2, <1>6, WroteAfter DEF DisableLongTransactions, Active
<1>7. ASSUME NEW p \in Sessions, Begin(p)  PROVE FALSE
  <2>1. p # s  BY <1>7 DEF Begin
  <2>2. txn'[s] = txn[s]  BY <1>7, <2>1 DEF Begin, TypeOK
  <2>3. QED  BY <1>2, <2>2
<1>8. ASSUME NEW p \in Sessions, Commit(p)  PROVE FALSE
  BY <1>1, <1>2, <1>8, WroteAfter DEF Commit, Active
<1>9. ASSUME NEW p \in Sessions, NEW a \in Auths, UnlockRows(p, a)  PROVE FALSE
  <2> DEFINE mine == {l \in Visible(p) : l.authid = a}
             t    == After(txn[p], mine, {})
  <2>1. Active(p) /\ txn[p] \in Txns /\ mine \in SUBSET Locks
    BY <1>9, VisibleType DEF UnlockRows
  <2>2. txn' = [txn EXCEPT ![p] = Released(t, a)]
    BY <1>3, <1>9 DEF UnlockRows
  <2> HIDE DEF mine
  <2>3. t \in Txns /\ t.wrote = txn[p].wrote
    <3>1. {} \in SUBSET Locks  OBVIOUS
    <3>2. t \in Txns  BY <2>1, <3>1, AfterType
    <3>3. t.wrote = txn[p].wrote  BY <2>1, WroteAfter
    <3>4. QED  BY <3>2, <3>3
  <2> HIDE DEF t
  <2>4. Released(t, a).wrote = txn[p].wrote  BY <2>3, WroteAfter
  <2>5. QED  BY <1>4, <2>1, <2>2, <2>4
<1>10. ASSUME NEW p \in Sessions, NEW a \in Auths, AddAuth(p, a)  PROVE FALSE
  <2> DEFINE t == [txn[p] EXCEPT !.tokens = @ \cup {a}]
  <2>1. Active(p) /\ txn[p] \in Txns  BY <1>10, VisibleType DEF AddAuth
  <2>2. txn' = [txn EXCEPT ![p] = t]  BY <1>3, <1>10 DEF AddAuth
  <2>3. t.wrote = txn[p].wrote  BY <2>1 DEF Txns
  <2> HIDE DEF t
  <2>4. QED  BY <1>4, <2>1, <2>2, <2>3
<1>11. ASSUME NEW p \in Sessions, NEW q \in Rows, NEW a \in Auths, NEW e \in Times,
              LockRow(p, q, a, e)
       PROVE FALSE
  <2> DEFINE old == {l \in Visible(p) : Expired(l, txn[p].now)}
             new == IF Held(p, q) = {} THEN {NewLock(p, q, a, e)} ELSE {}
             t   == After(txn[p], old, new)
  <2>1. Active(p) /\ txn[p] \in Txns  BY <1>11, VisibleType DEF LockRow
  <2>2. txn' = [txn EXCEPT ![p] = t]  BY <1>3, <1>11 DEF LockRow
  <2> HIDE DEF old, new
  <2>3. t.wrote = txn[p].wrote  BY <2>1, WroteAfter
  <2> HIDE DEF t
  <2>4. QED  BY <1>4, <2>1, <2>2, <2>3
<1>12. ASSUME NEW p \in Sessions, NEW q \in Rows, UpdateRow(p, q)
       PROVE  trigger => check_authorization(s, r)
  <2> DEFINE t == [txn[p] EXCEPT !.wrote = @ \cup {q}, !.looked = @ \/ trigger]
  <2>1. /\ Active(p) /\ txn[p] \in Txns
        /\ txn' = [txn EXCEPT ![p] = t]
        /\ trigger => check_authorization(p, q)
    BY <1>3, <1>12, VisibleType DEF UpdateRow, TypeOK
  <2>2. t.wrote = txn[p].wrote \cup {q}  BY <2>1 DEF Txns
  <2> HIDE DEF t
  <2>3. p = s
    <3>1. p # s => txn'[s] = txn[s]  BY <2>1 DEF TypeOK
    <3>2. QED  BY <1>2, <3>1
  <2>4. txn'[s] = t  BY <2>1, <2>3 DEF TypeOK
  <2>5. r = q  BY <2>2, <2>3, <2>4
  <2>6. QED  BY <2>1, <2>3, <2>5
<1>13. ~Tick /\ ~CheckAuth /\ ~EnableLongTransactions /\ ~UNCHANGED vars
  BY <1>5 DEF Tick, CheckAuth, EnableLongTransactions, vars
<1>14. ASSUME NEW p \in Sessions, Rollback(p) \/ Disconnect(p)  PROVE FALSE
  BY <1>3, <1>5, <1>14 DEF Rollback, Disconnect
<1>15. \E p \in Sessions, q \in Rows : UpdateRow(p, q)
  BY <1>6, <1>7, <1>8, <1>9, <1>10, <1>11, <1>13, <1>14 DEF Next
<1>16. QED  BY <1>1, <1>12, <1>15

\* Where every statement sees what is committed when it runs, an UPDATE of a row
\* with a lock in force goes through only with the token of a lock on that row,
\* added or released in the same transaction: FreshUpdatesAuthorized.
THEOREM FreshUpdates == Spec => FreshUpdatesAuthorized
<1> DEFINE Step == \A s \in Sessions, r \in Rows :
                     Latest /\ UpdatesLocked(s, r) => HoldsToken(s, r)
<1>1. Init => PurgeInv /\ TokenInv
  <2>1. Init => PurgeInv  BY DEF Init, PurgeInv, Active
  <2>2. Init => TokenInv  BY DEF Init, TokenInv, Active, Older, NoTable
  <2>3. QED  BY <2>1, <2>2
<1>2. Spec => [](PurgeInv /\ TokenInv)
  BY <1>1, TypeCorrect, PurgeStep, TokenStep, PTL DEF Spec
<1>3. TypeOK /\ PurgeInv /\ TokenInv /\ [Next]_vars => [Step]_vars
  <2> SUFFICES ASSUME TypeOK, PurgeInv, TokenInv, [Next]_vars,
                      NEW s \in Sessions, NEW r \in Rows, Latest, UpdatesLocked(s, r)
               PROVE  HoldsToken(s, r)
    OBVIOUS
  <2>1. /\ Active(s) /\ trigger
        /\ txn[s] \in Txns
        /\ check_authorization(s, r)
    BY OnlyUpdateWrites DEF UpdatesLocked
  <2>2. PICK l \in locks : l.rid = r /\ InForce(l)  BY DEF UpdatesLocked
  <2>3. CASE l \in txn[s].del
    <3>1. DeletesJustified(txn[s], clock)  BY <2>1 DEF PurgeInv
    <3>2. txn[s].now \in Nat /\ clock \in Nat /\ l.expires \in Nat
      BY <2>1, CountsAreNat DEF Txns, TypeOK, Locks
    <3>3. l.authid \in txn[s].released
      BY <2>2, <2>3, <3>1, <3>2 DEF DeletesJustified, Expired, InForce
    <3>4. QED  BY <2>2, <3>3 DEF HoldsToken
  <2>4. CASE l \notin txn[s].del
    <3>1. l \in Visible(s)  BY <2>4 DEF Visible
    <3>2. ~Expired(l, txn[s].now)
      <4>1. DeletesJustified(txn[s], clock)  BY <2>1 DEF PurgeInv
      <4>2. txn[s].now \in Nat /\ clock \in Nat /\ l.expires \in Nat
        BY <2>1, CountsAreNat DEF Txns, TypeOK, Locks
      <4>3. QED  BY <2>2, <4>1, <4>2 DEF DeletesJustified, Expired, InForce
    <3>3. l \in Held(s, r)  BY <2>2, <3>1, <3>2 DEF Held
    <3>4. PICK m \in Held(s, r) : Authorized(s, m)
      BY <2>1, <3>3 DEF check_authorization
    <3>5. m \in locks \cup txn[s].ins /\ m.rid = r /\ m.authid \in Auths
      <4>1. m \in Visible(s) /\ m.rid = r  BY DEF Held
      <4>2. Visible(s) \in SUBSET Locks  BY <2>1, VisibleType
      <4>3. QED  BY <4>1, <4>2 DEF Visible, Locks
    <3>6. <<txn[s].xid, m.authid>> \in temp[s].has
      BY <3>4 DEF Authorized, HasAuth
    <3>7. m.authid \in txn[s].tokens
      BY <2>1, <3>5, <3>6 DEF TokenInv, OwnTokens
    <3>8. QED  BY <3>5, <3>7 DEF HoldsToken
  <2>5. QED  BY <2>3, <2>4
<1>4. QED
  BY <1>2, <1>3, TypeCorrect, PTL DEF Spec, FreshUpdatesAuthorized

-----------------------------------------------------------------------------
(* One token holds a row, at the level the manual asks for.  A transaction  *)
(* that adds a lock has read the locks, so that one which committed since   *)
(* its snapshot and added a lock too leaves it with a rival, and it cannot  *)
(* commit; without such a rival its snapshot still holds every lock.        *)

\* Two locks that may stand side by side.
Compatible(l, m, time) ==
  l.rid = m.rid => l.authid = m.authid \/ Expired(l, time) \/ Expired(m, time)

\* What holds of a running transaction t when L are the committed locks and n
\* the next transaction identifier.
SerialOK(t, L, n) ==
  /\ t.xid < n
  /\ \A l \in t.snap : l.xid < t.xid
  /\ \A l \in t.ins : l.xid = t.xid
  /\ t.del \subseteq t.snap
  /\ Changed(t) => t.looked
  /\ L \subseteq t.snap \/ \E rival \in t.rivals : rival.looked /\ rival.changed
  /\ \A l \in t.ins, m \in (t.snap \ t.del) \cup t.ins : Compatible(l, m, t.now)

SerialInv ==
  isolation = "serializable" =>
    /\ \A l \in locks : l.xid < nextXid
    /\ \A s \in Sessions : Active(s) => SerialOK(txn[s], locks, nextXid)

\* Fields that a step may leave alone.
SameLocks(t, u) ==
  /\ t.xid = u.xid /\ t.snap = u.snap /\ t.ins = u.ins /\ t.del = u.del
  /\ t.now = u.now /\ t.rivals = u.rivals
  /\ u.looked => t.looked

LEMMA SameLocksSerial ==
  ASSUME NEW t, NEW u, NEW L, NEW n, SameLocks(t, u), SerialOK(u, L, n)
  PROVE  SerialOK(t, L, n)
  BY DEF SameLocks, SerialOK, Changed

\* A purge or a release of rows it sees, and the insertion of new.
LEMMA SerialAfter ==
  ASSUME NEW t \in Txns, NEW L, NEW n, SerialOK(t, L, n),
         NEW held \in SUBSET ((t.snap \cup t.ins) \ t.del), NEW new,
         \A l \in new :
           /\ l.xid = t.xid
           /\ \A m \in (t.snap \cup t.ins) \ t.del : l.rid = m.rid => Expired(m, t.now)
           /\ \A m \in new : l = m
  PROVE  SerialOK(After(t, held, new), L, n)
<1> DEFINE u == After(t, held, new)
<1>1. /\ u.xid = t.xid /\ u.snap = t.snap /\ u.now = t.now /\ u.rivals = t.rivals
      /\ u.ins = (t.ins \ held) \cup new
      /\ u.del = t.del \cup (held \ t.ins)
      /\ u.looked = TRUE
  BY DEF After, Txns
<1>2. t.xid \in Nat  BY LongXactAssumption DEF Txns, Xids
<1>3. \A l \in t.ins : l \notin t.snap
  BY <1>2 DEF SerialOK
<1>4. ASSUME NEW l \in u.ins, NEW m \in (u.snap \ u.del) \cup u.ins
      PROVE  Compatible(l, m, t.now)
  <2>1. m \in new \/ m \in (t.snap \cup t.ins) \ t.del
    BY <1>1, <1>3 DEF SerialOK
  <2>2. l \in new \/ l \in t.ins \ t.del
    BY <1>1, <1>3 DEF SerialOK
  <2>3. CASE l \in new /\ m \in new
    BY <2>3 DEF Compatible
  <2>4. CASE l \in new /\ m \notin new
    BY <2>1, <2>4 DEF Compatible
  <2>5. CASE l \notin new /\ m \in new
    BY <2>2, <2>5 DEF Compatible
  <2>6. CASE l \notin new /\ m \notin new
    <3>1. l \in t.ins /\ m \in (t.snap \ t.del) \cup t.ins  BY <2>1, <2>2, <2>6
    <3>2. QED  BY <3>1 DEF SerialOK
  <2>7. QED  BY <2>3, <2>4, <2>5, <2>6
<1>5. u.del \subseteq u.snap  BY <1>1 DEF SerialOK
<1>6. \A l \in u.ins : l.xid = u.xid  BY <1>1 DEF SerialOK
<1> HIDE DEF u
<1>7. SerialOK(u, L, n)  BY <1>1, <1>4, <1>5, <1>6 DEF SerialOK
<1>8. QED  BY <1>7 DEF u

\* A step that leaves every session but s alone, and the locks.
LEMMA SerialKeptBut ==
  ASSUME TypeOK, SerialInv, NEW s \in Sessions, NEW t,
         txn' = [txn EXCEPT ![s] = t],
         UNCHANGED <<isolation, locks, nextXid>>,
         t # NoTxn /\ isolation = "serializable" => SerialOK(t, locks, nextXid)
  PROVE  SerialInv'
<1>1. SUFFICES ASSUME isolation = "serializable", NEW p \in Sessions, Active(p)'
               PROVE  SerialOK(txn'[p], locks, nextXid)
  BY DEF SerialInv
<1>2. CASE p = s
  <2>1. txn'[p] = t  BY <1>2 DEF TypeOK
  <2>2. QED  BY <1>1, <2>1 DEF Active
<1>3. CASE p # s
  <2>1. txn'[p] = txn[p]  BY <1>3 DEF TypeOK
  <2>2. QED  BY <1>1, <2>1 DEF SerialInv, Active
<1>4. QED  BY <1>2, <1>3

\* What a commit of t leaves true of another transaction u.
LEMMA SerialCommit ==
  ASSUME NEW t \in Txns, NEW u \in Txns, NEW L, NEW n,
         isolation = "serializable", SerialOK(t, L, n), SerialOK(u, L, n)
  PROVE  SerialOK(Met(u, t), (L \ t.del) \cup t.ins, n)
<1> DEFINE rival == [looked |-> t.looked, changed |-> Changed(t)]
           w == [u EXCEPT !.rivals = u.rivals \cup {rival}]
<1>1. Met(u, t) = w  BY DEF Met
<1> HIDE DEF rival
<1>2. /\ w.xid = u.xid /\ w.snap = u.snap /\ w.ins = u.ins /\ w.del = u.del
      /\ w.now = u.now /\ w.looked = u.looked
      /\ w.rivals = u.rivals \cup {rival}
  BY DEF Txns
<1>3. \/ (L \ t.del) \cup t.ins \subseteq w.snap
      \/ \E x \in w.rivals : x.looked /\ x.changed
  <2>1. CASE t.ins = {}
    BY <1>2, <2>1 DEF SerialOK
  <2>2. CASE t.ins # {}
    <3>1. Changed(t)  BY <2>2 DEF Changed
    <3>2. t.looked  BY <3>1 DEF SerialOK
    <3>3. rival.looked /\ rival.changed  BY <3>1, <3>2 DEF rival
    <3>4. QED  BY <1>2, <3>3
  <2>3. QED  BY <2>1, <2>2
<1> HIDE DEF w
<1>4. Changed(w) => w.looked  BY <1>2 DEF SerialOK, Changed
<1>5. SerialOK(w, (L \ t.del) \cup t.ins, n)
  BY <1>2, <1>3, <1>4 DEF SerialOK
<1>6. QED  BY <1>1, <1>5

LEMMA SerialCommitStep ==
  ASSUME TypeOK, SerialInv, NEW s \in Sessions, Commit(s)
  PROVE  SerialInv'
<1> DEFINE t == txn[s]
<1>1. /\ Active(s) /\ t \in Txns
      /\ locks' = (locks \ t.del) \cup t.ins
      /\ UNCHANGED <<isolation, nextXid>>
  BY VisibleType DEF Commit
<1>2. SUFFICES ASSUME isolation = "serializable"
               PROVE  /\ \A l \in locks' : l.xid < nextXid
                      /\ \A p \in Sessions : Active(p)' => SerialOK(txn'[p], locks', nextXid)
  BY <1>1 DEF SerialInv
<1>3. SerialOK(t, locks, nextXid)  BY <1>1, <1>2 DEF SerialInv
<1>4. \A l \in locks' : l.xid < nextXid
  BY <1>1, <1>2, <1>3 DEF SerialInv, SerialOK
<1>5. ASSUME NEW p \in Sessions, Active(p)'
      PROVE  SerialOK(txn'[p], locks', nextXid)
  <2>1. Active(p) /\ txn'[p] = Met(txn[p], t)  BY <1>5 DEF Commit, Active
  <2>2. txn[p] \in Txns /\ SerialOK(txn[p], locks, nextXid)
    BY <1>2, <2>1, VisibleType DEF SerialInv
  <2> HIDE DEF t
  <2>3. QED  BY <1>1, <1>2, <1>3, <2>1, <2>2, SerialCommit
<1>6. QED  BY <1>4, <1>5

LEMMA SerialBeginStep ==
  ASSUME TypeOK, SerialInv, NEW s \in Sessions, Begin(s)
  PROVE  SerialInv'
<1> DEFINE u == NewTxn(s)
<1>1. /\ txn' = [txn EXCEPT ![s] = u]
      /\ nextXid' = nextXid + 1
      /\ UNCHANGED <<isolation, locks>>
  BY DEF Begin
<1>2. SUFFICES ASSUME isolation = "serializable"
               PROVE  /\ \A l \in locks : l.xid < nextXid'
                      /\ \A p \in Sessions : Active(p)' => SerialOK(txn'[p], locks, nextXid')
  BY <1>1 DEF SerialInv
<1>3. nextXid \in Nat /\ Xids \subseteq Nat  BY CountsAreNat
<1>4. \A l \in locks : l.xid \in Nat  BY <1>3 DEF TypeOK, Locks
<1>5. \A l \in locks : l.xid < nextXid  BY <1>2 DEF SerialInv
<1>6. \A x \in Nat : x < nextXid => x < nextXid'
  BY <1>1, <1>3
<1>7. /\ u.xid = nextXid /\ u.snap = locks /\ u.ins = {} /\ u.del = {}
      /\ u.rivals = {}
  BY <1>2 DEF NewTxn, Latest
<1> HIDE DEF u
<1>8. nextXid < nextXid'  BY <1>1, <1>3
<1>9. SerialOK(u, locks, nextXid')
  BY <1>5, <1>7, <1>8 DEF SerialOK, Changed
<1>10. ASSUME NEW p \in Sessions, Active(p)'
       PROVE  SerialOK(txn'[p], locks, nextXid')
  <2>1. CASE p = s  BY <1>1, <1>9, <2>1 DEF TypeOK
  <2>2. CASE p # s
    <3>1. txn'[p] = txn[p] /\ Active(p)  BY <1>1, <1>10, <2>2 DEF TypeOK, Active
    <3>2. SerialOK(txn[p], locks, nextXid)  BY <1>2, <3>1 DEF SerialInv
    <3>3. txn[p].xid \in Nat  BY <1>3, <3>1, VisibleType DEF Txns
    <3>4. txn[p].xid < nextXid'  BY <1>6, <3>2, <3>3 DEF SerialOK
    <3>5. QED  BY <3>1, <3>2, <3>4 DEF SerialOK
  <2>3. QED  BY <2>1, <2>2
<1>11. QED  BY <1>4, <1>5, <1>6, <1>10

LEMMA SerialDisableStep ==
  ASSUME TypeOK, SerialInv, DisableLongTransactions
  PROVE  SerialInv'
<1>1. /\ locks' = {}
      /\ UNCHANGED <<isolation, nextXid>>
  BY DEF DisableLongTransactions
<1>2. SUFFICES ASSUME isolation = "serializable", NEW p \in Sessions, Active(p)'
               PROVE  SerialOK(txn'[p], {}, nextXid)
  BY <1>1 DEF SerialInv
<1> DEFINE t == txn[p]
           u == [t EXCEPT !.snap = {}]
<1>3. Active(p) /\ t \in Txns /\ ~t.looked /\ txn'[p] = u
  BY <1>2, VisibleType DEF DisableLongTransactions, Active
<1>4. SerialOK(t, locks, nextXid)  BY <1>2, <1>3 DEF SerialInv
<1>5. t.ins = {} /\ t.del = {}  BY <1>3, <1>4 DEF SerialOK, Changed
<1>6. /\ u.xid = t.xid /\ u.snap = {} /\ u.ins = {} /\ u.del = {}
  BY <1>3, <1>5 DEF Txns
<1> HIDE DEF u
<1>7. SerialOK(u, {}, nextXid)
  BY <1>4, <1>6 DEF SerialOK, Changed
<1>8. QED  BY <1>3, <1>7

\* In a serializable transaction, the locks it sees.
LEMMA SerialSees ==
  ASSUME isolation = "serializable", NEW s
  PROVE  Visible(s) = (txn[s].snap \cup txn[s].ins) \ txn[s].del
  BY DEF Visible, Latest

LEMMA SerialLockStep ==
  ASSUME TypeOK, SerialInv, NEW s \in Sessions, NEW r \in Rows, NEW a \in Auths,
         NEW e \in Times, LockRow(s, r, a, e), ~Undo(s)
  PROVE  SerialInv'
<1> DEFINE old == {l \in Visible(s) : Expired(l, txn[s].now)}
           new == IF Held(s, r) = {} THEN {NewLock(s, r, a, e)} ELSE {}
           t   == After(txn[s], old, new)
<1>1. /\ Active(s) /\ txn[s] \in Txns
      /\ txn' = [txn EXCEPT ![s] = t]
      /\ UNCHANGED <<isolation, locks, nextXid>>
  BY VisibleType DEF LockRow
<1>2. ASSUME isolation = "serializable"  PROVE SerialOK(t, locks, nextXid)
  <2>1. SerialOK(txn[s], locks, nextXid)  BY <1>1, <1>2 DEF SerialInv
  <2>2. Visible(s) = (txn[s].snap \cup txn[s].ins) \ txn[s].del  BY <1>2, SerialSees
  <2>3. ASSUME NEW l \in new
        PROVE  /\ l.xid = txn[s].xid
               /\ \A m \in Visible(s) : l.rid = m.rid => Expired(m, txn[s].now)
               /\ \A m \in new : l = m
    <3>1. l = NewLock(s, r, a, e) /\ Held(s, r) = {}  BY <2>3
    <3>2. l.xid = txn[s].xid /\ l.rid = r  BY <3>1 DEF NewLock
    <3>3. \A m \in Visible(s) : m.rid = r => Expired(m, txn[s].now)
      BY <3>1 DEF Held
    <3>4. \A m \in new : l = m  BY <3>1
    <3>5. QED  BY <3>2, <3>3, <3>4
  <2>4. old \subseteq Visible(s)  OBVIOUS
  <2> HIDE DEF old, new
  <2>5. old \in SUBSET ((txn[s].snap \cup txn[s].ins) \ txn[s].del)  BY <2>2, <2>4
  <2>6. QED  BY <1>1, <2>1, <2>2, <2>3, <2>5, SerialAfter
<1> HIDE DEF t
<1>3. QED  BY <1>1, <1>2, SerialKeptBut

LEMMA SerialUnlockStep ==
  ASSUME TypeOK, SerialInv, NEW s \in Sessions, NEW a \in Auths,
         UnlockRows(s, a), ~Undo(s)
  PROVE  SerialInv'
<1> DEFINE mine == {l \in Visible(s) : l.authid = a}
           t    == After(txn[s], mine, {})
           u    == Released(t, a)
<1>1. /\ Active(s) /\ txn[s] \in Txns
      /\ mine \in SUBSET Locks /\ mine \subseteq Visible(s)
      /\ txn' = [txn EXCEPT ![s] = u]
      /\ UNCHANGED <<isolation, locks, nextXid>>
  BY VisibleType DEF UnlockRows
<1> HIDE DEF mine
<1>2. {} \in SUBSET Locks  OBVIOUS
<1>3. t \in Txns  BY <1>1, <1>2, AfterType
<1>4. SameLocks(u, t)
  <2> HIDE DEF t
  <2>1. QED  BY <1>3 DEF SameLocks, Released, Txns
<1>5. ASSUME isolation = "serializable"  PROVE SerialOK(u, locks, nextXid)
  <2>1. SerialOK(txn[s], locks, nextXid)  BY <1>1, <1>5 DEF SerialInv
  <2>2. mine \in SUBSET ((txn[s].snap \cup txn[s].ins) \ txn[s].del)
    BY <1>1, <1>5, SerialSees
  <2>3. SerialOK(t, locks, nextXid)  BY <1>1, <2>1, <2>2, SerialAfter
  <2> HIDE DEF t, u
  <2>4. QED  BY <1>4, <2>3, SameLocksSerial
<1> HIDE DEF u
<1>6. QED  BY <1>1, <1>5, SerialKeptBut

LEMMA SerialStep == TypeOK /\ SerialInv /\ [Next]_vars => SerialInv'
<1> SUFFICES ASSUME TypeOK, SerialInv, [Next]_vars  PROVE SerialInv'
  OBVIOUS
<1>0. ASSUME NEW s \in Sessions, Undo(s)  PROVE SerialInv'
  BY <1>0, SerialKeptBut DEF Undo
<1>1. ASSUME UNCHANGED <<isolation, locks, nextXid, txn>>  PROVE SerialInv'
  BY <1>1 DEF SerialInv, Active
<1>2. CASE Tick  BY <1>1, <1>2 DEF Tick
<1>3. CASE CheckAuth  BY <1>1, <1>3 DEF CheckAuth
<1>4. CASE EnableLongTransactions  BY <1>1, <1>4 DEF EnableLongTransactions
<1>5. CASE DisableLongTransactions  BY <1>5, SerialDisableStep
<1>6. ASSUME NEW s \in Sessions, Begin(s)  PROVE SerialInv'
  BY <1>6, SerialBeginStep
<1>7. ASSUME NEW s \in Sessions, Commit(s)  PROVE SerialInv'
  BY <1>7, SerialCommitStep
<1>8. ASSUME NEW s \in Sessions, Rollback(s)  PROVE SerialInv'
  BY <1>0, <1>8 DEF Rollback
<1>9. ASSUME NEW s \in Sessions, Disconnect(s)  PROVE SerialInv'
  BY <1>1, <1>9 DEF Disconnect
<1>10. ASSUME NEW s \in Sessions, Active(s), NEW t,
              txn' = [txn EXCEPT ![s] = t], SameLocks(t, txn[s]),
              UNCHANGED <<isolation, locks, nextXid>>
       PROVE  SerialInv'
  <2>1. isolation = "serializable" => SerialOK(t, locks, nextXid)
    BY <1>10, SameLocksSerial DEF SerialInv
  <2>2. QED  BY <1>10, <2>1, SerialKeptBut
<1>11. ASSUME NEW s \in Sessions, NEW a \in Auths, UnlockRows(s, a)  PROVE SerialInv'
  BY <1>0, <1>11, SerialUnlockStep
<1>12. ASSUME NEW s \in Sessions, NEW a \in Auths, AddAuth(s, a)  PROVE SerialInv'
  <2> DEFINE t == [txn[s] EXCEPT !.tokens = @ \cup {a}]
  <2>1. CASE Undo(s)  BY <1>0, <2>1
  <2>2. CASE ~Undo(s)
    <3>1. /\ Active(s) /\ txn' = [txn EXCEPT ![s] = t]
          /\ UNCHANGED <<isolation, locks, nextXid>>
      BY <1>12, <2>2 DEF AddAuth
    <3>2. SameLocks(t, txn[s])  BY <3>1, VisibleType DEF SameLocks, Txns
    <3> HIDE DEF t
    <3>3. QED  BY <1>10, <3>1, <3>2
  <2>3. QED  BY <2>1, <2>2
<1>13. ASSUME NEW s \in Sessions, NEW r \in Rows, UpdateRow(s, r)  PROVE SerialInv'
  <2> DEFINE t == [txn[s] EXCEPT !.wrote = @ \cup {r}, !.looked = @ \/ trigger]
  <2>1. CASE Undo(s)  BY <1>0, <2>1
  <2>2. CASE ~Undo(s)
    <3>1. /\ Active(s) /\ txn' = [txn EXCEPT ![s] = t]
          /\ UNCHANGED <<isolation, locks, nextXid>>
      BY <1>13, <2>2 DEF UpdateRow, TypeOK
    <3>2. SameLocks(t, txn[s])  BY <3>1, VisibleType DEF SameLocks, Txns
    <3> HIDE DEF t
    <3>3. QED  BY <1>10, <3>1, <3>2
  <2>3. QED  BY <2>1, <2>2
<1>14. ASSUME NEW s \in Sessions, NEW r \in Rows, NEW a \in Auths, NEW e \in Times,
              LockRow(s, r, a, e)
       PROVE SerialInv'
  BY <1>0, <1>14, SerialLockStep
<1>15. CASE UNCHANGED vars  BY <1>1, <1>15 DEF vars
<1>16. QED
  BY <1>2, <1>3, <1>4, <1>5, <1>6, <1>7, <1>8, <1>9, <1>11, <1>12, <1>13, <1>14,
     <1>15 DEF Next

\* Locks that are compatible at a time not in the future are so if in force.
LEMMA CompatibleInForce ==
  ASSUME TypeOK, NEW t \in Txns, DeletesJustified(t, clock),
         NEW l \in Locks, NEW m \in Locks, Compatible(l, m, t.now),
         l.rid = m.rid, InForce(l), InForce(m)
  PROVE  l.authid = m.authid
<1>1. /\ t.now \in Nat /\ clock \in Nat /\ l.expires \in Nat /\ m.expires \in Nat
      /\ t.now <= clock
  BY CountsAreNat DEF Txns, Locks, TypeOK, DeletesJustified
<1>2. ~Expired(l, t.now) /\ ~Expired(m, t.now)
  BY <1>1 DEF InForce, Expired
<1>3. QED  BY <1>2 DEF Compatible

LEMMA ExclusiveStep ==
  TypeOK /\ PurgeInv /\ SerialInv /\ LockExclusive /\ [Next]_vars => LockExclusive'
<1> SUFFICES ASSUME TypeOK, PurgeInv, SerialInv, LockExclusive, [Next]_vars
             PROVE  LockExclusive'
  OBVIOUS
<1>1. ASSUME UNCHANGED <<isolation, clock, locks>>  PROVE LockExclusive'
  BY <1>1 DEF LockExclusive, InForce
<1>2. CASE Tick
  <2>1. \A l \in locks : InForce(l)' => InForce(l)
    <3>1. clock \in Nat /\ clock' = clock + 1  BY <1>2, CountsAreNat DEF Tick
    <3>2. \A l \in locks : l.expires \in Nat  BY CountsAreNat DEF TypeOK, Locks
    <3>3. QED  BY <3>1, <3>2 DEF InForce
  <2>2. QED  BY <1>2, <2>1 DEF Tick, LockExclusive
<1>3. CASE DisableLongTransactions
  BY <1>3 DEF DisableLongTransactions, LockExclusive
<1>4. ASSUME NEW s \in Sessions, Commit(s)  PROVE LockExclusive'
  <2> DEFINE t == txn[s]
  <2>1. /\ Active(s) /\ ~Cycle(t) /\ t \in Txns
        /\ locks' = (locks \ t.del) \cup t.ins
        /\ UNCHANGED <<isolation, clock>>
    BY <1>4, VisibleType DEF Commit
  <2>2. SUFFICES ASSUME isolation = "serializable",
                        NEW l \in locks', NEW m \in locks',
                        l.rid = m.rid, InForce(l), InForce(m)
                 PROVE  l.authid = m.authid
    BY <2>1 DEF LockExclusive, InForce
  <2>3. SerialOK(t, locks, nextXid) /\ DeletesJustified(t, clock)
    BY <2>1, <2>2 DEF SerialInv, PurgeInv
  <2>4. l \in Locks /\ m \in Locks  BY <2>1 DEF TypeOK, Txns
  <2> HIDE DEF t
  <2>5. CASE l \in locks /\ m \in locks
    BY <2>2, <2>5 DEF LockExclusive
\* A lock that it inserted: no rival, or it could not commit.
  <2>6. ASSUME t.ins # {}  PROVE locks \subseteq t.snap
    <3>1. Changed(t) /\ t.looked  BY <2>3, <2>6 DEF SerialOK, Changed
    <3>2. ~\E rival \in t.rivals : rival.looked /\ rival.changed
      BY <2>1, <2>2, <3>1 DEF Cycle
    <3>3. QED  BY <2>3, <3>2 DEF SerialOK
  <2>7. CASE l \in t.ins
    <3>1. m \in (t.snap \ t.del) \cup t.ins  BY <2>1, <2>6, <2>7
    <3>2. Compatible(l, m, t.now)  BY <2>3, <2>7, <3>1 DEF SerialOK
    <3>3. QED  BY <2>1, <2>2, <2>3, <2>4, <3>2, CompatibleInForce
  <2>8. CASE m \in t.ins
    <3>1. l \in (t.snap \ t.del) \cup t.ins  BY <2>1, <2>6, <2>8
    <3>2. Compatible(m, l, t.now)  BY <2>3, <2>8, <3>1 DEF SerialOK
    <3>3. QED  BY <2>1, <2>2, <2>3, <2>4, <3>2, CompatibleInForce
  <2>9. QED  BY <2>1, <2>5, <2>7, <2>8
<1>5. CASE UNCHANGED <<isolation, clock, locks>>  BY <1>1, <1>5
<1>6. QED
  BY <1>2, <1>3, <1>4, <1>5, LocksChange DEF vars

\* At the level the manual asks for, two committed locks in force on one row are
\* never of two tokens: LockExclusive, for any sessions, rows and tokens.
THEOREM OneTokenPerRow == Spec => []LockExclusive
<1>1. Init => PurgeInv /\ SerialInv /\ LockExclusive
  BY DEF Init, PurgeInv, SerialInv, LockExclusive, Active
<1>2. QED
  BY <1>1, TypeCorrect, PurgeStep, SerialStep, ExclusiveStep, PTL DEF Spec

-----------------------------------------------------------------------------
(* Tables with history. *)

AnyRow  == HistRows \cup {NoRow}
HistTxnType == HistTxns \cup {NoHistTxn}

\* The row has a version of its own in h, and that one is open.
HasVersion(row, h, g) ==
  row # NoRow =>
    /\ row.stamp \in DOMAIN h
    /\ h[row.stamp].gid = g
    /\ h[row.stamp].deleted = Never

OpenIn(h, g) == {v \in DOMAIN h : h[v].gid = g /\ h[v].deleted = Never}

\* The open versions of g in h are those of its row.
Current(row, h, g) ==
  IF row = NoRow
  THEN OpenIn(h, g) = {}
  ELSE /\ OpenIn(h, g) = {row.stamp}
       /\ h[row.stamp].data = row.data

\* Versions that both have are of the same key.
SameGid(h, k) == \A v \in DOMAIN h \cap DOMAIN k : h[v].gid = k[v].gid

(***************************************************************************)
(* What holds of a running transaction t when the table is r, its history  *)
(* h and the next version n.                                               *)
(***************************************************************************)

\* A row that it wrote has its version among those it wrote, and nobody else
\* can have seen that version.
OwnRows(t, h) ==
  \A g \in DOMAIN t.newRows :
    /\ HasVersion(t.newRows[g], t.newHist, g)
    /\ t.newRows[g] # NoRow => t.newRows[g].stamp \notin DOMAIN h

\* It has not touched the version of a row that it leaves alone.
OtherRows(t, r) ==
  \A g \in Gids \ DOMAIN t.newRows :
    r[g] # NoRow => r[g].stamp \notin DOMAIN t.newHist

\* A row of its snapshot has its version there.  If the version of the row that
\* is there now was there then, that row was there then.
SnapshotOK(t, r, h) ==
  /\ DOMAIN t.snapHist \subseteq DOMAIN h
  /\ \A g \in Gids : t.snapRows[g] # NoRow =>
       /\ t.snapRows[g].stamp \in DOMAIN t.snapHist
       /\ t.snapHist[t.snapRows[g].stamp].gid = g
  /\ \A g \in Gids : r[g] # NoRow /\ r[g].stamp \in DOMAIN t.snapHist =>
       t.snapRows[g] # NoRow /\ t.snapRows[g].born = r[g].born

TxnOK(t, r, h, n) ==
  /\ \A v \in DOMAIN t.newHist : v < n
  /\ SameGid(t.newHist, h)
  /\ SameGid(t.snapHist, h)
  /\ OwnRows(t, h)
  /\ OtherRows(t, r)
  /\ SnapshotOK(t, r, h)

\* Where it keeps a snapshot: the rows that it wrote are current with what it
\* sees, and it wrote no version of any other row.
Repeats(t, h) ==
  /\ \A g \in DOMAIN t.newRows : Current(t.newRows[g], Overlay(h, t.newHist), g)
  /\ \A v \in DOMAIN t.newHist : t.newHist[v].gid \in DOMAIN t.newRows

\* Two transactions that run together wrote no row and no version in common.
Apart(t, u) ==
  /\ DOMAIN t.newRows \cap DOMAIN u.newRows = {}
  /\ DOMAIN t.newHist \cap DOMAIN u.newHist = {}

TableOK(r, h, n) ==
  /\ \A v \in DOMAIN h : v < n
  /\ \A g \in Gids : HasVersion(r[g], h, g)

RunningOK ==
  \A s \in Clients : InTxn(s) => TxnOK(histTxn[s], rows, history, nextVersion)

AllApart ==
  \A s, p \in Clients :
    InTxn(s) /\ InTxn(p) /\ s # p => Apart(histTxn[s], histTxn[p])

AllRepeat ==
  histLevel = "repeatable read" =>
    /\ \A g \in Gids : Current(rows[g], history, g)
    /\ \A s \in Clients : InTxn(s) => Repeats(histTxn[s], history)

HistInv ==
  /\ HistTypeOK
  /\ TableOK(rows, history, nextVersion)
  /\ RunningOK
  /\ AllApart
  /\ AllRepeat

-----------------------------------------------------------------------------
(* Partial functions and overlays. *)

LEMMA PartFunIntro ==
  ASSUME NEW S, NEW T, NEW D \in SUBSET S, NEW f \in [D -> T]
  PROVE  f \in PartFun(S, T)
  BY DEF PartFun

LEMMA PartFunElim ==
  ASSUME NEW S, NEW T, NEW f \in PartFun(S, T)
  PROVE  /\ f \in [DOMAIN f -> T]
         /\ DOMAIN f \subseteq S
<1>1. PICK D \in SUBSET S : f \in [D -> T]  BY DEF PartFun
<1>2. QED  BY <1>1

LEMMA NothingType ==
  ASSUME NEW S, NEW T
  PROVE  /\ Nothing \in PartFun(S, T)
         /\ DOMAIN Nothing = {}
<1>1. Nothing \in [{} -> T]  BY DEF Nothing
<1>2. QED  BY <1>1, PartFunIntro

LEMMA OverlayAt ==
  ASSUME NEW f, NEW g
  PROVE  /\ DOMAIN Overlay(f, g) = DOMAIN f \cup DOMAIN g
         /\ \A x \in DOMAIN g : Overlay(f, g)[x] = g[x]
         /\ \A x \in DOMAIN f \ DOMAIN g : Overlay(f, g)[x] = f[x]
  BY DEF Overlay

LEMMA OverlayType ==
  ASSUME NEW S, NEW T, NEW f \in PartFun(S, T), NEW g \in PartFun(S, T)
  PROVE  Overlay(f, g) \in PartFun(S, T)
<1>1. /\ f \in [DOMAIN f -> T]  /\ DOMAIN f \subseteq S
      /\ g \in [DOMAIN g -> T]  /\ DOMAIN g \subseteq S
  BY PartFunElim
<1>2. Overlay(f, g) \in [DOMAIN f \cup DOMAIN g -> T]  BY <1>1 DEF Overlay
<1>3. QED  BY <1>1, <1>2, PartFunIntro

\* An overlay of a table is a table.
LEMMA OverlayTotal ==
  ASSUME NEW S, NEW T, NEW f \in [S -> T], NEW g \in PartFun(S, T)
  PROVE  Overlay(f, g) \in [S -> T]
<1>1. g \in [DOMAIN g -> T] /\ DOMAIN g \subseteq S  BY PartFunElim
<1>2. QED  BY <1>1 DEF Overlay

-----------------------------------------------------------------------------
(* What the types say of a transaction, and of one that ran a statement. *)

LEMMA Bounds == HistMaxTime \in Nat /\ MaxVersion \in Nat
  BY HistoryAssumption, Zenon

LEMMA IdsNat == Ids \subseteq Nat \ {0}
  BY Bounds DEF Ids

LEMMA NeverIsLate == Never \notin HistTimes
  BY Bounds DEF Never, HistTimes

LEMMA NoRowIsNone == NoRow \notin HistRows
<1>1. \A r \in HistRows : r.stamp # 0  BY DEF HistRows, Ids
<1>2. QED  BY <1>1 DEF NoRow

LEMMA TxnFields ==
  ASSUME NEW t \in HistTxns
  PROVE  /\ t # NoHistTxn
         /\ t.now \in HistTimes
         /\ t.now # Never
         /\ t.snapped \in BOOLEAN
         /\ t.snapRows \in [Gids -> AnyRow]
         /\ t.snapHist \in [DOMAIN t.snapHist -> Versions]
         /\ DOMAIN t.snapHist \subseteq Ids
         /\ t.newRows \in [DOMAIN t.newRows -> AnyRow]
         /\ DOMAIN t.newRows \subseteq Gids
         /\ t.newHist \in [DOMAIN t.newHist -> Versions]
         /\ DOMAIN t.newHist \subseteq Ids
         /\ t.stmt \in Statements \cup {NoStatement}
<1>1. /\ t.now \in HistTimes
      /\ t.snapped \in BOOLEAN
      /\ t.snapRows \in [Gids -> AnyRow]
      /\ t.snapHist \in PartFun(Ids, Versions)
      /\ t.newRows \in PartFun(Gids, AnyRow)
      /\ t.newHist \in PartFun(Ids, Versions)
      /\ t.stmt \in Statements \cup {NoStatement}
  BY DEF HistTxns, AnyRow
<1>2. t.now # Never  BY <1>1, NeverIsLate
<1>3. t # NoHistTxn  BY <1>2 DEF NoHistTxn
<1>4. QED  BY <1>1, <1>2, <1>3, PartFunElim

LEMMA RunningType ==
  ASSUME HistTypeOK, NEW s \in Clients, InTxn(s)
  PROVE  histTxn[s] \in HistTxns
  BY DEF HistTypeOK, InTxn

LEMMA TableType ==
  ASSUME HistTypeOK
  PROVE  /\ rows \in [Gids -> AnyRow]
         /\ history \in [DOMAIN history -> Versions]
         /\ DOMAIN history \subseteq Ids
         /\ nextVersion \in Nat
<1>1. history \in PartFun(Ids, Versions)  BY DEF HistTypeOK
<1>2. nextVersion \in Nat  BY Bounds DEF HistTypeOK
<1>3. rows \in [Gids -> AnyRow]  BY DEF HistTypeOK, AnyRow
<1>4. QED  BY <1>1, <1>2, <1>3, PartFunElim

\* The transaction t after a statement that changed newRows and newHist.
AfterRun(t, newRows, newHist) ==
  [t EXCEPT !.stmt = NoStatement,
            !.snapRows = IF t.snapped THEN @ ELSE [g \in Gids |-> NoRow],
            !.snapHist = IF t.snapped THEN @ ELSE Nothing,
            !.newRows = Overlay(@, newRows),
            !.newHist = Overlay(@, newHist)]

LEMMA AfterRunType ==
  ASSUME NEW t \in HistTxns, NEW R \in PartFun(Gids, AnyRow),
         NEW H \in PartFun(Ids, Versions)
  PROVE  /\ AfterRun(t, R, H) \in HistTxns
         /\ AfterRun(t, R, H).newRows = Overlay(t.newRows, R)
         /\ AfterRun(t, R, H).newHist = Overlay(t.newHist, H)
         /\ \/ /\ AfterRun(t, R, H).snapRows = t.snapRows
               /\ AfterRun(t, R, H).snapHist = t.snapHist
            \/ /\ AfterRun(t, R, H).snapRows = [g \in Gids |-> NoRow]
               /\ AfterRun(t, R, H).snapHist = Nothing
<1> DEFINE nr == Overlay(t.newRows, R)
           nh == Overlay(t.newHist, H)
           sr == IF t.snapped THEN t.snapRows ELSE [g \in Gids |-> NoRow]
           sh == IF t.snapped THEN t.snapHist ELSE Nothing
<1>1. nr \in PartFun(Gids, AnyRow)  BY OverlayType DEF HistTxns, AnyRow
<1>2. nh \in PartFun(Ids, Versions)  BY OverlayType DEF HistTxns
<1>3. sr \in [Gids -> AnyRow]  BY DEF HistTxns, AnyRow
<1>4. sh \in PartFun(Ids, Versions)  BY NothingType DEF HistTxns
<1>5. AfterRun(t, R, H) = [t EXCEPT !.stmt = NoStatement, !.snapRows = sr,
                                    !.snapHist = sh, !.newRows = nr, !.newHist = nh]
  BY DEF AfterRun, HistTxns
<1>6. \/ sr = t.snapRows /\ sh = t.snapHist
      \/ sr = [g \in Gids |-> NoRow] /\ sh = Nothing
  OBVIOUS
<1> HIDE DEF nr, nh, sr, sh
<1>7. AfterRun(t, R, H) \in HistTxns  BY <1>1, <1>2, <1>3, <1>4, <1>5 DEF HistTxns, AnyRow
<1>8. /\ AfterRun(t, R, H).newRows = nr  /\ AfterRun(t, R, H).newHist = nh
      /\ AfterRun(t, R, H).snapRows = sr /\ AfterRun(t, R, H).snapHist = sh
  BY <1>5 DEF HistTxns
<1>9. QED  BY <1>6, <1>7, <1>8 DEF nr, nh

LEMMA RanIsAfterRun ==
  ASSUME HistTypeOK, NEW s \in Clients, InTxn(s), NEW R, NEW H
  PROVE  Ran(s, R, H) = [histTxn EXCEPT ![s] = AfterRun(histTxn[s], R, H)]
  BY RunningType DEF Ran, AfterRun, HistTypeOK

-----------------------------------------------------------------------------
(* What a running transaction sees. *)

LEMMA SeenVersionsType ==
  ASSUME HistTypeOK, NEW s \in Clients, InTxn(s), NEW g,
         TxnOK(histTxn[s], rows, history, nextVersion),
         TableOK(rows, history, nextVersion)
  PROVE  \A v \in SeenVersions(s, g) :
           /\ v \in Ids /\ v < nextVersion
           /\ v \in DOMAIN LatestHistory(s)
           /\ LatestHistory(s)[v] \in Versions
           /\ LatestHistory(s)[v].gid = g
<1> DEFINE t == histTxn[s]
<1>1. t \in HistTxns  BY RunningType
<1> SUFFICES ASSUME NEW v \in SeenVersions(s, g)
             PROVE  /\ v \in Ids /\ v < nextVersion
                    /\ v \in DOMAIN LatestHistory(s)
                    /\ LatestHistory(s)[v] \in Versions
                    /\ LatestHistory(s)[v].gid = g
  OBVIOUS
<1>2. /\ v \in DOMAIN t.snapHist \cup DOMAIN t.newHist
      /\ Overlay(t.snapHist, t.newHist)[v].gid = g
  BY OverlayAt DEF SeenVersions
<1> HIDE DEF t
<1>3. LatestHistory(s) = Overlay(history, t.newHist)
  BY DEF LatestHistory, t
<1>4. TxnOK(t, rows, history, nextVersion)  BY DEF t
<1>5. CASE v \in DOMAIN t.newHist
  <2>1. t.newHist[v] \in Versions /\ v \in Ids  BY <1>1, <1>5, TxnFields
  <2>2. t.newHist[v].gid = g  BY <1>2, <1>5 DEF Overlay
  <2>3. v < nextVersion  BY <1>4, <1>5 DEF TxnOK
  <2>4. QED  BY <1>3, <1>5, <2>1, <2>2, <2>3 DEF Overlay
<1>6. CASE v \notin DOMAIN t.newHist
  <2>1. v \in DOMAIN t.snapHist  BY <1>2, <1>6
  <2>2. t.snapHist[v].gid = g  BY <1>2, <1>6, <2>1 DEF Overlay
  <2>3. v \in DOMAIN history  BY <1>4, <2>1 DEF TxnOK, SnapshotOK
  <2>4. history[v].gid = g  BY <1>4, <2>1, <2>2, <2>3 DEF TxnOK, SameGid
  <2>5. v \in Ids /\ history[v] \in Versions  BY <2>3, TableType
  <2>6. v < nextVersion  BY <2>3 DEF TableOK
  <2>7. QED  BY <1>3, <1>6, <2>3, <2>4, <2>5, <2>6 DEF Overlay
<1>7. QED  BY <1>5, <1>6

LEMMA LatestRowType ==
  ASSUME HistTypeOK, NEW s \in Clients, InTxn(s), NEW g \in Gids
  PROVE  /\ LatestRow(s, g) \in AnyRow
         /\ SeenRow(s, g) \in AnyRow
<1>1. histTxn[s] \in HistTxns  BY RunningType
<1>2. /\ histTxn[s].newRows \in PartFun(Gids, AnyRow)
      /\ histTxn[s].snapRows \in [Gids -> AnyRow]
  BY <1>1 DEF HistTxns, AnyRow
<1>3. rows \in [Gids -> AnyRow]  BY TableType
<1>4. /\ Overlay(rows, histTxn[s].newRows) \in [Gids -> AnyRow]
      /\ Overlay(histTxn[s].snapRows, histTxn[s].newRows) \in [Gids -> AnyRow]
  BY <1>2, <1>3, OverlayTotal
<1>5. QED  BY <1>4 DEF LatestRow, SeenRow

\* The versions that a statement on the row of g closes.
LEMMA CloseAt ==
  ASSUME HistTypeOK, NEW s \in Clients, InTxn(s), NEW g,
         TxnOK(histTxn[s], rows, history, nextVersion),
         TableOK(rows, history, nextVersion)
  PROVE  /\ Close(s, g) \in PartFun(Ids, Versions)
         /\ DOMAIN Close(s, g) = SeenVersions(s, g)
         /\ \A v \in SeenVersions(s, g) :
              Close(s, g)[v].gid = g /\ Close(s, g)[v].deleted # Never
<1>1. histTxn[s].now \in HistTimes /\ histTxn[s].now # Never
  BY RunningType, TxnFields
<1> DEFINE K == SeenVersions(s, g)
           L == LatestHistory(s)
           now == histTxn[s].now
<1>2. \A v \in K : v \in Ids /\ L[v] \in Versions /\ L[v].gid = g
  BY SeenVersionsType
<1>3. Close(s, g) = [v \in K |-> [L[v] EXCEPT !.deleted = now]]
  BY DEF Close
<1> HIDE DEF K, L, now
<1>4. ASSUME NEW v \in K
      PROVE  /\ [L[v] EXCEPT !.deleted = now] \in Versions
             /\ [L[v] EXCEPT !.deleted = now].gid = g
             /\ [L[v] EXCEPT !.deleted = now].deleted # Never
  BY <1>1, <1>2 DEF Versions, now
<1>5. Close(s, g) \in [K -> Versions] /\ K \in SUBSET Ids
  BY <1>2, <1>3, <1>4
<1>6. QED  BY <1>3, <1>4, <1>5, PartFunIntro DEF K

\* The version that an INSERT or an UPDATE adds.
LEMMA NewVersionAt ==
  ASSUME HistTypeOK, NEW s \in Clients, InTxn(s), NEW g \in Gids, NEW d \in Data,
         nextVersion <= MaxVersion,
         NEW N, N = [v \in {nextVersion} |-> NewVersion(s, g, d)]
  PROVE  /\ nextVersion \in Ids
         /\ N \in PartFun(Ids, Versions)
         /\ DOMAIN N = {nextVersion}
         /\ N[nextVersion].gid = g
         /\ N[nextVersion].data = d
         /\ N[nextVersion].deleted = Never
<1>1. histTxn[s].now \in HistTimes  BY RunningType, TxnFields
<1>2. nextVersion \in Ids  BY Bounds DEF HistTypeOK, Ids
<1>3. NewVersion(s, g, d) \in Versions
  BY <1>1 DEF NewVersion, Versions
<1>4. N \in [{nextVersion} -> Versions] /\ {nextVersion} \in SUBSET Ids
  BY <1>2, <1>3
<1>5. N \in PartFun(Ids, Versions)  BY <1>4, PartFunIntro
<1>6. QED  BY <1>2, <1>5 DEF NewVersion

-----------------------------------------------------------------------------
(* A transaction and the table, laid over each other. *)

\* Every row of the overlaid table has an open version in the overlaid history.
LEMMA ViewHasVersion ==
  ASSUME NEW t \in HistTxns, NEW r, NEW h, NEW n,
         TxnOK(t, r, h, n), TableOK(r, h, n),
         DOMAIN r = Gids, NEW g \in Gids
  PROVE  HasVersion(Overlay(r, t.newRows)[g], Overlay(h, t.newHist), g)
<1>1. CASE g \in DOMAIN t.newRows
  <2>1. HasVersion(t.newRows[g], t.newHist, g)  BY <1>1 DEF TxnOK, OwnRows
  <2>2. Overlay(r, t.newRows)[g] = t.newRows[g]  BY <1>1 DEF Overlay
  <2>3. QED  BY <2>1, <2>2 DEF HasVersion, Overlay
<1>2. CASE g \notin DOMAIN t.newRows
  <2>1. HasVersion(r[g], h, g)  BY DEF TableOK
  <2>2. Overlay(r, t.newRows)[g] = r[g]  BY <1>2 DEF Overlay
  <2>3. r[g] # NoRow => r[g].stamp \notin DOMAIN t.newHist
    BY <1>2 DEF TxnOK, OtherRows
  <2>4. QED  BY <2>1, <2>2, <2>3 DEF HasVersion, Overlay
<1>3. QED  BY <1>1, <1>2

\* Where it keeps a snapshot, the overlaid rows are current.
LEMMA ViewCurrent ==
  ASSUME NEW t \in HistTxns, NEW r, NEW h, NEW n,
         TxnOK(t, r, h, n), Repeats(t, h), DOMAIN r = Gids,
         NEW g \in Gids, Current(r[g], h, g)
  PROVE  Current(Overlay(r, t.newRows)[g], Overlay(h, t.newHist), g)
<1>1. CASE g \in DOMAIN t.newRows
  <2>1. Overlay(r, t.newRows)[g] = t.newRows[g]  BY <1>1 DEF Overlay
  <2>2. QED  BY <1>1, <2>1 DEF Repeats
<1>2. CASE g \notin DOMAIN t.newRows
  <2> DEFINE view == Overlay(h, t.newHist)
  <2>1. Overlay(r, t.newRows)[g] = r[g]  BY <1>2 DEF Overlay
  <2>2. ASSUME NEW v \in DOMAIN t.newHist  PROVE t.newHist[v].gid # g
    BY <1>2 DEF Repeats
  <2>3. OpenIn(view, g) \subseteq OpenIn(h, g)
    BY <2>2 DEF OpenIn, Overlay
  <2>4. ASSUME NEW v \in DOMAIN h, h[v].gid = g
        PROVE  v \in DOMAIN view /\ view[v] = h[v]
    <3>1. v \notin DOMAIN t.newHist
      <4>1. SUFFICES ASSUME v \in DOMAIN t.newHist  PROVE FALSE
        OBVIOUS
      <4>2. t.newHist[v].gid = h[v].gid  BY <4>1 DEF TxnOK, SameGid
      <4>3. QED  BY <2>2, <2>4, <4>1, <4>2
    <3>2. QED  BY <3>1 DEF Overlay
  <2>5. OpenIn(view, g) = OpenIn(h, g)
    BY <2>3, <2>4 DEF OpenIn
  <2>6. r[g] # NoRow => r[g].stamp \in DOMAIN h /\ h[r[g].stamp].gid = g
    BY DEF Current, OpenIn
  <2>7. r[g] # NoRow => view[r[g].stamp] = h[r[g].stamp]
    BY <2>4, <2>6
  <2> HIDE DEF view
  <2>8. Current(r[g], view, g)
    BY <2>5, <2>7 DEF Current
  <2>9. QED  BY <2>1, <2>8 DEF view
<1>3. QED  BY <1>1, <1>2

\* The statement of t changed the rows R, none or that of key k, and the
\* versions H, all of key k; m is the next version after it.
RunOK(t, R, H, k, r, h, n, m) ==
  /\ DOMAIN R \subseteq {k}
  /\ m \in {n, n + 1}
  /\ \A v \in DOMAIN H :
       /\ H[v].gid = k
       /\ v < m
       /\ v \in DOMAIN h => h[v].gid = k
       /\ v \in DOMAIN t.newHist => t.newHist[v].gid = k
  /\ IF k \in DOMAIN R
     THEN R[k] # NoRow => R[k].stamp = n /\ HasVersion(R[k], H, k)
     ELSE LET row == Overlay(r, t.newRows)[k]
          IN  row # NoRow => row.stamp \notin DOMAIN H

\* The rows it has written are current with its view after the statement.
StaysCurrent(t, R, H, k, h) ==
  /\ k \in DOMAIN t.newRows \cup DOMAIN R =>
       Current(Overlay(t.newRows, R)[k], Overlay(h, Overlay(t.newHist, H)), k)
  /\ DOMAIN H # {} => k \in DOMAIN t.newRows \cup DOMAIN R

\* No other running transaction has touched what the statement of s changed.
AloneOn(s, R, H) ==
  \A p \in Clients \ {s} : InTxn(p) =>
    /\ DOMAIN R \cap DOMAIN histTxn[p].newRows = {}
    /\ DOMAIN H \cap DOMAIN histTxn[p].newHist = {}

LEMMA RunKeepsTxn ==
  ASSUME NEW t \in HistTxns, NEW r \in [Gids -> AnyRow], NEW h, NEW n \in Nat, NEW m,
         NEW k \in Gids,
         NEW R \in PartFun(Gids, AnyRow), NEW H \in PartFun(Ids, Versions),
         DOMAIN h \subseteq Ids,
         TableOK(r, h, n), TxnOK(t, r, h, n), RunOK(t, R, H, k, r, h, n, m)
  PROVE  TxnOK(AfterRun(t, R, H), r, h, m)
<1> DEFINE u  == AfterRun(t, R, H)
           nr == Overlay(t.newRows, R)
           nh == Overlay(t.newHist, H)
<1>1. /\ u \in HistTxns
      /\ u.newRows = nr
      /\ u.newHist = nh
      /\ \/ u.snapRows = t.snapRows /\ u.snapHist = t.snapHist
         \/ u.snapRows = [g \in Gids |-> NoRow] /\ u.snapHist = Nothing
  BY AfterRunType
<1>2. /\ DOMAIN t.newRows \subseteq Gids
      /\ DOMAIN t.newHist \subseteq Ids
      /\ DOMAIN R \subseteq Gids
      /\ DOMAIN H \subseteq Ids
  BY TxnFields, PartFunElim
<1>3. /\ DOMAIN nr = DOMAIN t.newRows \cup DOMAIN R
      /\ DOMAIN nh = DOMAIN t.newHist \cup DOMAIN H
  BY DEF Overlay
<1>4. \A v \in DOMAIN nh : v < m
  <2>1. \A v \in DOMAIN t.newHist : v < n  BY DEF TxnOK
  <2>2. \A v \in DOMAIN H : v < m  BY DEF RunOK
  <2>3. Ids \subseteq Nat  BY Bounds DEF Ids
  <2>4. m \in Nat /\ n <= m  BY DEF RunOK
  <2>5. ASSUME NEW v \in DOMAIN nh  PROVE v < m
    <3>1. v \in Nat  BY <1>2, <1>3, <2>3
    <3> HIDE DEF nh
    <3>2. QED  BY <1>3, <2>1, <2>2, <2>4, <3>1
  <2>6. QED  BY <2>5
<1>5. SameGid(nh, h)
  BY <1>3 DEF SameGid, TxnOK, RunOK, Overlay
<1>6. SameGid(u.snapHist, h) /\ SnapshotOK(u, r, h)
  <2>1. CASE u.snapRows = t.snapRows /\ u.snapHist = t.snapHist
    BY <2>1 DEF TxnOK, SnapshotOK
  <2>2. CASE u.snapRows = [g \in Gids |-> NoRow] /\ u.snapHist = Nothing
    BY <2>2, NothingType DEF SameGid, SnapshotOK
  <2>3. QED  BY <1>1, <2>1, <2>2
\* A version of another key is not among those that the statement changed.
<1>7. ASSUME NEW g \in Gids, g # k, NEW v
      PROVE  /\ v \in DOMAIN h /\ h[v].gid = g => v \notin DOMAIN H
             /\ v \in DOMAIN t.newHist /\ t.newHist[v].gid = g => v \notin DOMAIN H
  BY <1>7 DEF RunOK
<1>8. ASSUME NEW g \in DOMAIN nr
      PROVE  HasVersion(nr[g], nh, g) /\ (nr[g] # NoRow => nr[g].stamp \notin DOMAIN h)
  <2>1. CASE g \in DOMAIN R
    <3>1. g = k /\ nr[g] = R[g]  BY <2>1 DEF RunOK, Overlay
    <3>2. R[g] # NoRow => R[g].stamp = n /\ HasVersion(R[g], H, g)
      BY <2>1, <3>1 DEF RunOK
    <3>3. HasVersion(R[g], H, g) => HasVersion(R[g], nh, g)
      BY DEF HasVersion, Overlay
    <3>4. n \notin DOMAIN h  BY DEF TableOK
    <3>5. R[g] = NoRow => HasVersion(R[g], nh, g)  BY DEF HasVersion
    <3>6. QED  BY <3>1, <3>2, <3>3, <3>4, <3>5
  <2>2. CASE g \notin DOMAIN R
    <3>1. g \in DOMAIN t.newRows /\ g \in Gids /\ nr[g] = t.newRows[g]
      BY <1>2, <1>3, <2>2 DEF Overlay
    <3>2. /\ HasVersion(t.newRows[g], t.newHist, g)
          /\ t.newRows[g] # NoRow => t.newRows[g].stamp \notin DOMAIN h
      BY <3>1 DEF TxnOK, OwnRows
    <3>3. t.newRows[g] # NoRow => t.newRows[g].stamp \notin DOMAIN H
      <4>1. CASE g # k  BY <1>7, <3>1, <3>2, <4>1 DEF HasVersion
      <4>2. CASE g = k
        <5>1. Overlay(r, t.newRows)[g] = t.newRows[g]  BY <3>1 DEF Overlay
        <5>2. QED  BY <2>2, <4>2, <5>1 DEF RunOK
      <4>3. QED  BY <4>1, <4>2
    <3>4. QED  BY <3>1, <3>2, <3>3 DEF HasVersion, Overlay
  <2>3. QED  BY <2>1, <2>2
<1>9. ASSUME NEW g \in Gids \ DOMAIN nr, r[g] # NoRow
      PROVE  r[g].stamp \notin DOMAIN nh
  <2>1. g \notin DOMAIN t.newRows /\ g \notin DOMAIN R  BY <1>3
  <2>2. r[g].stamp \notin DOMAIN t.newHist  BY <1>9, <2>1 DEF TxnOK, OtherRows
  <2>3. r[g].stamp \notin DOMAIN H
    <3>1. CASE g # k
      <4>1. r[g].stamp \in DOMAIN h /\ h[r[g].stamp].gid = g
        BY <1>9 DEF TableOK, HasVersion
      <4>2. QED  BY <1>7, <3>1, <4>1
    <3>2. CASE g = k
      <4>1. Overlay(r, t.newRows)[g] = r[g]  BY <2>1 DEF Overlay
      <4>2. QED  BY <1>9, <2>1, <3>2, <4>1 DEF RunOK
    <3>3. QED  BY <3>1, <3>2
  <2>4. QED  BY <1>3, <2>2, <2>3
<1>10. OwnRows(u, h)
  BY <1>1, <1>8 DEF OwnRows
<1>11. OtherRows(u, r)
  BY <1>1, <1>9 DEF OtherRows
<1>12. QED
  BY <1>1, <1>4, <1>5, <1>6, <1>10, <1>11 DEF TxnOK

LEMMA RunKeepsRepeats ==
  ASSUME NEW t \in HistTxns, NEW r \in [Gids -> AnyRow], NEW h, NEW n, NEW m,
         NEW k \in Gids,
         NEW R \in PartFun(Gids, AnyRow), NEW H \in PartFun(Ids, Versions),
         TxnOK(t, r, h, n), RunOK(t, R, H, k, r, h, n, m), Repeats(t, h),
         StaysCurrent(t, R, H, k, h)
  PROVE  Repeats(AfterRun(t, R, H), h)
<1> DEFINE u    == AfterRun(t, R, H)
           nr   == Overlay(t.newRows, R)
           nh   == Overlay(t.newHist, H)
           old  == Overlay(h, t.newHist)
           view == Overlay(h, nh)
<1>1. u.newRows = nr /\ u.newHist = nh
  BY AfterRunType
<1>2. /\ DOMAIN nr = DOMAIN t.newRows \cup DOMAIN R
      /\ DOMAIN nh = DOMAIN t.newHist \cup DOMAIN H
      /\ DOMAIN view = DOMAIN old \cup DOMAIN H
  BY DEF Overlay
<1>3. ASSUME NEW v \in DOMAIN nh  PROVE nh[v].gid \in DOMAIN nr
  <2>1. CASE v \in DOMAIN H
    <3>1. nh[v].gid = k  BY <2>1 DEF Overlay, RunOK
    <3>2. QED  BY <1>2, <2>1, <3>1 DEF StaysCurrent
  <2>2. CASE v \notin DOMAIN H
    <3>1. v \in DOMAIN t.newHist /\ nh[v] = t.newHist[v]  BY <2>2 DEF Overlay
    <3>2. QED  BY <1>2, <3>1 DEF Repeats
  <2>3. QED  BY <2>1, <2>2
<1>4. ASSUME NEW g \in DOMAIN nr  PROVE Current(nr[g], view, g)
  <2>1. CASE g = k
    BY <1>2, <2>1 DEF StaysCurrent
  <2>2. CASE g # k
    <3>1. g \in DOMAIN t.newRows /\ nr[g] = t.newRows[g]
      BY <1>2, <2>2 DEF RunOK, Overlay
    <3>2. Current(t.newRows[g], old, g)  BY <3>1 DEF Repeats
    <3>3. ASSUME NEW v \in DOMAIN H
          PROVE  /\ view[v].gid = k
                 /\ v \in DOMAIN old => old[v].gid = k
      BY DEF Overlay, RunOK
    <3>4. ASSUME NEW v \in DOMAIN old, v \notin DOMAIN H
          PROVE  view[v] = old[v]
      BY <3>4 DEF Overlay
    <3>5. OpenIn(view, g) = OpenIn(old, g)
      BY <1>2, <2>2, <3>3, <3>4 DEF OpenIn
    <3>6. t.newRows[g] # NoRow =>
            LET v == t.newRows[g].stamp IN v \in DOMAIN old /\ old[v].gid = g
      BY <3>2 DEF Current, OpenIn
    <3>7. t.newRows[g] # NoRow => view[t.newRows[g].stamp] = old[t.newRows[g].stamp]
      BY <2>2, <3>3, <3>4, <3>6
    <3> HIDE DEF view, old
    <3>8. Current(t.newRows[g], view, g)  BY <3>2, <3>5, <3>7 DEF Current
    <3>9. QED  BY <3>1, <3>8
  <2>3. QED  BY <2>1, <2>2
<1> HIDE DEF u, nr, nh
<1>5. QED  BY <1>1, <1>3, <1>4 DEF Repeats, u

-----------------------------------------------------------------------------
(* The steps, one action at a time. *)

\* What a session still has of its transaction, when another has moved.
LEMMA OthersKeep ==
  ASSUME NEW t, NEW r, NEW h, NEW n \in Nat, NEW m \in Nat, n <= m,
         DOMAIN t.newHist \subseteq Nat, TxnOK(t, r, h, n)
  PROVE  TxnOK(t, r, h, m)
<1>1. \A v \in DOMAIN t.newHist : v < m
  <2>1. SUFFICES ASSUME NEW v \in DOMAIN t.newHist  PROVE v < m
    OBVIOUS
  <2>2. v \in Nat /\ v < n  BY DEF TxnOK
  <2>3. QED  BY <2>2
<1>2. QED  BY <1>1 DEF TxnOK

LEMMA RunCounts ==
  ASSUME NEW t, NEW R, NEW H, NEW k, NEW r, NEW h, NEW n \in Nat, NEW m,
         RunOK(t, R, H, k, r, h, n, m)
  PROVE  m \in Nat /\ n <= m
<1>1. m \in {n, n + 1}  BY DEF RunOK
<1>2. QED  BY <1>1

LEMMA NextCount ==
  ASSUME NEW n \in Nat, n <= MaxVersion
  PROVE  ~(n < n) /\ n < n + 1 /\ n + 1 \in Nat /\ n + 1 <= MaxVersion + 1
  BY Bounds

LEMMA CountInRange ==
  ASSUME NEW n \in 1 .. MaxVersion + 1, NEW m \in Nat, n <= m, m <= MaxVersion + 1
  PROVE  m \in 1 .. MaxVersion + 1
<1>1. n \in Nat /\ 1 <= n  BY Bounds
<1>2. 1 <= m  BY <1>1
<1>3. QED  BY <1>2, Bounds

LEMMA Below ==
  ASSUME NEW D \in SUBSET Nat, NEW n \in Nat, NEW m \in Nat, n <= m,
         \A v \in D : v < n
  PROVE  \A v \in D : v < m
<1>1. SUFFICES ASSUME NEW v \in D  PROVE v < m
  OBVIOUS
<1>2. v \in Nat /\ v < n  OBVIOUS
<1>3. QED  BY <1>2

LEMMA RunStep ==
  ASSUME HistInv, NEW s \in Clients, InTxn(s), NEW k \in Gids,
         NEW R \in PartFun(Gids, AnyRow), NEW H \in PartFun(Ids, Versions),
         NEW m \in Nat, m <= MaxVersion + 1,
         UNCHANGED <<histLevel, histClock, rows, history>>,
         nextVersion' = m,
         histTxn' = Ran(s, R, H),
         RunOK(histTxn[s], R, H, k, rows, history, nextVersion, m),
         AloneOn(s, R, H),
         histLevel = "repeatable read" => StaysCurrent(histTxn[s], R, H, k, history)
  PROVE  HistInv'
<1> DEFINE t == histTxn[s]
           u == AfterRun(t, R, H)
<1>1. HistTypeOK /\ t \in HistTxns  BY RunningType DEF HistInv
<1>2. histTxn' = [histTxn EXCEPT ![s] = u]  BY <1>1, RanIsAfterRun
<1>3. /\ u \in HistTxns
      /\ u.newRows = Overlay(t.newRows, R)
      /\ u.newHist = Overlay(t.newHist, H)
  BY <1>1, AfterRunType
<1>4. /\ histTxn \in [Clients -> HistTxnType]
      /\ histTxn' \in [Clients -> HistTxnType]
      /\ histTxn'[s] = u
      /\ \A p \in Clients \ {s} : histTxn'[p] = histTxn[p]
  BY <1>1, <1>2, <1>3 DEF HistTypeOK, HistTxnType
<1>5. /\ rows \in [Gids -> AnyRow] /\ DOMAIN history \subseteq Ids /\ nextVersion \in Nat
  BY <1>1, TableType
<1>6. m \in Nat /\ nextVersion <= m
  BY <1>5, RunCounts
<1>7. /\ TableOK(rows, history, nextVersion)
      /\ TxnOK(t, rows, history, nextVersion)
  BY DEF HistInv, RunningOK
<1>8. TxnOK(u, rows, history, m)
  BY <1>1, <1>5, <1>7, RunKeepsTxn
<1>9. HistTypeOK'
  <2>1. m \in 1 .. MaxVersion + 1
    <3>1. nextVersion \in 1 .. MaxVersion + 1  BY <1>1 DEF HistTypeOK
    <3>2. QED  BY <1>6, <3>1, CountInRange
  <2>2. QED  BY <1>1, <1>4, <2>1 DEF HistTypeOK, HistTxnType
<1>10. TableOK(rows', history', nextVersion')
  <2>1. Ids \subseteq Nat  BY IdsNat
  <2>2. \A v \in DOMAIN history : v < m
    <3>1. DOMAIN history \in SUBSET Nat  BY <1>5, <2>1
    <3>2. \A v \in DOMAIN history : v < nextVersion  BY <1>7 DEF TableOK
    <3>3. QED  BY <1>5, <1>6, <3>1, <3>2, Below
  <2>3. QED  BY <1>7, <2>2 DEF TableOK
<1>11. ASSUME NEW p \in Clients, InTxn(p)', p # s
       PROVE  InTxn(p) /\ histTxn'[p] = histTxn[p] /\ histTxn[p] \in HistTxns
  BY <1>1, <1>4, <1>11, RunningType DEF InTxn
<1>12. RunningOK'
  <2>1. SUFFICES ASSUME NEW p \in Clients, InTxn(p)'
                 PROVE  TxnOK(histTxn'[p], rows', history', nextVersion')
    BY DEF RunningOK
  <2>2. CASE p = s  BY <1>4, <1>8, <2>2
  <2>3. CASE p # s
    <3>1. InTxn(p) /\ histTxn'[p] = histTxn[p] /\ histTxn[p] \in HistTxns
      BY <1>11, <2>1, <2>3
    <3>2. DOMAIN histTxn[p].newHist \subseteq Nat
      BY <3>1, TxnFields, IdsNat
    <3>3. TxnOK(histTxn[p], rows, history, nextVersion)
      BY <3>1 DEF HistInv, RunningOK
    <3>4. QED  BY <1>5, <1>6, <3>1, <3>2, <3>3, OthersKeep
  <2>4. QED  BY <2>2, <2>3
<1>13. AllApart'
  <2>1. ASSUME NEW p \in Clients, InTxn(p), p # s
        PROVE  Apart(u, histTxn[p]) /\ Apart(histTxn[p], u)
    <3>1. Apart(t, histTxn[p])  BY <2>1 DEF HistInv, AllApart
    <3>2. QED  BY <1>3, <2>1, <3>1 DEF Apart, AloneOn, Overlay
  <2>2. SUFFICES ASSUME NEW p \in Clients, NEW q \in Clients, InTxn(p)', InTxn(q)', p # q
                 PROVE  Apart(histTxn'[p], histTxn'[q])
    BY DEF AllApart
  <2>3. CASE p = s  BY <1>4, <1>11, <2>1, <2>2, <2>3
  <2>4. CASE q = s  BY <1>4, <1>11, <2>1, <2>2, <2>4
  <2>5. CASE p # s /\ q # s
    BY <1>11, <2>2, <2>5 DEF HistInv, AllApart
  <2>6. QED  BY <2>3, <2>4, <2>5
<1>14. AllRepeat'
  <2>1. SUFFICES ASSUME histLevel = "repeatable read",
                        NEW p \in Clients, InTxn(p)'
                 PROVE  Repeats(histTxn'[p], history)
    BY DEF HistInv, AllRepeat
  <2>2. CASE p = s
    <3>1. Repeats(t, history)  BY <2>1 DEF HistInv, AllRepeat
    <3>2. Repeats(u, history)
      BY <1>1, <1>5, <1>7, <2>1, <3>1, RunKeepsRepeats
    <3>3. QED  BY <1>4, <2>2, <3>2
  <2>3. CASE p # s
    BY <1>11, <2>1, <2>3 DEF HistInv, AllRepeat
  <2>4. QED  BY <2>2, <2>3
<1>15. QED
  BY <1>9, <1>10, <1>12, <1>13, <1>14 DEF HistInv

-----------------------------------------------------------------------------
(* The statements.                                                          *)

\* What all of them start from.
LEMMA AtRun ==
  ASSUME HistInv, NEW s \in Clients, InTxn(s)
  PROVE  /\ HistTypeOK
         /\ histTxn[s] \in HistTxns
         /\ rows \in [Gids -> AnyRow]
         /\ nextVersion \in Nat
         /\ TableOK(rows, history, nextVersion)
         /\ TxnOK(histTxn[s], rows, history, nextVersion)
         /\ LatestHistory(s) = Overlay(history, histTxn[s].newHist)
         /\ \A v \in DOMAIN LatestHistory(s) : v < nextVersion
         /\ \A p \in Clients : InTxn(p) => nextVersion \notin DOMAIN histTxn[p].newHist
         /\ \A g \in Gids : LatestRow(s, g) = Overlay(rows, histTxn[s].newRows)[g]
<1>1. HistTypeOK /\ TableOK(rows, history, nextVersion)  BY DEF HistInv
<1>2. histTxn[s] \in HistTxns /\ rows \in [Gids -> AnyRow] /\ nextVersion \in Nat
  BY <1>1, RunningType, TableType
<1>3. \A p \in Clients : InTxn(p) => TxnOK(histTxn[p], rows, history, nextVersion)
  BY DEF HistInv, RunningOK
<1>4. LatestHistory(s) = Overlay(history, histTxn[s].newHist)
  BY DEF LatestHistory
<1>5. \A v \in DOMAIN LatestHistory(s) : v < nextVersion
  BY <1>1, <1>3, <1>4 DEF TableOK, TxnOK, Overlay
<1>6. \A p \in Clients : InTxn(p) => nextVersion \notin DOMAIN histTxn[p].newHist
  <2>1. ~(nextVersion < nextVersion)  BY <1>2
  <2>2. QED  BY <1>3, <2>1 DEF TxnOK
<1>7. \A g \in Gids : LatestRow(s, g) = Overlay(rows, histTxn[s].newRows)[g]
  BY DEF LatestRow
<1>8. QED  BY <1>1, <1>2, <1>3, <1>4, <1>5, <1>6, <1>7

\* The row that a statement of a transaction finds, and its version, where
\* the transaction keeps its snapshot.
LEMMA AtRepeatableRun ==
  ASSUME HistInv, NEW s \in Clients, InTxn(s), NEW g \in Gids,
         histLevel = "repeatable read"
  PROVE  /\ Repeats(histTxn[s], history)
         /\ Current(LatestRow(s, g), LatestHistory(s), g)
<1>1. Repeats(histTxn[s], history) /\ Current(rows[g], history, g)
  BY DEF HistInv, AllRepeat
<1> DEFINE t == histTxn[s]
<1>2. /\ t \in HistTxns /\ rows \in [Gids -> AnyRow]
      /\ TxnOK(t, rows, history, nextVersion)
      /\ LatestHistory(s) = Overlay(history, t.newHist)
      /\ LatestRow(s, g) = Overlay(rows, t.newRows)[g]
  BY AtRun
<1> HIDE DEF t
<1>3. Repeats(t, history)  BY <1>1 DEF t
<1>4. DOMAIN rows = Gids  BY <1>2
<1>5. Current(Overlay(rows, t.newRows)[g], Overlay(history, t.newHist), g)
  BY <1>1, <1>2, <1>3, <1>4, ViewCurrent
<1>6. QED
  BY <1>1, <1>2, <1>5

\* Two overlays of a transaction's history make one.
LEMMA OverlayTwice ==
  ASSUME NEW h, NEW a, NEW b
  PROVE  Overlay(h, Overlay(a, b)) = Overlay(Overlay(h, a), b)
  BY DEF Overlay

LEMMA InsertKeeps ==
  ASSUME HistInv, NEW s \in Clients, InTxn(s), NEW stmt \in Statements,
         stmt.kind = "insert", RunInsert(s, stmt),
         UNCHANGED <<histLevel, histClock, rows, history>>
  PROVE  HistInv'
<1> DEFINE g == stmt.gid
           t == histTxn[s]
           n == nextVersion
           row == [data |-> stmt.data, born |-> n, stamp |-> n]
           R == [x \in {g} |-> row]
           H == [v \in {n} |-> NewVersion(s, g, stmt.data)]
<1>1. g \in Gids /\ stmt.data \in Data
  <2>1. stmt \in [kind : {"insert"}, gid : Gids, data : Inserts]
    BY DEF Statements
  <2>2. stmt.data \in Inserts /\ Inserts \subseteq Data
    BY <2>1, HistoryAssumption, Zenon
  <2>3. QED  BY <2>1, <2>2
<1>2. /\ ~Blocked(s, g, {})
      /\ LatestRow(s, g) = NoRow
      /\ n <= MaxVersion
      /\ histTxn' = Ran(s, R, H)
      /\ nextVersion' = n + 1
  BY DEF RunInsert
<1>3. /\ HistTypeOK /\ t \in HistTxns /\ n \in Nat
      /\ LatestHistory(s) = Overlay(history, t.newHist)
      /\ \A v \in DOMAIN LatestHistory(s) : v < n
      /\ \A p \in Clients : InTxn(p) => n \notin DOMAIN histTxn[p].newHist
      /\ LatestRow(s, g) = Overlay(rows, t.newRows)[g]
  BY <1>1, AtRun
<1> HIDE DEF H
<1>4. /\ n \in Ids
      /\ H \in PartFun(Ids, Versions)
      /\ DOMAIN H = {n}
      /\ H[n].gid = g /\ H[n].data = stmt.data /\ H[n].deleted = Never
  BY <1>1, <1>2, <1>3, NewVersionAt DEF H
<1>5. row \in HistRows /\ row # NoRow
  <2>1. row \in HistRows  BY <1>1, <1>4 DEF HistRows
  <2>2. QED  BY <2>1, NoRowIsNone
<1>6. /\ R \in PartFun(Gids, AnyRow)
      /\ DOMAIN R = {g}
      /\ R[g] = row
  <2>1. R \in [{g} -> AnyRow] /\ {g} \in SUBSET Gids  BY <1>1, <1>5 DEF AnyRow
  <2>2. QED  BY <2>1, PartFunIntro
<1>7. row.stamp = n /\ row.data = stmt.data  OBVIOUS
<1> HIDE DEF R, row
<1>8. ~(n < n) /\ n < n + 1 /\ n + 1 \in Nat /\ n + 1 <= MaxVersion + 1
  BY <1>2, <1>3, NextCount
<1>9. n \notin DOMAIN Overlay(history, t.newHist)  BY <1>3, <1>8
<1>10. RunOK(t, R, H, g, rows, history, n, n + 1)
  BY <1>4, <1>6, <1>7, <1>8, <1>9 DEF RunOK, HasVersion, Overlay
<1>11. AloneOn(s, R, H)
  BY <1>2, <1>3, <1>4, <1>6 DEF Blocked, AloneOn
<1>12. ASSUME histLevel = "repeatable read"
       PROVE  Current(Overlay(t.newRows, R)[g], Overlay(history, Overlay(t.newHist, H)), g)
  <2> DEFINE old  == Overlay(history, t.newHist)
             view == Overlay(old, H)
  <2>1. OpenIn(old, g) = {}
    BY <1>1, <1>2, <1>3, <1>12, AtRepeatableRun DEF Current
  <2>2. /\ DOMAIN view = DOMAIN old \cup {n}
        /\ view[n] = H[n]
        /\ \A v \in DOMAIN old : v # n => view[v] = old[v]
    BY <1>4 DEF Overlay
  <2> HIDE DEF view, old
  <2>3. OpenIn(view, g) = {n}
    BY <1>4, <2>1, <2>2 DEF OpenIn
  <2>4. Overlay(t.newRows, R)[g] = row  BY <1>6 DEF Overlay
  <2>5. Current(row, view, g)
    BY <1>4, <1>5, <1>7, <2>2, <2>3 DEF Current
  <2>6. QED  BY <2>4, <2>5, OverlayTwice DEF view, old
<1>13. histLevel = "repeatable read" => StaysCurrent(t, R, H, g, history)
  BY <1>6, <1>12 DEF StaysCurrent
<1>14. QED
  BY <1>1, <1>2, <1>4, <1>6, <1>8, <1>10, <1>11, <1>13, RunStep

\* A row put in the place of the one that the snapshot shows has a version that
\* the rule does not close.
LEMMA MissedIsNotClosed ==
  ASSUME HistInv, NEW s \in Clients, InTxn(s), NEW g \in Gids,
         ~Found(s, g), LatestRow(s, g) # NoRow
  PROVE  LatestRow(s, g).stamp \notin SeenVersions(s, g)
<1> DEFINE t == histTxn[s]
<1>1. /\ t \in HistTxns /\ rows \in [Gids -> AnyRow]
      /\ TxnOK(t, rows, history, nextVersion)
      /\ LatestRow(s, g) = Overlay(rows, t.newRows)[g]
  BY AtRun
<1>2. t.snapRows \in [Gids -> AnyRow]  BY <1>1, TxnFields
<1>3. LatestRow(s, g).born # SeenRow(s, g).born  BY DEF Found
<1>4. SeenRow(s, g) = Overlay(t.snapRows, t.newRows)[g]  BY DEF SeenRow
<1>5. SeenVersions(s, g) \subseteq DOMAIN t.snapHist \cup DOMAIN t.newHist
  BY DEF SeenVersions, Overlay
<1> HIDE DEF t
<1>6. g \notin DOMAIN t.newRows
  BY <1>1, <1>3, <1>4 DEF Overlay
<1>7. LatestRow(s, g) = rows[g] /\ SeenRow(s, g) = t.snapRows[g]
  BY <1>1, <1>2, <1>4, <1>6 DEF Overlay
<1>8. rows[g].stamp \notin DOMAIN t.newHist
  BY <1>1, <1>6, <1>7 DEF TxnOK, OtherRows
<1>9. rows[g].stamp \notin DOMAIN t.snapHist
  BY <1>1, <1>3, <1>7 DEF TxnOK, SnapshotOK
<1>10. QED  BY <1>5, <1>7, <1>8, <1>9

\* Where a transaction keeps its snapshot and nobody has changed the row since,
\* the rule closes the version of the row.
LEMMA FoundIsClosed ==
  ASSUME HistInv, NEW s \in Clients, InTxn(s), NEW g \in Gids,
         histLevel = "repeatable read", ~Conflict(s, g), SeenRow(s, g) # NoRow
  PROVE  /\ LatestRow(s, g) = SeenRow(s, g)
         /\ Found(s, g)
         /\ LatestRow(s, g).stamp \in SeenVersions(s, g)
<1> DEFINE t == histTxn[s]
<1>1. /\ t \in HistTxns /\ rows \in [Gids -> AnyRow]
      /\ TxnOK(t, rows, history, nextVersion)
      /\ LatestRow(s, g) = Overlay(rows, t.newRows)[g]
  BY AtRun
<1>2. t.snapRows \in [Gids -> AnyRow]  BY <1>1, TxnFields
<1>3. g \notin DOMAIN t.newRows => rows[g] = t.snapRows[g]
  BY DEF Conflict
<1>4. SeenRow(s, g) = Overlay(t.snapRows, t.newRows)[g]  BY DEF SeenRow
<1>5. SeenVersions(s, g) =
        {v \in DOMAIN Overlay(t.snapHist, t.newHist) :
           Overlay(t.snapHist, t.newHist)[v].gid = g}
  BY DEF SeenVersions
<1> HIDE DEF t
<1>6. CASE g \in DOMAIN t.newRows
  <2>1. LatestRow(s, g) = t.newRows[g] /\ SeenRow(s, g) = t.newRows[g]
    BY <1>1, <1>4, <1>6 DEF Overlay
  <2>2. HasVersion(t.newRows[g], t.newHist, g)
    BY <1>1, <1>6 DEF TxnOK, OwnRows
  <2>3. QED  BY <1>5, <2>1, <2>2 DEF HasVersion, Overlay, Found
<1>7. CASE g \notin DOMAIN t.newRows
  <2>1. LatestRow(s, g) = rows[g] /\ SeenRow(s, g) = t.snapRows[g]
    BY <1>1, <1>2, <1>4, <1>7 DEF Overlay
  <2>2. rows[g] = t.snapRows[g] /\ rows[g] # NoRow  BY <1>3, <1>7, <2>1
  <2>3. rows[g].stamp \notin DOMAIN t.newHist
    BY <1>1, <1>7, <2>2 DEF TxnOK, OtherRows
  <2>4. /\ rows[g].stamp \in DOMAIN t.snapHist
        /\ t.snapHist[rows[g].stamp].gid = g
    BY <1>1, <2>2 DEF TxnOK, SnapshotOK
  <2>5. rows[g].stamp \in SeenVersions(s, g)
    BY <1>5, <2>3, <2>4 DEF Overlay
  <2>6. QED  BY <2>1, <2>2, <2>5 DEF Found
<1>8. QED  BY <1>6, <1>7

\* Once the versions of g are closed, the open ones are those that are added.
LEMMA ClosedView ==
  ASSUME NEW old, NEW H, NEW g, NEW x, NEW K,
         OpenIn(old, g) = {x}, x \in K,
         K \subseteq DOMAIN H,
         \A v \in K : H[v].deleted # Never
  PROVE  OpenIn(Overlay(old, H), g) =
           {v \in DOMAIN H \ K : H[v].gid = g /\ H[v].deleted = Never}
  BY DEF OpenIn, Overlay

\* The versions that the rule closes are all of the key.
LEMMA SeenAreOfKey ==
  ASSUME HistInv, NEW s \in Clients, InTxn(s), NEW g
  PROVE  \A v \in SeenVersions(s, g) :
           /\ v < nextVersion
           /\ v \in DOMAIN history => history[v].gid = g
           /\ v \in DOMAIN histTxn[s].newHist => histTxn[s].newHist[v].gid = g
<1> DEFINE t == histTxn[s]
<1>1. /\ HistTypeOK
      /\ TableOK(rows, history, nextVersion)
      /\ TxnOK(t, rows, history, nextVersion)
      /\ LatestHistory(s) = Overlay(history, t.newHist)
  BY AtRun
<1>2. SUFFICES ASSUME NEW v \in SeenVersions(s, g)
               PROVE  /\ v < nextVersion
                      /\ v \in DOMAIN history => history[v].gid = g
                      /\ v \in DOMAIN t.newHist => t.newHist[v].gid = g
  OBVIOUS
<1>3. v < nextVersion /\ Overlay(history, t.newHist)[v].gid = g
  BY <1>1, SeenVersionsType
<1> HIDE DEF t
<1>4. v \in DOMAIN t.newHist => t.newHist[v].gid = g
  BY <1>3 DEF Overlay
<1>5. CASE v \in DOMAIN t.newHist
  BY <1>1, <1>3, <1>4, <1>5 DEF TxnOK, SameGid
<1>6. CASE v \notin DOMAIN t.newHist
  BY <1>3, <1>6 DEF Overlay
<1>7. QED  BY <1>3, <1>4, <1>5, <1>6

LEMMA DeleteKeeps ==
  ASSUME HistInv, NEW s \in Clients, InTxn(s), NEW stmt, stmt.gid \in Gids,
         RunDelete(s, stmt),
         UNCHANGED <<histLevel, histClock, rows, history>>
  PROVE  HistInv'
<1> DEFINE g == stmt.gid
           t == histTxn[s]
           n == nextVersion
           K == SeenVersions(s, g)
           R == [x \in {y \in {g} : Found(s, y)} |-> NoRow]
           H == Close(s, g)
<1>1. /\ SeenRow(s, g) # NoRow
      /\ ~Blocked(s, g, K)
      /\ ~Conflict(s, g)
      /\ histTxn' = Ran(s, R, H)
      /\ nextVersion' = n
  BY DEF RunDelete
<1>2. /\ HistTypeOK /\ t \in HistTxns /\ n \in Nat
      /\ TableOK(rows, history, n)
      /\ TxnOK(t, rows, history, n)
      /\ LatestHistory(s) = Overlay(history, t.newHist)
      /\ LatestRow(s, g) = Overlay(rows, t.newRows)[g]
  BY AtRun
<1>3. /\ H \in PartFun(Ids, Versions)
      /\ DOMAIN H = K
      /\ \A v \in K : H[v].gid = g /\ H[v].deleted # Never
  BY <1>2, CloseAt
<1>4. \A v \in K :
        /\ v < n
        /\ v \in DOMAIN history => history[v].gid = g
        /\ v \in DOMAIN t.newHist => t.newHist[v].gid = g
  BY SeenAreOfKey
<1>5. /\ R \in PartFun(Gids, AnyRow)
      /\ DOMAIN R = {y \in {g} : Found(s, y)}
      /\ \A y \in DOMAIN R : R[y] = NoRow
  <2>1. R \in [{y \in {g} : Found(s, y)} -> AnyRow]  BY DEF AnyRow
  <2>2. QED  BY <2>1, PartFunIntro
<1>6. Found(s, g) <=> g \in DOMAIN R  BY <1>5
<1>7. DOMAIN R \subseteq {g}  BY <1>5
<1>8. RunOK(t, R, H, g, rows, history, n, n)
  <2>1. ~Found(s, g) => LatestRow(s, g) = NoRow \/ LatestRow(s, g).stamp \notin K
    BY MissedIsNotClosed
  <2> HIDE DEF R, H, K
  <2>2. QED
    BY <1>2, <1>3, <1>4, <1>5, <1>6, <1>7, <2>1 DEF RunOK
<1>9. AloneOn(s, R, H)
  BY <1>1, <1>3, <1>7 DEF Blocked, AloneOn
<1>10. ASSUME histLevel = "repeatable read"
       PROVE  StaysCurrent(t, R, H, g, history)
  <2>1. /\ LatestRow(s, g) = SeenRow(s, g)
        /\ Found(s, g)
        /\ LatestRow(s, g).stamp \in K
    BY <1>1, <1>10, FoundIsClosed
  <2>2. Current(LatestRow(s, g), LatestHistory(s), g)
    BY <1>10, AtRepeatableRun
  <2> DEFINE old == Overlay(history, t.newHist)
  <2> HIDE DEF R, H, K
  <2>3. OpenIn(old, g) = {LatestRow(s, g).stamp}
    BY <1>1, <1>2, <2>1, <2>2 DEF Current
  <2> HIDE DEF old
  <2>4. OpenIn(Overlay(old, H), g) = {}
    BY <1>3, <2>1, <2>3, ClosedView
  <2>5. g \in DOMAIN R /\ R[g] = NoRow  BY <1>5, <1>6, <2>1
  <2>6. Overlay(t.newRows, R)[g] = NoRow  BY <2>5 DEF Overlay
  <2>7. Current(Overlay(t.newRows, R)[g], Overlay(old, H), g)
    BY <2>4, <2>6 DEF Current
  <2>8. Overlay(old, H) = Overlay(history, Overlay(t.newHist, H))
    BY OverlayTwice DEF old
  <2>9. QED  BY <2>5, <2>7, <2>8 DEF StaysCurrent
<1>11. n <= MaxVersion + 1
  BY <1>2, Bounds DEF HistTypeOK
<1> HIDE DEF R, H
<1>12. QED
  BY <1>1, <1>2, <1>3, <1>5, <1>8, <1>9, <1>10, <1>11, RunStep

LEMMA UpdateKeeps ==
  ASSUME HistInv, NEW s \in Clients, InTxn(s), NEW stmt \in Statements,
         stmt.kind = "update", RunUpdate(s, stmt),
         UNCHANGED <<histLevel, histClock, rows, history>>
  PROVE  HistInv'
<1> DEFINE g == stmt.gid
           t == histTxn[s]
           n == nextVersion
           K == SeenVersions(s, g)
           d == stmt.f[SeenRow(s, g).data]
           R == [x \in {y \in {g} : Found(s, y)} |->
                   [LatestRow(s, x) EXCEPT !.data = stmt.f[@], !.stamp = n]]
           N == [v \in {n} |-> NewVersion(s, g, d)]
           H == CloseThenInsert(s, g, d)
<1>1. /\ SeenRow(s, g) # NoRow
      /\ ~Blocked(s, g, K)
      /\ ~Conflict(s, g)
      /\ n <= MaxVersion
      /\ histTxn' = Ran(s, R, H)
      /\ nextVersion' = n + 1
  BY DEF RunUpdate
<1>2. g \in Gids /\ \A x \in Data : stmt.f[x] \in Data
  <2>1. stmt \in [kind : {"update"}, gid : Gids, f : Updates]
    BY DEF Statements
  <2>2. stmt.f \in Updates /\ Updates \subseteq [Data -> Data]
    BY <2>1, HistoryAssumption, Zenon
  <2>3. stmt.f \in [Data -> Data]  BY <2>2, Zenon
  <2>4. QED  BY <2>1, <2>3
<1>3. /\ HistTypeOK /\ t \in HistTxns /\ n \in Nat
      /\ TableOK(rows, history, n)
      /\ TxnOK(t, rows, history, n)
      /\ LatestHistory(s) = Overlay(history, t.newHist)
      /\ \A v \in DOMAIN LatestHistory(s) : v < n
      /\ \A p \in Clients : InTxn(p) => n \notin DOMAIN histTxn[p].newHist
      /\ LatestRow(s, g) = Overlay(rows, t.newRows)[g]
  BY <1>2, AtRun
<1>4. LatestRow(s, g) \in AnyRow /\ SeenRow(s, g) \in AnyRow
  BY <1>2, <1>3, LatestRowType
<1>5. d \in Data
  BY <1>1, <1>2, <1>4 DEF AnyRow, HistRows
<1> HIDE DEF d
<1>6. /\ Close(s, g) \in PartFun(Ids, Versions)
      /\ DOMAIN Close(s, g) = K
      /\ \A v \in K : Close(s, g)[v].gid = g /\ Close(s, g)[v].deleted # Never
  BY <1>3, CloseAt
<1>7. \A v \in K :
        /\ v < n
        /\ v \in DOMAIN history => history[v].gid = g
        /\ v \in DOMAIN t.newHist => t.newHist[v].gid = g
  BY SeenAreOfKey
<1> HIDE DEF N
<1>8. /\ n \in Ids
      /\ N \in PartFun(Ids, Versions)
      /\ DOMAIN N = {n}
      /\ N[n].gid = g /\ N[n].data = d /\ N[n].deleted = Never
  <2>1. HistTypeOK /\ n <= MaxVersion /\ g \in Gids  BY <1>1, <1>2, <1>3
  <2>2. N = [v \in {n} |-> NewVersion(s, g, d)]  BY DEF N
  <2> HIDE DEF g
  <2>3. QED  BY <1>5, <2>1, <2>2, NewVersionAt
<1>9. ~(n < n) /\ n < n + 1 /\ n + 1 \in Nat /\ n + 1 <= MaxVersion + 1
  <2>1. n \in Nat  BY <1>3
  <2>2. n <= MaxVersion  BY <1>1
  <2>3. QED  BY <2>1, <2>2, NextCount
<1>10. n \notin K /\ n \notin DOMAIN Overlay(history, t.newHist)
  <2>1. n \notin DOMAIN Overlay(history, t.newHist)  BY <1>3, <1>9
  <2> HIDE DEF K
  <2>2. n \notin K  BY <1>7, <1>9
  <2>3. QED  BY <2>1, <2>2
<1>11. H = Overlay(Close(s, g), N)  BY DEF CloseThenInsert, N
<1>12. /\ H \in PartFun(Ids, Versions)
       /\ DOMAIN H = K \cup {n}
       /\ H[n].gid = g /\ H[n].data = d /\ H[n].deleted = Never
       /\ \A v \in K : H[v].gid = g /\ H[v].deleted # Never
  <2>1. H \in PartFun(Ids, Versions)  BY <1>6, <1>8, <1>11, OverlayType
  <2> HIDE DEF H, K
  <2>2. QED  BY <1>6, <1>8, <1>10, <1>11, <2>1 DEF Overlay
<1> DEFINE row == [LatestRow(s, g) EXCEPT !.data = stmt.f[@], !.stamp = n]
<1>13. ASSUME Found(s, g)
       PROVE  /\ row \in HistRows /\ row # NoRow
              /\ row.stamp = n
              /\ row.data = stmt.f[LatestRow(s, g).data]
  <2>1. LatestRow(s, g) \in HistRows  BY <1>4, <1>13 DEF Found, AnyRow
  <2>2. stmt.f[LatestRow(s, g).data] \in Data  BY <1>2, <2>1 DEF HistRows
  <2>3. row \in HistRows  BY <1>8, <2>1, <2>2 DEF HistRows
  <2>4. QED  BY <2>1, <2>3, NoRowIsNone DEF HistRows
<1>14. R = [x \in {y \in {g} : Found(s, y)} |-> row]
  OBVIOUS
<1> HIDE DEF row, R
<1>15. /\ R \in PartFun(Gids, AnyRow)
       /\ DOMAIN R \subseteq {g}
       /\ Found(s, g) <=> g \in DOMAIN R
       /\ g \in DOMAIN R => R[g] = row
  <2> DEFINE F == {y \in {g} : Found(s, y)}
  <2>1. F \in SUBSET Gids /\ (Found(s, g) <=> g \in F) /\ F \subseteq {g}
    BY <1>2
  <2>2. F # {} => row \in AnyRow  BY <1>13, <2>1 DEF AnyRow
  <2>3. R = [x \in F |-> row]  BY <1>14
  <2> HIDE DEF F
  <2>4. R \in [F -> AnyRow]  BY <2>2, <2>3
  <2>5. R \in PartFun(Gids, AnyRow)  BY <2>1, <2>4, PartFunIntro
  <2>6. QED  BY <2>1, <2>3, <2>5
<1> HIDE DEF H
<1>16. RunOK(t, R, H, g, rows, history, n, n + 1)
  <2>1. ~Found(s, g) => LatestRow(s, g) = NoRow \/ LatestRow(s, g).stamp \notin K
    BY <1>2, MissedIsNotClosed
  <2>2. LatestRow(s, g) # NoRow => LatestRow(s, g).stamp # n
    <3>1. LatestRow(s, g) # NoRow =>
            LatestRow(s, g).stamp \in DOMAIN Overlay(history, t.newHist)
      BY <1>2, <1>3, AtRun, ViewHasVersion DEF HasVersion
    <3>2. QED  BY <1>10, <3>1
  <2>3. ASSUME NEW v \in DOMAIN H
        PROVE  /\ H[v].gid = g /\ v < n + 1
               /\ v \in DOMAIN history => history[v].gid = g
               /\ v \in DOMAIN t.newHist => t.newHist[v].gid = g
    <3>1. CASE v \in K
      <4>1. v \in Ids  BY <1>12, PartFunElim
      <4>2. v \in Nat /\ v < n  BY <1>7, <3>1, <4>1, IdsNat
      <4>3. v < n + 1  BY <1>3, <4>2
      <4>4. QED  BY <1>7, <1>12, <3>1, <4>3
    <3>2. CASE v = n
      BY <1>9, <1>10, <1>12, <3>2 DEF Overlay
    <3>3. QED  BY <1>12, <3>1, <3>2
  <2>4. g \in DOMAIN R => R[g].stamp = n /\ HasVersion(R[g], H, g)
    BY <1>12, <1>13, <1>15 DEF HasVersion
  <2> HIDE DEF K
  <2>5. QED
    BY <1>3, <1>12, <1>15, <2>1, <2>2, <2>3, <2>4 DEF RunOK
<1>17. AloneOn(s, R, H)
  BY <1>1, <1>3, <1>12, <1>15 DEF Blocked, AloneOn
<1>18. ASSUME histLevel = "repeatable read"
       PROVE  StaysCurrent(t, R, H, g, history)
  <2>1. /\ LatestRow(s, g) = SeenRow(s, g)
        /\ Found(s, g)
        /\ LatestRow(s, g).stamp \in K
    BY <1>1, <1>2, <1>18, FoundIsClosed
  <2>2. Current(LatestRow(s, g), LatestHistory(s), g)
    BY <1>2, <1>18, AtRepeatableRun
  <2> DEFINE old  == Overlay(history, t.newHist)
             view == Overlay(old, H)
  <2> HIDE DEF K
  <2>3. OpenIn(old, g) = {LatestRow(s, g).stamp}
    BY <1>1, <1>3, <2>1, <2>2 DEF Current
  <2> HIDE DEF old
  <2>4. OpenIn(view, g) = {n}
    <3>1. OpenIn(view, g) = {v \in DOMAIN H \ K : H[v].gid = g /\ H[v].deleted = Never}
      BY <1>12, <2>1, <2>3, ClosedView
    <3>2. QED  BY <1>10, <1>12, <3>1
  <2>5. g \in DOMAIN R /\ R[g] = row  BY <1>15, <2>1
  <2>6. row # NoRow /\ row.stamp = n /\ row.data = d
    BY <1>13, <2>1 DEF d
  <2>7. Overlay(t.newRows, R)[g] = row  BY <2>5 DEF Overlay
  <2>8. view[n] = H[n]  BY <1>12 DEF Overlay
  <2> HIDE DEF view
  <2>9. Current(row, view, g)
    BY <1>12, <2>4, <2>6, <2>8 DEF Current
  <2>10. view = Overlay(history, Overlay(t.newHist, H))
    BY OverlayTwice DEF old, view
  <2>11. QED  BY <2>5, <2>7, <2>9, <2>10 DEF StaysCurrent
<1>19. QED
  BY <1>1, <1>2, <1>9, <1>12, <1>15, <1>16, <1>17, <1>18, RunStep

LEMMA NothingKeeps ==
  ASSUME HistInv, NEW s \in Clients, InTxn(s), NEW stmt, stmt.gid \in Gids,
         RunNothing(s, stmt),
         UNCHANGED <<histLevel, histClock, rows, history>>
  PROVE  HistInv'
<1> DEFINE g == stmt.gid
           t == histTxn[s]
<1>1. /\ histTxn' = Ran(s, Nothing, Nothing)
      /\ nextVersion' = nextVersion
  BY DEF RunNothing
<1>2. /\ Nothing \in PartFun(Gids, AnyRow)
      /\ Nothing \in PartFun(Ids, Versions)
      /\ DOMAIN Nothing = {}
  BY NothingType
<1>3. HistTypeOK /\ nextVersion \in Nat  BY AtRun
<1>4. nextVersion <= MaxVersion + 1  BY <1>3, Bounds DEF HistTypeOK
<1>5. RunOK(t, Nothing, Nothing, g, rows, history, nextVersion, nextVersion)
  BY <1>2 DEF RunOK
<1>6. AloneOn(s, Nothing, Nothing)
  BY <1>2 DEF AloneOn
<1> HIDE DEF g
<1>7. ASSUME histLevel = "repeatable read"
      PROVE  StaysCurrent(t, Nothing, Nothing, g, history)
  <2>1. Repeats(t, history)  BY <1>7, AtRepeatableRun
  <2>2. t \in HistTxns  BY AtRun
  <2>3. /\ t.newRows \in [DOMAIN t.newRows -> AnyRow]
        /\ t.newHist \in [DOMAIN t.newHist -> Versions]
    BY <2>2, TxnFields
  <2>4. Overlay(t.newRows, Nothing) = t.newRows /\ Overlay(t.newHist, Nothing) = t.newHist
    BY <1>2, <2>3 DEF Overlay
  <2>5. QED  BY <1>2, <2>1, <2>4 DEF StaysCurrent, Repeats
<1>8. g \in Gids  BY DEF g
<1>9. QED
  BY <1>1, <1>2, <1>3, <1>4, <1>5, <1>6, <1>7, <1>8, RunStep

-----------------------------------------------------------------------------
(* Transaction control. *)

\* The versions that a transaction wrote of other keys than its rows are none,
\* so a commit leaves the rows of the others current.
LEMMA CommitKeepsRepeats ==
  ASSUME NEW t \in HistTxns, NEW u \in HistTxns, NEW h, NEW r, NEW n,
         TxnOK(t, r, h, n), TxnOK(u, r, h, n), Repeats(t, h), Repeats(u, h),
         Apart(t, u)
  PROVE  Repeats(u, Overlay(h, t.newHist))
<1> DEFINE old  == Overlay(h, u.newHist)
           view == Overlay(Overlay(h, t.newHist), u.newHist)
<1>1. SUFFICES ASSUME NEW g \in DOMAIN u.newRows
               PROVE  Current(u.newRows[g], view, g)
  BY DEF Repeats
<1>2. Current(u.newRows[g], old, g)  BY DEF Repeats
<1>3. g \notin DOMAIN t.newRows  BY DEF Apart
<1>4. \A v \in DOMAIN t.newHist : t.newHist[v].gid # g
  BY <1>3 DEF Repeats
<1>5. DOMAIN view = DOMAIN old \cup DOMAIN t.newHist
  BY DEF Overlay
<1>6. ASSUME NEW v \in DOMAIN t.newHist
      PROVE  /\ view[v].gid # g
             /\ v \in DOMAIN old => old[v].gid # g
  <2>1. v \notin DOMAIN u.newHist  BY DEF Apart
  <2>2. view[v] = t.newHist[v]  BY <2>1 DEF Overlay
  <2>3. v \in DOMAIN old => v \in DOMAIN h /\ old[v] = h[v]  BY <2>1 DEF Overlay
  <2>4. v \in DOMAIN h => h[v].gid = t.newHist[v].gid  BY DEF TxnOK, SameGid
  <2>5. QED  BY <1>4, <2>2, <2>3, <2>4
<1>7. ASSUME NEW v \in DOMAIN old, v \notin DOMAIN t.newHist
      PROVE  view[v] = old[v]
  BY <1>7 DEF Overlay
<1> HIDE DEF old, view
<1>8. OpenIn(view, g) = OpenIn(old, g)
  BY <1>5, <1>6, <1>7 DEF OpenIn
<1>9. u.newRows[g] # NoRow =>
        LET v == u.newRows[g].stamp IN v \in DOMAIN old /\ old[v].gid = g
  BY <1>2 DEF Current, OpenIn
<1>10. u.newRows[g] # NoRow => view[u.newRows[g].stamp] = old[u.newRows[g].stamp]
  BY <1>6, <1>7, <1>9
<1>11. QED  BY <1>2, <1>8, <1>10 DEF Current

\* What a commit of t leaves true of another transaction.
LEMMA CommitKeepsTxn ==
  ASSUME NEW t \in HistTxns, NEW u \in HistTxns,
         NEW r \in [Gids -> AnyRow], NEW h, NEW n,
         TxnOK(t, r, h, n), TxnOK(u, r, h, n), Apart(t, u),
         TableOK(r, h, n)
  PROVE  TxnOK(u, Overlay(r, t.newRows), Overlay(h, t.newHist), n)
<1> DEFINE r2 == Overlay(r, t.newRows)
           h2 == Overlay(h, t.newHist)
<1>1. DOMAIN h2 = DOMAIN h \cup DOMAIN t.newHist  BY DEF Overlay
<1>2. \A v \in DOMAIN h : h2[v].gid = h[v].gid
  BY DEF TxnOK, SameGid, Overlay
<1>3. \A v \in DOMAIN u.newHist : v \notin DOMAIN t.newHist
  BY DEF Apart
<1>4. \A g \in Gids : r2[g] = IF g \in DOMAIN t.newRows THEN t.newRows[g] ELSE r[g]
  BY DEF Overlay
<1> HIDE DEF r2, h2
<1>5. SameGid(u.newHist, h2)
  BY <1>1, <1>2, <1>3 DEF TxnOK, SameGid
<1>6. SameGid(u.snapHist, h2)
  BY <1>1, <1>2 DEF TxnOK, SnapshotOK, SameGid
<1>7. OwnRows(u, h2)
  <2>1. SUFFICES ASSUME NEW g \in DOMAIN u.newRows, u.newRows[g] # NoRow
                 PROVE  u.newRows[g].stamp \notin DOMAIN h2
    BY DEF TxnOK, OwnRows
  <2>2. u.newRows[g].stamp \in DOMAIN u.newHist /\ u.newRows[g].stamp \notin DOMAIN h
    BY <2>1 DEF TxnOK, OwnRows, HasVersion
  <2>3. QED  BY <1>1, <1>3, <2>2
\* A row that t wrote has a version of its own.
<1>8. ASSUME NEW g \in Gids, g \in DOMAIN t.newRows, r2[g] # NoRow
      PROVE  r2[g].stamp \in DOMAIN t.newHist /\ r2[g].stamp \notin DOMAIN h
  BY <1>4, <1>8 DEF TxnOK, OwnRows, HasVersion
<1>9. OtherRows(u, r2)
  <2>1. SUFFICES ASSUME NEW g \in Gids \ DOMAIN u.newRows, r2[g] # NoRow
                 PROVE  r2[g].stamp \notin DOMAIN u.newHist
    BY DEF OtherRows
  <2>2. CASE g \in DOMAIN t.newRows  BY <1>3, <1>8, <2>1, <2>2
  <2>3. CASE g \notin DOMAIN t.newRows
    BY <1>4, <2>1, <2>3 DEF TxnOK, OtherRows
  <2>4. QED  BY <2>2, <2>3
<1>10. SnapshotOK(u, r2, h2)
  <2>1. DOMAIN u.snapHist \subseteq DOMAIN h
    BY DEF TxnOK, SnapshotOK
  <2>2. ASSUME NEW g \in Gids, r2[g] # NoRow, r2[g].stamp \in DOMAIN u.snapHist
        PROVE  u.snapRows[g] # NoRow /\ u.snapRows[g].born = r2[g].born
    <3>1. g \notin DOMAIN t.newRows  BY <1>8, <2>1, <2>2
    <3>2. r2[g] = r[g]  BY <1>4, <3>1
    <3>3. QED  BY <2>2, <3>2 DEF TxnOK, SnapshotOK
  <2>3. QED  BY <1>1, <2>1, <2>2 DEF TxnOK, SnapshotOK
<1>11. QED
  BY <1>5, <1>6, <1>7, <1>9, <1>10 DEF TxnOK, r2, h2

LEMMA CommitKeeps ==
  ASSUME HistInv, NEW s \in Clients, HistCommit(s)
  PROVE  HistInv'
<1> DEFINE t == histTxn[s]
           n == nextVersion
<1>1. /\ InTxn(s)
      /\ rows' = Overlay(rows, t.newRows)
      /\ history' = Overlay(history, t.newHist)
      /\ histTxn' = [histTxn EXCEPT ![s] = NoHistTxn]
      /\ UNCHANGED <<histLevel, histClock, nextVersion>>
  BY DEF HistCommit
<1>2. /\ HistTypeOK /\ t \in HistTxns
      /\ rows \in [Gids -> AnyRow]
      /\ TableOK(rows, history, n)
      /\ TxnOK(t, rows, history, n)
  BY <1>1, AtRun
<1>3. /\ history \in PartFun(Ids, Versions)
      /\ t.newHist \in PartFun(Ids, Versions)
      /\ t.newRows \in PartFun(Gids, AnyRow)
      /\ histTxn \in [Clients -> HistTxnType]
  BY <1>2 DEF HistTypeOK, HistTxns, AnyRow, HistTxnType
<1>4. HistTypeOK'
  <2>1. rows' \in [Gids -> AnyRow]  BY <1>1, <1>2, <1>3, OverlayTotal
  <2>2. history' \in PartFun(Ids, Versions)  BY <1>1, <1>3, OverlayType
  <2>3. histTxn' \in [Clients -> HistTxnType]  BY <1>1, <1>3 DEF HistTxnType
  <2>4. QED  BY <1>1, <1>2, <2>1, <2>2, <2>3 DEF HistTypeOK, AnyRow, HistTxnType
<1>5. ASSUME NEW p \in Clients, InTxn(p)'
      PROVE  p # s /\ InTxn(p) /\ histTxn'[p] = histTxn[p] /\ histTxn[p] \in HistTxns
  BY <1>1, <1>2, <1>3, <1>5, RunningType DEF InTxn
<1>6. TableOK(rows', history', nextVersion')
  <2>1. \A v \in DOMAIN history' : v < n
    BY <1>1, <1>2 DEF TableOK, TxnOK, Overlay
  <2>2. \A g \in Gids : HasVersion(rows'[g], history', g)
    BY <1>1, <1>2, ViewHasVersion
  <2>3. QED  BY <1>1, <2>1, <2>2 DEF TableOK
<1>7. RunningOK'
  <2>1. SUFFICES ASSUME NEW p \in Clients, InTxn(p)'
                 PROVE  TxnOK(histTxn'[p], rows', history', nextVersion')
    BY DEF RunningOK
  <2>2. p # s /\ InTxn(p) /\ histTxn'[p] = histTxn[p] /\ histTxn[p] \in HistTxns
    BY <1>5, <2>1
  <2>3. TxnOK(histTxn[p], rows, history, n) /\ Apart(t, histTxn[p])
    BY <1>1, <2>2 DEF HistInv, RunningOK, AllApart
  <2> HIDE DEF t
  <2>4. QED  BY <1>1, <1>2, <2>2, <2>3, CommitKeepsTxn
<1>8. AllApart'
  BY <1>5 DEF HistInv, AllApart
<1>9. AllRepeat'
  <2>1. SUFFICES ASSUME histLevel = "repeatable read"
                 PROVE  /\ \A g \in Gids : Current(rows'[g], history', g)
                        /\ \A p \in Clients : InTxn(p)' => Repeats(histTxn'[p], history')
    BY <1>1 DEF AllRepeat
  <2>2. /\ \A g \in Gids : Current(rows[g], history, g)
        /\ \A p \in Clients : InTxn(p) => Repeats(histTxn[p], history)
    BY <2>1 DEF HistInv, AllRepeat
  <2>3. Repeats(t, history)  BY <1>1, <2>2
  <2>4. ASSUME NEW g \in Gids  PROVE Current(rows'[g], history', g)
    <3>1. Current(rows[g], history, g)  BY <2>2
    <3>2. DOMAIN rows = Gids  BY <1>2
    <3> HIDE DEF t
    <3>3. QED  BY <1>1, <1>2, <2>3, <3>1, <3>2, ViewCurrent
  <2>5. ASSUME NEW p \in Clients, InTxn(p)'  PROVE Repeats(histTxn'[p], history')
    <3>1. p # s /\ InTxn(p) /\ histTxn'[p] = histTxn[p] /\ histTxn[p] \in HistTxns
      BY <1>5, <2>5
    <3>2. TxnOK(histTxn[p], rows, history, n) /\ Apart(t, histTxn[p])
      BY <1>1, <3>1 DEF HistInv, RunningOK, AllApart
    <3>3. Repeats(histTxn[p], history)  BY <2>2, <3>1
    <3> HIDE DEF t
    <3>4. QED  BY <1>1, <1>2, <2>3, <3>1, <3>2, <3>3, CommitKeepsRepeats
  <2>6. QED  BY <2>4, <2>5
<1>10. QED
  BY <1>4, <1>6, <1>7, <1>8, <1>9 DEF HistInv

LEMMA BeginKeeps ==
  ASSUME HistInv, NEW s \in Clients, HistBegin(s)
  PROVE  HistInv'
<1> DEFINE u == NewHistTxn
<1>1. /\ ~InTxn(s)
      /\ histTxn' = [histTxn EXCEPT ![s] = u]
      /\ UNCHANGED <<histLevel, histClock, nextVersion, rows, history>>
  BY DEF HistBegin
<1>2. HistTypeOK /\ rows \in [Gids -> AnyRow] /\ histTxn \in [Clients -> HistTxnType]
  BY TableType DEF HistInv, HistTypeOK, HistTxnType
<1>3. u \in HistTxns
  <2>1. histClock \in HistTimes  BY <1>2 DEF HistTypeOK
  <2>2. /\ Nothing \in PartFun(Ids, Versions)
        /\ Nothing \in PartFun(Gids, HistRows \cup {NoRow})
    BY NothingType
  <2>3. QED  BY <2>1, <2>2 DEF NewHistTxn, HistTxns
<1>4. /\ u.newRows = Nothing /\ u.newHist = Nothing
      /\ u.snapRows = [g \in Gids |-> NoRow] /\ u.snapHist = Nothing
  BY DEF NewHistTxn
<1>5. DOMAIN Nothing = {}  BY DEF Nothing
<1> HIDE DEF u
<1>6. /\ histTxn'[s] = u
      /\ \A p \in Clients \ {s} : histTxn'[p] = histTxn[p]
      /\ histTxn' \in [Clients -> HistTxnType]
  BY <1>1, <1>2, <1>3 DEF HistTxnType
<1>7. HistTypeOK'
  BY <1>1, <1>2, <1>6 DEF HistTypeOK, HistTxnType
<1>8. TxnOK(u, rows, history, nextVersion)
  BY <1>4, <1>5 DEF TxnOK, SameGid, OwnRows, OtherRows, SnapshotOK
<1>9. Repeats(u, history)
  BY <1>4, <1>5 DEF Repeats
<1>10. \A p \in Clients \ {s} : InTxn(p)' => InTxn(p)
  BY <1>6 DEF InTxn
<1>11. RunningOK'
  BY <1>1, <1>6, <1>8, <1>10 DEF HistInv, RunningOK
<1>12. \A t : Apart(u, t) /\ Apart(t, u)
  BY <1>4, <1>5 DEF Apart
<1>13. AllApart'
  BY <1>6, <1>10, <1>12 DEF HistInv, AllApart
<1>14. AllRepeat'
  BY <1>1, <1>6, <1>9, <1>10 DEF HistInv, AllRepeat
<1>15. QED
  BY <1>1, <1>7, <1>11, <1>13, <1>14 DEF HistInv

LEMMA IssueKeeps ==
  ASSUME HistInv, NEW s \in Clients, NEW stmt \in Statements, HistIssue(s, stmt)
  PROVE  HistInv'
<1> DEFINE t == histTxn[s]
           repeatable == histLevel = "repeatable read"
           u == IF t.snapped
                THEN [t EXCEPT !.stmt = stmt]
                ELSE [t EXCEPT !.stmt = stmt, !.snapRows = rows, !.snapHist = history,
                               !.snapped = repeatable]
<1>1. /\ InTxn(s)
      /\ histTxn' = [histTxn EXCEPT ![s] = u]
      /\ UNCHANGED <<histLevel, histClock, nextVersion, rows, history>>
  BY DEF HistIssue
<1>2. /\ HistTypeOK /\ t \in HistTxns
      /\ rows \in [Gids -> AnyRow]
      /\ TableOK(rows, history, nextVersion)
      /\ TxnOK(t, rows, history, nextVersion)
  BY <1>1, AtRun
<1>3. histTxn \in [Clients -> HistTxnType] /\ history \in PartFun(Ids, Versions)
  BY <1>2 DEF HistTypeOK, HistTxnType
<1>4. repeatable \in BOOLEAN  OBVIOUS
<1> HIDE DEF repeatable
<1>5. /\ u \in HistTxns
      /\ u.newRows = t.newRows /\ u.newHist = t.newHist
      /\ \/ u.snapRows = t.snapRows /\ u.snapHist = t.snapHist
         \/ u.snapRows = rows /\ u.snapHist = history
  <2>1. CASE t.snapped
    <3>1. [t EXCEPT !.stmt = stmt] \in HistTxns  BY <1>2 DEF HistTxns
    <3>2. QED  BY <1>2, <2>1, <3>1 DEF HistTxns
  <2>2. CASE ~t.snapped
    <3> DEFINE w == [t EXCEPT !.stmt = stmt, !.snapRows = rows, !.snapHist = history,
                              !.snapped = repeatable]
    <3>1. w \in HistTxns  BY <1>2, <1>3, <1>4 DEF HistTxns, AnyRow
    <3>2. /\ w.newRows = t.newRows /\ w.newHist = t.newHist
          /\ w.snapRows = rows /\ w.snapHist = history
      BY <1>2 DEF HistTxns
    <3>3. u = w  BY <2>2
    <3> HIDE DEF w, u
    <3>4. QED  BY <3>1, <3>2, <3>3
  <2>3. QED  BY <2>1, <2>2
<1> HIDE DEF u
<1>6. /\ histTxn'[s] = u
      /\ \A p \in Clients \ {s} : histTxn'[p] = histTxn[p]
      /\ histTxn' \in [Clients -> HistTxnType]
  BY <1>1, <1>3, <1>5 DEF HistTxnType
<1>7. HistTypeOK'
  BY <1>1, <1>2, <1>6 DEF HistTypeOK, HistTxnType
<1>8. SameGid(u.snapHist, history) /\ SnapshotOK(u, rows, history)
  <2>1. CASE u.snapRows = t.snapRows /\ u.snapHist = t.snapHist
    BY <1>2, <2>1 DEF TxnOK, SnapshotOK
  <2>2. CASE u.snapRows = rows /\ u.snapHist = history
    BY <1>2, <2>2 DEF TableOK, HasVersion, SameGid, SnapshotOK
  <2>3. QED  BY <1>5, <2>1, <2>2
<1> HIDE DEF t
<1>9. TxnOK(u, rows, history, nextVersion)
  BY <1>2, <1>5, <1>8 DEF TxnOK, OwnRows, OtherRows
<1>10. Repeats(t, history) => Repeats(u, history)
  BY <1>5 DEF Repeats
<1>11. \A p \in Clients : InTxn(p)' => InTxn(p)
  BY <1>1, <1>6 DEF InTxn
<1>12. RunningOK'
  BY <1>1, <1>6, <1>9, <1>11 DEF HistInv, RunningOK
<1>13. \A w : (Apart(t, w) => Apart(u, w)) /\ (Apart(w, t) => Apart(w, u))
  BY <1>5 DEF Apart
<1>14. AllApart'
  <2>1. SUFFICES ASSUME NEW p \in Clients, NEW q \in Clients, InTxn(p)', InTxn(q)', p # q
                 PROVE  Apart(histTxn'[p], histTxn'[q])
    BY DEF AllApart
  <2>2. Apart(histTxn[p], histTxn[q])
    BY <1>11, <2>1 DEF HistInv, AllApart
  <2>3. QED  BY <1>6, <1>13, <2>1, <2>2 DEF t
<1>15. AllRepeat'
  BY <1>1, <1>6, <1>10, <1>11 DEF HistInv, AllRepeat, t
<1>16. QED
  BY <1>1, <1>7, <1>12, <1>14, <1>15 DEF HistInv

LEMMA RollbackKeeps ==
  ASSUME HistInv, NEW s \in Clients, HistRollback(s)
  PROVE  HistInv'
<1>1. /\ histTxn' = [histTxn EXCEPT ![s] = NoHistTxn]
      /\ UNCHANGED <<histLevel, histClock, nextVersion, rows, history>>
  BY DEF HistRollback
<1>2. histTxn \in [Clients -> HistTxnType]  BY DEF HistInv, HistTypeOK, HistTxnType
<1>3. /\ histTxn' \in [Clients -> HistTxnType]
      /\ \A p \in Clients : InTxn(p)' => InTxn(p) /\ histTxn'[p] = histTxn[p]
  BY <1>1, <1>2 DEF InTxn, HistTxnType
<1>4. HistTypeOK'  BY <1>1, <1>3 DEF HistInv, HistTypeOK, HistTxnType
<1>5. RunningOK'  BY <1>1, <1>3 DEF HistInv, RunningOK
<1>6. AllApart'  BY <1>3 DEF HistInv, AllApart
<1>7. AllRepeat'  BY <1>1, <1>3 DEF HistInv, AllRepeat
<1>8. QED  BY <1>1, <1>4, <1>5, <1>6, <1>7 DEF HistInv

LEMMA TickKeeps ==
  ASSUME HistInv, HistTick
  PROVE  HistInv'
<1>1. /\ histClock < HistMaxTime /\ histClock' = histClock + 1
      /\ UNCHANGED <<histLevel, nextVersion, rows, history, histTxn>>
  BY DEF HistTick
<1>2. histClock' \in HistTimes
  <2>1. histClock \in HistTimes  BY DEF HistInv, HistTypeOK
  <2>2. QED  BY <1>1, <2>1, Bounds DEF HistTimes
<1>3. QED
  BY <1>1, <1>2 DEF HistInv, HistTypeOK, RunningOK, AllApart, AllRepeat, InTxn

LEMMA RunKeeps ==
  ASSUME HistInv, NEW s \in Clients, HistRun(s)
  PROVE  HistInv'
<1> DEFINE stmt == histTxn[s].stmt
<1>1. InTxn(s) /\ UNCHANGED <<histLevel, histClock, rows, history>>
  BY DEF HistRun
<1>2. stmt \in Statements \cup {NoStatement}  BY <1>1, AtRun, TxnFields
<1>3. stmt.kind \in {"insert", "update", "delete"} => stmt \in Statements /\ stmt.gid \in Gids
  <2>1. NoStatement.kind = "none"  BY DEF NoStatement
  <2>2. \A x \in Statements : x.gid \in Gids  BY DEF Statements
  <2>3. QED  BY <1>2, <2>1, <2>2
<1> HIDE DEF stmt
<1>4. CASE stmt.kind = "insert" /\ RunInsert(s, stmt)
  BY <1>1, <1>3, <1>4, InsertKeeps
<1>5. CASE stmt.kind = "update" /\ RunUpdate(s, stmt)
  BY <1>1, <1>3, <1>5, UpdateKeeps
<1>6. CASE stmt.kind = "delete" /\ RunDelete(s, stmt)
  BY <1>1, <1>3, <1>6, DeleteKeeps
<1>7. CASE stmt.kind \in {"update", "delete"} /\ RunNothing(s, stmt)
  BY <1>1, <1>3, <1>7, NothingKeeps
<1>8. QED  BY <1>4, <1>5, <1>6, <1>7 DEF HistRun, stmt

-----------------------------------------------------------------------------
LEMMA InitHolds == HistInit => HistInv
<1> SUFFICES ASSUME HistInit  PROVE HistInv
  OBVIOUS
<1>1. DOMAIN history = {} /\ history \in PartFun(Ids, Versions)
  BY NothingType DEF HistInit
<1>2. histClock \in HistTimes /\ nextVersion \in 1 .. MaxVersion + 1
  BY Bounds DEF HistInit, HistTimes
<1>3. /\ rows \in [Gids -> HistRows \cup {NoRow}]
      /\ histTxn \in [Clients -> HistTxns \cup {NoHistTxn}]
      /\ histLevel \in HistLevels
  BY DEF HistInit
<1>4. \A g \in Gids : rows[g] = NoRow  BY DEF HistInit
<1>5. \A s \in Clients : ~InTxn(s)  BY DEF HistInit, InTxn
<1>6. HistTypeOK  BY <1>1, <1>2, <1>3 DEF HistTypeOK
<1>7. TableOK(rows, history, nextVersion)
  BY <1>1, <1>4 DEF TableOK, HasVersion
<1>8. \A g \in Gids : Current(rows[g], history, g)
  BY <1>1, <1>4 DEF Current, OpenIn
<1>9. QED
  BY <1>5, <1>6, <1>7, <1>8 DEF HistInv, RunningOK, AllApart, AllRepeat

LEMMA StepKeeps == HistInv /\ [HistNext]_histVars => HistInv'
<1> SUFFICES ASSUME HistInv, [HistNext]_histVars  PROVE HistInv'
  OBVIOUS
<1>1. CASE HistTick  BY <1>1, TickKeeps
<1>2. ASSUME NEW s \in Clients, HistBegin(s)  PROVE HistInv'
  BY <1>2, BeginKeeps
<1>3. ASSUME NEW s \in Clients, HistCommit(s)  PROVE HistInv'
  BY <1>3, CommitKeeps
<1>4. ASSUME NEW s \in Clients, HistRollback(s)  PROVE HistInv'
  BY <1>4, RollbackKeeps
<1>5. ASSUME NEW s \in Clients, HistRun(s)  PROVE HistInv'
  BY <1>5, RunKeeps
<1>6. ASSUME NEW s \in Clients, NEW stmt \in Statements, HistIssue(s, stmt)
      PROVE  HistInv'
  BY <1>6, IssueKeeps
<1>7. CASE UNCHANGED histVars
  BY <1>7 DEF histVars, HistInv, HistTypeOK, RunningOK, AllApart, AllRepeat, InTxn
<1>8. QED
  BY <1>1, <1>2, <1>3, <1>4, <1>5, <1>6, <1>7 DEF HistNext

\* The inductive invariant of the whole specification.
THEOREM HistoryInvariant == HistSpec => []HistInv
  BY InitHolds, StepKeeps, PTL DEF HistSpec

\* The state keeps its types whatever sessions do.
THEOREM HistoryTypeCorrect == HistSpec => []HistTypeOK
<1>1. HistInv => HistTypeOK  BY DEF HistInv
<1>2. QED  BY <1>1, HistoryInvariant, PTL

\* At either isolation level, and whatever statements wait for each other on a
\* row, no row of the table is ever without a version that is still open: the
\* rules of extras/history_table never close the version of a row that stays.
THEOREM RowIsOpen == HistSpec => []HistRowIsOpen
<1>1. HistInv => HistRowIsOpen
  <2>1. SUFFICES ASSUME HistInv, NEW g \in Gids, rows[g] # NoRow
                 PROVE  OpenVersions(g) # {}
    BY DEF HistRowIsOpen
  <2>2. HasVersion(rows[g], history, g)  BY <2>1 DEF HistInv, TableOK
  <2>3. QED  BY <2>1, <2>2 DEF HasVersion, OpenVersions, IsOpen
<1>2. QED  BY <1>1, HistoryInvariant, PTL

\* Where transactions keep their snapshot, the open versions of the history
\* table are the rows of the table, with their data, and no others.
THEOREM OpenIsCurrent == HistSpec => []HistOpenIsCurrent
<1>1. HistInv => HistOpenIsCurrent
  <2>1. SUFFICES ASSUME HistInv, histLevel = "repeatable read", NEW g \in Gids
                 PROVE  IF rows[g] = NoRow
                        THEN OpenVersions(g) = {}
                        ELSE /\ OpenVersions(g) = {rows[g].stamp}
                             /\ history[rows[g].stamp].data = rows[g].data
    BY DEF HistOpenIsCurrent
  <2>2. Current(rows[g], history, g)  BY <2>1 DEF HistInv, AllRepeat
  <2>3. OpenVersions(g) = OpenIn(history, g)
    BY DEF OpenVersions, IsOpen, OpenIn
  <2>4. QED  BY <2>2, <2>3 DEF Current
<1>2. QED  BY <1>1, HistoryInvariant, PTL
=============================================================================
