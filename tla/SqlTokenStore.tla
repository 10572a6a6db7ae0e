--------------------------- MODULE SqlTokenStore ---------------------------
(***************************************************************************)
(* The auth service on its SQLite storage                                  *)
(* (services/auth/internal/storage/sqlite3/sqlite.go), statement by        *)
(* statement. RevokeAndSave is BEGIN and UPDATE, INSERT, COMMIT; the other *)
(* methods are one statement that commits itself.                          *)
(*                                                                         *)
(* SQLite has one writer at a time: BEGIN is deferred, the UPDATE takes    *)
(* the write lock, and another writer waits for it for some seconds and    *)
(* then fails with "database is locked". Readers see the committed rows.   *)
(* A transaction that does not commit, or whose process ends, leaves the   *)
(* file as it was.                                                         *)
(***************************************************************************)
EXTENDS TokenTable

CONSTANT NoCall   \* "nobody"

ASSUME NoCallAssumption == NoCall \notin Call

VARIABLE tx       \* the transaction that holds the write lock

sqlVars == <<table, tx>>

NoTx == [by |-> NoCall, at |-> "none", sees |-> [t \in Token |-> "absent"]]

SqlInit == Init /\ tx = NoTx
-----------------------------------------------------------------------------
\* GetRefreshToken, and what is done without the database.
Unlocked(c) ==
  /\ \/ \E t \in Token :
          StartGenerate(c, t) \/ StartRefresh(c, t) \/ StartRevoke(c, t) \/ Get(c, t)
     \/ GetRefused(c)
     \/ Deliver(c)
  /\ UNCHANGED tx

\* The statement does not wait for the lock.
SqlSaveUnlockedMutant(c) == Save(c) /\ UNCHANGED tx

SqlSave(c) == tx = NoTx /\ Save(c) /\ UNCHANGED tx

SqlRevoke(c) == tx = NoTx /\ Revoke(c) /\ UNCHANGED tx

\* BEGIN, and the UPDATE of revokeRefreshToken. It matches a row that is
\* revoked already; when it matches none the transaction is rolled back.
Update(c) ==
  /\ pc[c] = "exchange" /\ tx = NoTx
  /\ IF rows[arg[c]] = "absent"
       THEN Reply(c, "Unauthenticated") /\ UNCHANGED <<rows, tx>>
       ELSE /\ tx' = [by |-> c, at |-> "insert",
                      sees |-> [rows EXCEPT ![arg[c]] = "revoked"]]
            /\ UNCHANGED table

\* saveRefreshToken is given the database instead of the transaction.
InsertOutsideMutant(c) ==
  /\ pc[c] = "exchange" /\ tx.by = c /\ tx.at = "insert"
  /\ rows' = [rows EXCEPT ![new[c]] = "live"]
  /\ tx' = [by |-> c, at |-> "commit",
             sees |-> [tx.sees EXCEPT ![new[c]] = "live"]]
  /\ UNCHANGED <<pc, arg, new, answer, before>>

\* The INSERT of saveRefreshToken, in the transaction.
Insert(c) ==
  /\ pc[c] = "exchange" /\ tx.by = c /\ tx.at = "insert"
  /\ UNCHANGED rows
  /\ IF tx.sees[new[c]] # "absent"
       THEN Reply(c, "Internal") /\ tx' = NoTx
       ELSE /\ tx' = [by |-> c, at |-> "commit",
                      sees |-> [tx.sees EXCEPT ![new[c]] = "live"]]
            /\ UNCHANGED <<pc, arg, new, answer, before>>

\* The error of Commit is dropped.
CommitUncheckedMutant(c) ==
  /\ pc[c] = "exchange" /\ tx.by = c /\ tx.at = "commit"
  /\ Reply(c, "OK")
  /\ rows' \in {rows, tx.sees}
  /\ tx' = NoTx

Commit(c) ==
  /\ pc[c] = "exchange" /\ tx.by = c /\ tx.at = "commit"
  /\ Reply(c, "OK")
  /\ rows' = tx.sees
  /\ tx' = NoTx

\* Without the deferred Rollback the transaction stays open.
FailOpenMutant(c) == GiveUp(c) /\ UNCHANGED tx

\* A statement, or COMMIT, fails: the lock was not to be had, the context has
\* ended, the disk is full. An open transaction is rolled back.
Fail(c) ==
  /\ GiveUp(c)
  /\ tx' = IF tx.by = c THEN NoTx ELSE tx

\* SQLite rolls back what the ended process had not committed.
SqlCrash == Crash /\ tx' = NoTx

Statement(c) == SqlSave(c) \/ SqlRevoke(c) \/ Update(c) \/ Insert(c) \/ Commit(c)

SqlNext ==
  \/ \E c \in Call : Unlocked(c) \/ Statement(c) \/ Fail(c)
  \/ SqlCrash

SqlSpec == SqlInit /\ [][SqlNext]_sqlVars

\* A goroutine that has sent a statement hears of it: database/sql returns the
\* result, or an error after the busy timeout or the end of the context.
FairSqlSpec == SqlSpec /\ \A c \in Call : WF_sqlVars(Statement(c) \/ Fail(c))
-----------------------------------------------------------------------------
(* Properties, with those of TokenTable.                                   *)

\* The types of the variables; the transaction belongs to a call that is in
\* RevokeAndSave and sees the table with its own changes only.
SqlTypeOK ==
  /\ TypeOK
  /\ tx.by \in Call \cup {NoCall}
  /\ tx.by = NoCall => tx = NoTx
  /\ tx.by \in Call =>
       LET revoked == [rows EXCEPT ![arg[tx.by]] = "revoked"]
       IN  /\ pc[tx.by] = "exchange" /\ rows[arg[tx.by]] # "absent"
           /\ \/ tx = [by |-> tx.by, at |-> "insert", sees |-> revoked]
              \/ tx = [by |-> tx.by, at |-> "commit",
                       sees |-> [revoked EXCEPT ![new[tx.by]] = "live"]]

\* Whatever fails in RevokeAndSave, its transaction ends: no error path leaves
\* the database locked for all other writers.
LockIsReleased == \A c \in Call : (tx.by = c) ~> (tx.by # c)

\* The transactions implement the storage whose methods are single steps,
\* TokenTable's Spec over the same rows and calls: COMMIT is where RevokeAndSave
\* happens, and a transaction before it is a stutter.
ImplementsTable == Spec
=============================================================================
