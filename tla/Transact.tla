------------------------------ MODULE Transact ------------------------------
(***************************************************************************)
(* Backend::transact of backend_sql.rs, for one table of the SQLite        *)
(* database: the statements of a transaction run one by one, with other    *)
(* connections of the pool in between, and take effect when it commits.    *)
(*                                                                         *)
(* SQLite has one writer at a time.  The transaction is begun without a    *)
(* lock; its first statement that writes takes the lock, waiting for it if *)
(* need be, and it is held until the transaction ends.  Readers see what   *)
(* was committed.                                                          *)
(***************************************************************************)
CONSTANTS Client, NoClient

ASSUME ClientAssumption == NoClient \notin Client

VARIABLES
    table,   \* the table as committed
    writer,  \* the client whose transaction holds the write lock
    work     \* the table as that transaction sees it

database == <<table, writer, work>>

InitDatabase(t) ==
    /\ table = t
    /\ writer = NoClient
    /\ work = t

\* Wrong: the statement is executed on the pool and not on the transaction.
ExecuteOnPool(c, t) ==
    /\ writer = NoClient
    /\ work' = t
    /\ table' = t
    /\ UNCHANGED writer

\* A statement of c's transaction makes the table t of what it sees.
Execute(c, t) ==
    /\ writer \in {NoClient, c}
    /\ writer' = c
    /\ work' = t
    /\ UNCHANGED table

\* A transaction without statements has no lock to release.
Commit(c) ==
    /\ writer' = IF writer = c THEN NoClient ELSE writer
    /\ table' = IF writer = c THEN work ELSE table
    /\ UNCHANGED work

\* Wrong: a transaction that is dropped is not ended.
RollbackKeepsLock(c) ==
    /\ work' = IF writer = c THEN table ELSE work
    /\ UNCHANGED <<table, writer>>

\* The transaction is dropped: on an error, or with its handler.
Rollback(c) ==
    /\ writer' = IF writer = c THEN NoClient ELSE writer
    /\ work' = IF writer = c THEN table ELSE work
    /\ UNCHANGED table

\* Without a writer there is nothing uncommitted.
NothingUncommitted == writer = NoClient => work = table
=============================================================================
