----------------------------- MODULE Transactions -----------------------------
(***************************************************************************)
(* What ironclad.platform.database gives every caller: sessions on one     *)
(* shared database, whose transactions behave differently on the two       *)
(* supported dialects.                                                     *)
(*                                                                         *)
(* SQLite (WAL, explicit deferred BEGIN): the first SELECT of a            *)
(* transaction takes a snapshot; the first DML takes the single write lock *)
(* and fails with "database is locked" if another transaction committed    *)
(* since the snapshot, or if the lock is not released within the timeout.  *)
(*                                                                         *)
(* PostgreSQL (READ COMMITTED): a statement reads the latest commit, and a *)
(* write never fails for what was read before it.  Row locks are modelled  *)
(* by the modules whose transactions hold one across several steps.        *)
(***************************************************************************)
CONSTANTS
    Sessions,   \* the processes that open sessions on the database
    Dialect,    \* "sqlite" or "postgres"
    None        \* no session / no row

ASSUME DialectAssumption == Dialect \in {"sqlite", "postgres"}
ASSUME NoneAssumption == None \notin Sessions

VARIABLES
    snap,       \* the read snapshot of each session (SQLite only)
    writer      \* the session that holds SQLite's write lock

txnVars == <<snap, writer>>

TxnTypeOK ==
    /\ snap \in [Sessions -> {"none", "current", "old"}]
    /\ writer \in Sessions \cup {None}

TxnInit ==
    /\ snap = [p \in Sessions |-> "none"]
    /\ writer = None

SQLite == Dialect = "sqlite"

Opened(p) ==
    IF SQLite /\ snap[p] = "none" THEN [snap EXCEPT ![p] = "current"] ELSE snap

\* Fault: a write is accepted although what was read before it is out of date.
MayWriteOnOldSnapshot(p) == SQLite => writer \in {None, p}

\* Session p can execute DML now.
MayWrite(p) == SQLite => writer \in {None, p} /\ snap[p] # "old"

\* A SELECT, in the transaction p has open or in a new one.
Read(p) ==
    /\ snap' = Opened(p)
    /\ UNCHANGED writer

\* A flushed INSERT or UPDATE that is not yet committed.
Flush(p) ==
    /\ MayWrite(p)
    /\ snap' = Opened(p)
    /\ writer' = IF SQLite THEN p ELSE writer

\* session.commit() of a transaction that wrote (and flushes what is pending).
Commit(p) ==
    /\ MayWrite(p)
    /\ snap' = [q \in Sessions |-> IF q = p \/ snap[q] = "none" THEN "none" ELSE "old"]
    /\ writer' = None

\* session.rollback(), session.close(), the death of the process, or the
\* commit of a transaction that wrote nothing.
Rollback(p) ==
    /\ snap' = [snap EXCEPT ![p] = "none"]
    /\ writer' = IF writer = p THEN None ELSE writer
=============================================================================
