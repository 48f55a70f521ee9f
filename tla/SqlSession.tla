----------------------------- MODULE SqlSession -----------------------------
(***************************************************************************)
(* The SQL session behind one database connection, as the drivers in       *)
(* src/src/driver use it (SQLite's rules; external to the repository).     *)
(* A write is an opaque identity.  "view" is the set of writes a statement *)
(* on this session sees, "durable" the set that survives the session.      *)
(* "sp" is the savepoint stack, oldest first; a name may occur twice.      *)
(***************************************************************************)
EXTENDS Naturals, Sequences

CONSTANT Writes

VARIABLES inTx,     \* a transaction is open (autocommit is off)
          sp,       \* savepoints: [name, saved] records
          view,     \* the writes this session sees
          durable   \* the writes that are committed

sessionVars == <<inTx, sp, view, durable>>

Savepoint == [name : Nat, saved : SUBSET Writes]

SessionTypeOK ==
    /\ inTx \in BOOLEAN
    /\ sp \in Seq(Savepoint)
    /\ view \in SUBSET Writes
    /\ durable \in SUBSET Writes

SessionInit ==
    /\ inTx = FALSE
    /\ sp = <<>>
    /\ view = {}
    /\ durable = {}

\* The savepoint a statement naming n addresses: the newest one of that name.
Newest(n, i) ==
    /\ i \in DOMAIN sp
    /\ sp[i].name = n
    /\ \A j \in DOMAIN sp : j > i => sp[j].name # n

HasSavepoint(n) == \E i \in DOMAIN sp : sp[i].name = n

(***************************************************************************)
(* The statements.  Each is enabled exactly when the server accepts it.    *)
(***************************************************************************)
StmtBegin ==
    /\ ~inTx
    /\ inTx' = TRUE
    /\ UNCHANGED <<sp, view, durable>>

StmtSavepoint(n) ==
    /\ inTx
    /\ sp' = Append(sp, [name |-> n, saved |-> view])
    /\ UNCHANGED <<inTx, view, durable>>

\* RELEASE forgets the savepoint and the younger ones; what was written stays.
StmtRelease(n) ==
    /\ \E i \in DOMAIN sp : Newest(n, i) /\ sp' = SubSeq(sp, 1, i - 1)
    /\ UNCHANGED <<inTx, view, durable>>

\* ROLLBACK TO restores what the savepoint saw and keeps the savepoint itself.
StmtRollbackTo(n) ==
    /\ \E i \in DOMAIN sp :
          /\ Newest(n, i)
          /\ sp' = SubSeq(sp, 1, i)
          /\ view' = sp[i].saved
    /\ UNCHANGED <<inTx, durable>>

StmtCommit ==
    /\ inTx
    /\ inTx' = FALSE
    /\ sp' = <<>>
    /\ durable' = view
    /\ UNCHANGED view

StmtRollback ==
    /\ inTx
    /\ inTx' = FALSE
    /\ sp' = <<>>
    /\ view' = durable
    /\ UNCHANGED durable

\* Outside a transaction every statement commits by itself.
StmtWrite(w) ==
    /\ view' = view \cup {w}
    /\ durable' = IF inTx THEN durable ELSE view'
    /\ UNCHANGED <<inTx, sp>>
=============================================================================
