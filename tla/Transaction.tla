----------------------------- MODULE Transaction ----------------------------
(***************************************************************************)
(* DatabaseTransaction (src/src/database/transaction.rs): transaction      *)
(* handles that share one connection behind one mutex, over the depth      *)
(* counter the driver keeps (RusqliteInnerConnection.transaction_depth, or *)
(* sqlx's TransactionManager) and the SQL session below it.                *)
(*                                                                         *)
(* One action per operation.  Where the code takes the mutex with          *)
(* lock().await the operation may find it held by a stream: it then waits  *)
(* (status "beginning", "committing", "rollingback"), and the waiting      *)
(* future may be dropped.  Where an operation returns with "?" and its     *)
(* DatabaseTransaction goes out of scope, the mutex has been released and  *)
(* Drop runs as a step of its own (status "dropping").                     *)
(***************************************************************************)
EXTENDS SqlSession, FiniteSets

CONSTANTS Handles,    \* identities of DatabaseTransaction values
          NoHandle,
          Driver,     \* which InnerConnection the handles share
          Faults,     \* kinds of statement the server may refuse at any time
          Streamers,  \* handles whose owner may open a stream on them
          Lifo        \* the client uses nested handles like a stack

Statements == {"BEGIN", "SAVEPOINT", "COMMIT", "RELEASE", "ROLLBACK", "ROLLBACK TO"}

ASSUME DriverAssumption ==
    Driver \in {"rusqlite", "sqlx_sqlite", "sqlx_mysql", "sqlx_postgres"}
ASSUME HandleAssumption == IsFiniteSet(Handles) /\ NoHandle \notin Handles
ASSUME FaultAssumption == Faults \subseteq Statements
ASSUME ClientAssumption == Lifo \in BOOLEAN /\ Streamers \subseteq Handles

VARIABLES depth,    \* open levels, as the driver counts them
          status,   \* where each handle is in its life
          anc,      \* each handle, with the handles it is nested in
          writer,   \* the handle that issued each write
          lock      \* the handle whose TransactionStream holds the mutex guard

handleVars == <<depth, status, anc, writer, lock>>
vars == <<inTx, sp, view, durable, depth, status, anc, writer, lock>>

Waiting == {"beginning", "committing", "rollingback"}
Ended   == {"committed", "rolledback", "dropped", "failed", "panicked"}
Status  == {"unborn", "open", "dropping"} \cup Waiting \cup Ended

TypeOK ==
    /\ SessionTypeOK
    /\ depth \in Nat
    /\ status \in [Handles -> Status]
    /\ anc \in [Handles -> SUBSET Handles]
    /\ writer \in [Writes -> Handles \cup {NoHandle}]
    /\ lock \in Handles \cup {NoHandle}

\* The DatabaseTransaction values that exist: each holds the connection's Arc.
Alive == {h \in Handles : status[h] \notin Ended \cup {"unborn"}}

\* A stack-like client leaves a handle alone while one nested in it exists.
Usable(h) == Lifo => \A g \in Alive : h \in anc[g] => g = h

Init ==
    /\ SessionInit
    /\ depth = 0
    /\ status = [h \in Handles |-> "unborn"]
    /\ anc = [h \in Handles |-> {}]
    /\ writer = [w \in Writes |-> NoHandle]
    /\ lock = NoHandle

SetStatus(h, s) == status' = [status EXCEPT ![h] = s]

(***************************************************************************)
(* The driver's begin, commit and rollback at depth d.                     *)
(***************************************************************************)
\* Slips a maintainer could make here; the runs must catch each of them.
BeginStmtNextName(d)     == IF d = 0 THEN StmtBegin ELSE StmtSavepoint(d + 1)
CommitStmtUndoes(d)      == IF d = 1 THEN StmtCommit ELSE StmtRollbackTo(d - 1)
RollbackStmtReleases(d)  == IF d = 1 THEN StmtRollback ELSE StmtRelease(d - 1)

BeginStmt(d)    == IF d = 0 THEN StmtBegin ELSE StmtSavepoint(d)
CommitStmt(d)   == IF d = 1 THEN StmtCommit ELSE StmtRelease(d - 1)
RollbackStmt(d) == IF d = 1 THEN StmtRollback ELSE StmtRollbackTo(d - 1)

BeginRefused(d) ==
    IF d = 0 THEN inTx \/ "BEGIN" \in Faults ELSE "SAVEPOINT" \in Faults
CommitRefused(d) ==
    IF d = 1 THEN ~inTx \/ "COMMIT" \in Faults
             ELSE ~HasSavepoint(d - 1) \/ "RELEASE" \in Faults
RollbackRefused(d) ==
    IF d = 1 THEN ~inTx \/ "ROLLBACK" \in Faults
             ELSE ~HasSavepoint(d - 1) \/ "ROLLBACK TO" \in Faults

\* At depth 0 sqlx does nothing and answers Ok; rusqlite computes 0u32 - 1,
\* which panics in a debug build and names no savepoint in a release build.
AtDepthZero(h, answer) ==
    /\ depth = 0
    /\ IF Driver = "rusqlite"
       THEN \E s \in {"dropping", "panicked"} : SetStatus(h, s)
       ELSE SetStatus(h, answer)
    /\ UNCHANGED <<sessionVars, depth>>

(***************************************************************************)
(* DatabaseTransaction::begin from the moment the mutex is held.           *)
(* set_transaction_config runs before BEGIN on MySQL, which refuses it in  *)
(* an open transaction, and after it on PostgreSQL, which refuses it in a  *)
(* savepoint; the SQLite drivers ignore the settings.                      *)
(***************************************************************************)
BeginAt(h, d) ==
    \/ /\ BeginStmt(d)
       /\ depth' = d + 1
       /\ SetStatus(h, "open")
    \/ /\ BeginRefused(d)
       /\ depth' = d
       /\ SetStatus(h, "dropping")
       /\ UNCHANGED sessionVars
    \/ /\ Driver = "sqlx_mysql" /\ inTx
       /\ depth' = d
       /\ SetStatus(h, "dropping")
       /\ UNCHANGED sessionVars
    \/ /\ Driver = "sqlx_postgres" /\ d > 0
       /\ BeginStmt(d)
       /\ depth' = d + 1
       /\ SetStatus(h, "dropping")

\* A connection's own begin: the pool, or the loan, hands out a connection
\* nobody else holds; rusqlite counts its depth from 0 again.
BeginRoot(h) ==
    /\ status[h] = "unborn"
    /\ Alive = {}
    /\ anc' = [anc EXCEPT ![h] = {h}]
    /\ BeginAt(h, IF Driver = "rusqlite" THEN 0 ELSE depth)
    /\ UNCHANGED <<writer, lock>>

BeginNested(p, h) ==
    /\ status[p] = "open" /\ Usable(p)
    /\ status[h] = "unborn"
    /\ lock = NoHandle
    /\ anc' = [anc EXCEPT ![h] = anc[p] \cup {h}]
    /\ BeginAt(h, depth)
    /\ UNCHANGED <<writer, lock>>

\* The new value exists, marked open, before the mutex is asked for.
BeginWait(p, h) ==
    /\ status[p] = "open" /\ ~Lifo
    /\ status[h] = "unborn"
    /\ lock # NoHandle
    /\ anc' = [anc EXCEPT ![h] = anc[p] \cup {h}]
    /\ SetStatus(h, "beginning")
    /\ UNCHANGED <<sessionVars, depth, writer, lock>>

BeginResume(h) ==
    /\ status[h] = "beginning"
    /\ lock = NoHandle
    /\ BeginAt(h, depth)
    /\ UNCHANGED <<anc, writer, lock>>

(***************************************************************************)
(* commit(self) and rollback(self): "open" is cleared only on success.     *)
(***************************************************************************)
\* Slip: the level is counted off before the statement has succeeded.
CommitAtCountsFirst(h) ==
    \/ AtDepthZero(h, "committed")
    \/ /\ depth > 0
       /\ depth' = depth - 1
       /\ \/ CommitStmt(depth) /\ SetStatus(h, "committed")
          \/ CommitRefused(depth) /\ SetStatus(h, "dropping") /\ UNCHANGED sessionVars

CommitAt(h) ==
    \/ AtDepthZero(h, "committed")
    \/ /\ depth > 0
       /\ CommitStmt(depth)
       /\ depth' = depth - 1
       /\ SetStatus(h, "committed")
    \/ /\ depth > 0
       /\ CommitRefused(depth)
       /\ SetStatus(h, "dropping")
       /\ UNCHANGED <<sessionVars, depth>>

Commit(h) ==
    /\ \/ status[h] = "open" /\ Usable(h)
       \/ status[h] = "committing"
    /\ lock = NoHandle
    /\ CommitAt(h)
    /\ UNCHANGED <<anc, writer, lock>>

RollbackAt(h) ==
    \/ AtDepthZero(h, "rolledback")
    \/ /\ depth > 0
       /\ RollbackStmt(depth)
       /\ depth' = depth - 1
       /\ SetStatus(h, "rolledback")
    \/ /\ depth > 0
       /\ RollbackRefused(depth)
       /\ SetStatus(h, "dropping")
       /\ UNCHANGED <<sessionVars, depth>>

Rollback(h) ==
    /\ \/ status[h] = "open" /\ Usable(h)
       \/ status[h] = "rollingback"
    /\ lock = NoHandle
    /\ RollbackAt(h)
    /\ UNCHANGED <<anc, writer, lock>>

\* Both take self by value, so never the handle whose stream is still open.
EndWait(h) ==
    /\ status[h] = "open" /\ ~Lifo
    /\ lock \notin {NoHandle, h}
    /\ \E s \in {"committing", "rollingback"} : SetStatus(h, s)
    /\ UNCHANGED <<sessionVars, depth, anc, writer, lock>>

\* The future waiting for the mutex is dropped, and the handle it owns with it.
Cancel(h) ==
    /\ status[h] \in Waiting
    /\ Driver # "rusqlite"
    /\ SetStatus(h, "dropping")
    /\ UNCHANGED <<sessionVars, depth, anc, writer, lock>>

(***************************************************************************)
(* Drop: start_rollback on a handle still marked open.  The rollback takes *)
(* whatever level the counter is at.  A queued sqlx rollback is taken as   *)
(* run, since it precedes every later statement of the session.            *)
(***************************************************************************)
AfterDrop(h) == IF status[h] = "open" THEN "dropped" ELSE "failed"

\* Slips: the check for depth 0 is gone; nothing is rolled back; the level is
\* counted off although the mutex was not free.
StartRollbackUnchecked(h) ==
    /\ SetStatus(h, AfterDrop(h))
    /\ depth' = depth - 1
    /\ IF depth = 0 THEN UNCHANGED sessionVars ELSE RollbackStmt(depth)

StartRollbackForgets(h) ==
    /\ SetStatus(h, AfterDrop(h))
    /\ UNCHANGED <<sessionVars, depth>>

StartRollbackBlind(h) ==
    /\ depth > 0
    /\ depth' = depth - 1
    /\ IF lock # NoHandle
       THEN SetStatus(h, "panicked") /\ UNCHANGED sessionVars
       ELSE SetStatus(h, AfterDrop(h)) /\ RollbackStmt(depth)

StartRollback(h) ==
    \/ /\ lock # NoHandle
       /\ SetStatus(h, "panicked")
       /\ UNCHANGED <<sessionVars, depth>>
    \/ /\ lock = NoHandle
       /\ depth = 0
       /\ SetStatus(h, AfterDrop(h))
       /\ UNCHANGED <<sessionVars, depth>>
    \/ /\ lock = NoHandle
       /\ depth > 0
       /\ RollbackStmt(depth)
       /\ depth' = depth - 1
       /\ SetStatus(h, AfterDrop(h))
    \/ /\ lock = NoHandle
       /\ depth > 0
       /\ Driver = "rusqlite" /\ RollbackRefused(depth)
       /\ SetStatus(h, "panicked")
       /\ UNCHANGED <<sessionVars, depth>>

DropHandle(h) ==
    /\ \/ status[h] = "open" /\ lock # h /\ Usable(h)
       \/ status[h] = "dropping"
    /\ StartRollback(h)
    /\ UNCHANGED <<anc, writer, lock>>

(***************************************************************************)
(* Statements and streams through a handle, both borrowing it.             *)
(***************************************************************************)
Execute(h, w) ==
    /\ status[h] = "open" /\ Usable(h)
    /\ lock = NoHandle
    /\ writer[w] = NoHandle
    /\ StmtWrite(w)
    /\ writer' = [writer EXCEPT ![w] = h]
    /\ UNCHANGED <<depth, status, anc, lock>>

StreamRaw(h) ==
    /\ h \in Streamers
    /\ status[h] = "open" /\ Usable(h)
    /\ lock = NoHandle
    /\ lock' = h
    /\ UNCHANGED <<sessionVars, depth, status, anc, writer>>

\* Slip: the guard lives as long as the handle instead of the stream.
StreamDropKeepsGuard ==
    /\ lock # NoHandle
    /\ status[lock] \in Ended
    /\ lock' = NoHandle
    /\ UNCHANGED <<sessionVars, depth, status, anc, writer>>

StreamDrop ==
    /\ lock # NoHandle
    /\ lock' = NoHandle
    /\ UNCHANGED <<sessionVars, depth, status, anc, writer>>

Next ==
    \/ \E h \in Handles :
          \/ BeginRoot(h) \/ BeginResume(h)
          \/ Commit(h) \/ Rollback(h) \/ EndWait(h) \/ Cancel(h)
          \/ DropHandle(h)
          \/ StreamRaw(h)
          \/ \E p \in Handles : BeginNested(p, h) \/ BeginWait(p, h)
          \/ \E w \in Writes : Execute(h, w)
    \/ StreamDrop

Spec == Init /\ [][Next]_vars

(***************************************************************************)
(* The scheduler polls a woken future, and a stream is dropped in the end. *)
(***************************************************************************)
Fairness ==
    /\ WF_vars(StreamDrop)
    /\ \A h \in Handles :
          /\ WF_vars(BeginResume(h))
          /\ WF_vars(status[h] = "committing" /\ Commit(h))
          /\ WF_vars(status[h] = "rollingback" /\ Rollback(h))
          /\ WF_vars(status[h] = "dropping" /\ DropHandle(h))

FairSpec == Spec /\ Fairness

(***************************************************************************)
(* Safety.                                                                 *)
(***************************************************************************)
\* A write is settled as committed once its handle and every handle around it
\* have answered Ok to commit.
CommittedThrough(w) ==
    /\ writer[w] # NoHandle
    /\ \A a \in anc[writer[w]] : status[a] = "committed"

\* A write is durable once its handle and all enclosing ones report commit:
\* "If it does not return an error, the transaction will be committed"
\* (TransactionTrait::transaction).
CommittedIsDurable == \A w \in Writes : CommittedThrough(w) => w \in durable

\* Nothing becomes durable while a handle around it is open, or after one was
\* rolled back, dropped or failed (TransactionTrait::transaction, Drop).
OnlyCommittedIsDurable == \A w \in durable : CommittedThrough(w)

\* The depth counter and the session's savepoints never drift apart, so that
\* the statement chosen by depth is one the session accepts, whichever handle
\* issues it (the table in RusqliteInnerConnection's documentation).
SessionInStep ==
    /\ inTx <=> depth > 0
    /\ \A n \in 1 .. depth - 1 : HasSavepoint(n)
    /\ depth <= 1 \/ sp[Len(sp)].name \in {depth - 1, depth}
    /\ ~inTx => sp = <<>> /\ view = durable

\* The inductive form of SessionInStep: names are stacked in order, none is
\* above the depth, and each open level but the first has its savepoint.
StackInv ==
    /\ inTx <=> depth > 0
    /\ ~inTx => sp = <<>> /\ view = durable
    /\ \A i \in DOMAIN sp : sp[i].name \in 1 .. depth
    /\ \A i, j \in DOMAIN sp : i <= j => sp[i].name <= sp[j].name
    /\ \A n \in 1 .. depth - 1 : \E i \in DOMAIN sp : Newest(n, i)

\* Every level belongs to some handle that still exists.
CountInv == depth <= Cardinality(Alive)

\* The client keeps no stream open beside other handles and the server does
\* not refuse a rollback (nothing in the code recovers from either).
RollbacksSucceed == Faults \cap {"ROLLBACK", "ROLLBACK TO"} = {}
QuietUse == Streamers = {} /\ RollbacksSucceed

\* In quiet use the mutex is free between operations and nobody waits for it.
NobodyWaits == lock = NoHandle /\ \A h \in Handles : status[h] \notin Waiting

\* When the last handle is gone the connection goes back without an open
\* transaction (Drop for RusqliteInnerConnection, which does not look).
ReturnedIdle == Alive = {} => depth = 0 /\ ~inTx

(***************************************************************************)
(* Liveness: if the client opens finitely many streams, every operation    *)
(* that waits for the mutex is answered or cancelled.                      *)
(***************************************************************************)
FinitelyManyStreams == <>[][\A h \in Handles : ~StreamRaw(h)]_vars

\* A begin, commit or rollback that waits for the mutex is answered in the end
\* (self.conn.lock().await).
WaitersServed ==
    FinitelyManyStreams =>
        \A h \in Handles : (status[h] \in Waiting) ~> (status[h] \notin Waiting)

(***************************************************************************)
(* Refinement: the connection, with its names and its counter, is a stack  *)
(* of saved views.  Level 1 began with what was durable, level i + 1 with  *)
(* what the newest savepoint named i saved.                                *)
(***************************************************************************)
SavedAs(n) == sp[CHOOSE i \in DOMAIN sp : Newest(n, i)].saved

Saves == [i \in 1 .. depth |-> IF i = 1 THEN durable ELSE SavedAs(i - 1)]

Abstract == INSTANCE NestedTxn WITH saves <- Saves

\* Whoever begins, commits, rolls back and drops, in any order, the shared
\* connection behaves as one stack of nested transactions.
ImplementsNestedTxn == Abstract!Spec

(***************************************************************************)
(* The inductive form of CommittedIsDurable and OnlyCommittedIsDurable for *)
(* a client that uses handles like a stack: the handles that exist are a   *)
(* chain, one for each level, and what each level began with are the       *)
(* writes whose handles have committed or own one of the levels below it.  *)
(***************************************************************************)
\* No begin may fail above an open level: its handle would be dropped as an
\* open one and take that level with it.
StackUse == Lifo /\ QuietUse /\ "SAVEPOINT" \notin Faults /\ Driver # "sqlx_mysql"

Chains == [1 .. depth -> Handles]
Upto(c, i) == {c[j] : j \in 1 .. i}

ChainInv(c) ==
    /\ \A i \in 1 .. depth : c[i] \in Alive /\ anc[c[i]] = Upto(c, i)
    /\ \A i, j \in 1 .. depth : c[i] = c[j] => i = j
    /\ \A i \in 1 .. depth - 1 : status[c[i]] = "open"
    /\ \A h \in Alive : \/ h \in Upto(c, depth)
                        \/ depth = 0 /\ status[h] = "dropping"

FamilyInv ==
    /\ \A h \in Handles : \A g \in anc[h] : anc[g] \subseteq anc[h] /\ status[g] # "unborn"
    /\ \A w \in Writes : writer[w] # NoHandle => writer[w] \in anc[writer[w]]

\* The writes that are lost only if one of the levels up to i is.
Kept(c, i) ==
    {w \in Writes : /\ writer[w] # NoHandle
                    /\ \A a \in anc[writer[w]] : status[a] = "committed" \/ a \in Upto(c, i)}

KeptInv(c) ==
    /\ durable = Kept(c, 0)
    /\ \A i \in 1 .. depth : Saves[i] = Kept(c, i - 1)
    /\ view = Kept(c, depth)

SettledInv == FamilyInv /\ \E c \in Chains : ChainInv(c) /\ KeptInv(c)
=============================================================================
