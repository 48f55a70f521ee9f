------------------------------ MODULE Migrator ------------------------------
(***************************************************************************)
(* sea-orm-migration: runners (deployments, CLI calls) that apply, undo,   *)
(* reset and rebuild the migrations of one database, at the same time if   *)
(* they like.  src/sea-orm-migration/src/migrator/exec.rs and              *)
(* with_self.rs; the bodies of migrations are the user's.                  *)
(*                                                                         *)
(* A migration is Parts statements; effect[m][p] counts how often part p   *)
(* took effect in the committed schema.  A strict migration's statements   *)
(* are refused when already done (CREATE TABLE) or not done (DROP TABLE);  *)
(* the others are repeated silently (a data migration).                    *)
(***************************************************************************)
EXTENDS Integers, Sequences, FiniteSets

CONSTANTS Runners,
          Migrations,
          Parts,          \* statements of a migration
          Builds,         \* the migrations() lists that programs were built with
          Transactional,  \* migrations that run inside a transaction
          Strict,         \* migrations whose statements refuse to run twice
          FreshInTxn,     \* drop_everything runs in a transaction (PostgreSQL)
          Operations,     \* what the runners are asked to do
          Overlapping,    \* operations that runners may be asked for side by side
          StepChoices,    \* the "steps" argument of up and down
          MaxCalls        \* bound: operations a runner is asked for

NoLimit == -1   \* steps: None

ASSUME MigratorAssumption ==
    /\ Migrations # {}
    /\ Parts \in Nat \ {0}
    /\ Builds \subseteq Seq(Migrations)
    /\ Transactional \subseteq Migrations
    /\ Strict \subseteq Migrations
    /\ FreshInTxn \in BOOLEAN
    /\ Operations \subseteq {"up", "down", "refresh", "reset", "fresh", "uninstall"}
    /\ Overlapping \subseteq Operations
    /\ StepChoices \subseteq Nat \cup {NoLimit}
    /\ MaxCalls \in Nat

VARIABLES table,      \* the migration table exists
          appliedAt,  \* its rows: 0 for no row, else the rank of applied_at
          effect,     \* what the migrations' statements did to the schema
          pc,         \* where each runner is
          op,         \* the operation it was asked for
          phases,     \* what is left of it
          files,      \* the migrations() list of its build
          steps,      \* how many migrations it may still handle
          todo,       \* migrations it decided to handle when it read the table
          cur,        \* the migration it is working on
          work,       \* statements of cur that it has executed
          drops,      \* tables drop_everything has still to drop
          answer,     \* what the last operation returned
          calls,      \* operations it was asked for
          torn        \* history: migrations whose record a stopped runner or an
                      \* uninstall left out of step with the schema

database == <<table, appliedAt, effect>>
runner == <<op, phases, files, steps, todo, cur, work, drops, answer, calls>>
vars == <<table, appliedAt, effect, pc, op, phases, files, steps, todo, cur,
          work, drops, answer, calls, torn>>

Part == 1..Parts
MigrationTable == "seaql_migrations"
Tables == Migrations \cup {MigrationTable}
Recorded == {m \in Migrations : appliedAt[m] # 0}
FileSet(fs) == {fs[i] : i \in DOMAIN fs}
Done(m) == [p \in Part |-> 1]
Undone(m) == [p \in Part |-> 0]

TypeOK ==
    /\ table \in BOOLEAN
    /\ appliedAt \in [Migrations -> Nat]
    /\ effect \in [Migrations -> [Part -> Int]]
    /\ pc \in [Runners -> {"idle", "install", "list", "loop", "body", "tables",
                           "dropping", "uninstall"}]
    /\ op \in [Runners -> Operations \cup {"none"}]
    /\ phases \in [Runners -> Seq({"up", "down", "drop", "uninstall"})]
    /\ files \in [Runners -> Seq(Migrations)]
    /\ steps \in [Runners -> Nat \cup {NoLimit}]
    /\ todo \in [Runners -> SUBSET Migrations]
    /\ cur \in [Runners -> Migrations]
    /\ work \in [Runners -> 0..Parts]
    /\ drops \in [Runners -> SUBSET Tables]
    /\ answer \in [Runners -> {"none", "ok", "failed"}]
    /\ calls \in [Runners -> Nat]
    /\ torn \in SUBSET Migrations

Init ==
    /\ table = FALSE
    /\ appliedAt = [m \in Migrations |-> 0]
    /\ effect = [m \in Migrations |-> Undone(m)]
    /\ pc = [r \in Runners |-> "idle"]
    /\ op = [r \in Runners |-> "none"]
    /\ phases = [r \in Runners |-> <<>>]
    /\ files = [r \in Runners |-> <<>>]
    /\ steps = [r \in Runners |-> NoLimit]
    /\ todo = [r \in Runners |-> {}]
    /\ cur \in {[r \in Runners |-> CHOOSE m \in Migrations : TRUE]}
    /\ work = [r \in Runners |-> 0]
    /\ drops = [r \in Runners |-> {}]
    /\ answer = [r \in Runners |-> "none"]
    /\ calls = [r \in Runners |-> 0]
    /\ torn = {}

Goto(r, l) == pc' = [pc EXCEPT ![r] = l]
Phase(r) == Head(phases[r])
InTxn(r) == pc[r] = "body" /\ cur[r] \in Transactional

\* The runner's open transaction holds locks on what its statements touched.
Holds(r, m) == InTxn(r) /\ work[r] > 0 /\ cur[r] = m
Locked(r, m) == \E q \in Runners \ {r} : Holds(q, m)

(***************************************************************************)
(* An operation is phases, each of which ends before the next begins.      *)
(***************************************************************************)
\* Slip: refresh applies before it rolls back.
PhasesSwapped == [up |-> <<"up">>, down |-> <<"down">>, refresh |-> <<"up", "down">>,
                  reset |-> <<"down", "uninstall">>, fresh |-> <<"drop", "up">>,
                  uninstall |-> <<"uninstall">>]

PhasesOf == [up |-> <<"up">>, down |-> <<"down">>, refresh |-> <<"down", "up">>,
             reset |-> <<"down", "uninstall">>, fresh |-> <<"drop", "up">>,
             uninstall |-> <<"uninstall">>]

Entry(phase) == IF phase = "uninstall" THEN "uninstall" ELSE "install"

\* The code takes no lock against other runners; what runs side by side is up to
\* those who start them.
MayStart(r, o) ==
    \A q \in Runners \ {r} :
       pc[q] = "idle" \/ (o \in Overlapping /\ op[q] \in Overlapping)

\* Slip: the first step is counted before the loop.
StartCountsStep(r, o, fs, n) ==
    /\ pc[r] = "idle" /\ calls[r] < MaxCalls /\ MayStart(r, o)
    /\ calls' = [calls EXCEPT ![r] = @ + 1]
    /\ op' = [op EXCEPT ![r] = o]
    /\ phases' = [phases EXCEPT ![r] = PhasesOf[o]]
    /\ files' = [files EXCEPT ![r] = fs]
    /\ steps' = [steps EXCEPT ![r] = n - 1]
    /\ answer' = [answer EXCEPT ![r] = "none"]
    /\ Goto(r, Entry(Head(PhasesOf[o])))
    /\ UNCHANGED <<database, todo, cur, work, drops, torn>>

Start(r, o, fs, n) ==
    /\ pc[r] = "idle"
    /\ calls[r] < MaxCalls /\ MayStart(r, o)
    /\ o \notin {"up", "down"} => n = NoLimit
    /\ calls' = [calls EXCEPT ![r] = @ + 1]
    /\ op' = [op EXCEPT ![r] = o]
    /\ phases' = [phases EXCEPT ![r] = PhasesOf[o]]
    /\ files' = [files EXCEPT ![r] = fs]
    /\ steps' = [steps EXCEPT ![r] = n]
    /\ answer' = [answer EXCEPT ![r] = "none"]
    /\ Goto(r, Entry(Head(PhasesOf[o])))
    /\ UNCHANGED <<database, todo, cur, work, drops, torn>>

EndPhase(r) ==
    /\ phases' = [phases EXCEPT ![r] = Tail(@)]
    /\ IF Tail(phases[r]) = <<>>
       THEN Goto(r, "idle") /\ answer' = [answer EXCEPT ![r] = "ok"]
       ELSE Goto(r, Entry(Head(Tail(phases[r])))) /\ UNCHANGED answer

\* install: CREATE TABLE IF NOT EXISTS.
Install(r) ==
    /\ pc[r] = "install"
    /\ table' = TRUE
    /\ Goto(r, IF Phase(r) = "drop" THEN "tables" ELSE "list")
    /\ UNCHANGED <<appliedAt, effect, runner, torn>>

(***************************************************************************)
(* get_migration_with_status: read the rows, refuse rows without a file,   *)
(* keep the pending files for up and the applied ones for down.  From here *)
(* on the runner does not look at the rows again.                          *)
(***************************************************************************)
List(r) ==
    /\ pc[r] = "list"
    /\ table
    /\ Recorded \subseteq FileSet(files[r])
    /\ todo' = [todo EXCEPT ![r] = IF Phase(r) = "up" THEN FileSet(files[r]) \ Recorded
                                   ELSE Recorded]
    /\ Goto(r, "loop")
    /\ UNCHANGED <<database, op, phases, files, steps, cur, work, drops, answer,
                   calls, torn>>

(***************************************************************************)
(* exec_up_with walks the list forwards, exec_down_with backwards.         *)
(***************************************************************************)
Before(fs, m, n) == \E i, j \in DOMAIN fs : i < j /\ fs[i] = m /\ fs[j] = n

\* Slip: the pending set is walked in no order.
IsNextAny(r, m) == m \in todo[r]

IsNext(r, m) ==
    /\ m \in todo[r]
    /\ \A n \in todo[r] : IF Phase(r) = "up" THEN ~Before(files[r], n, m)
                                             ELSE ~Before(files[r], m, n)

Begin(r, m) ==
    /\ pc[r] = "loop" /\ IsNext(r, m) /\ steps[r] # 0
    /\ todo' = [todo EXCEPT ![r] = @ \ {m}]
    /\ cur' = [cur EXCEPT ![r] = m]
    /\ work' = [work EXCEPT ![r] = 0]
    /\ steps' = [steps EXCEPT ![r] = IF @ = NoLimit THEN @ ELSE @ - 1]
    /\ Goto(r, "body")
    /\ UNCHANGED <<database, op, phases, files, drops, answer, calls, torn>>

EndLoop(r) ==
    /\ pc[r] = "loop"
    /\ todo[r] = {} \/ steps[r] = 0
    /\ EndPhase(r)
    /\ UNCHANGED <<database, op, files, steps, todo, cur, work, drops, calls, torn>>

\* Statement p of migration m is accepted; down undoes the last part first.
Accepted(r, m, p) ==
    /\ ~Locked(r, m)
    /\ m \in Strict => effect[m][p] = IF Phase(r) = "up" THEN 0 ELSE 1

NextPart(r) == IF Phase(r) = "up" THEN work[r] + 1 ELSE Parts - work[r]
Sign(r) == IF Phase(r) = "up" THEN 1 ELSE -1

\* Slip: up and down get the manager, not the one of the transaction.
BodyOutsideTxn(r) ==
    /\ pc[r] = "body" /\ work[r] < Parts
    /\ Accepted(r, cur[r], NextPart(r))
    /\ effect' = [effect EXCEPT ![cur[r]][NextPart(r)] = @ + Sign(r)]
    /\ work' = [work EXCEPT ![r] = @ + 1]
    /\ UNCHANGED <<table, appliedAt, pc, op, phases, files, steps, todo, cur, drops,
                   answer, calls, torn>>

\* One statement of migration.up or migration.down.  Inside a transaction it
\* takes effect with the commit.
Body(r) ==
    /\ pc[r] = "body" /\ work[r] < Parts
    /\ LET m == cur[r]
           p == NextPart(r)
       IN  /\ Accepted(r, m, p)
           /\ effect' = IF m \in Transactional THEN effect
                        ELSE [effect EXCEPT ![m][p] = @ + Sign(r)]
    /\ work' = [work EXCEPT ![r] = @ + 1]
    /\ UNCHANGED <<table, appliedAt, pc, op, phases, files, steps, todo, cur, drops,
                   answer, calls, torn>>

Youngest == CHOOSE k \in {appliedAt[m] : m \in Migrations} :
                \A m \in Migrations : appliedAt[m] <= k

\* Slip: the record is written over one that is there.
RecordRowUpserts(r, m) ==
    /\ table
    /\ appliedAt' = [appliedAt EXCEPT ![m] = IF Phase(r) = "up" THEN Youngest + 1 ELSE 0]

\* insert_migration_record is refused for a version that is there (primary key);
\* delete_migration_record does not look at how many rows it deleted.
RecordRow(r, m) ==
    /\ table
    /\ Phase(r) = "up" => m \notin Recorded
    /\ appliedAt' = [appliedAt EXCEPT ![m] = IF Phase(r) = "up" THEN Youngest + 1 ELSE 0]

Committed(r, m) ==
    IF m \in Transactional
    THEN [effect EXCEPT ![m] = [p \in Part |-> @[p] + Sign(r)]]
    ELSE effect

\* The record and, in a transaction, the commit.
Record(r) ==
    /\ pc[r] = "body" /\ work[r] = Parts
    /\ ~Locked(r, cur[r])
    /\ RecordRow(r, cur[r])
    /\ effect' = Committed(r, cur[r])
    /\ Goto(r, "loop")
    /\ UNCHANGED <<table, runner, torn>>

(***************************************************************************)
(* drop_everything: read the names of the tables, then drop one by one, or *)
(* all in one transaction.  DROP waits for the locks of open transactions; *)
(* a table created in one is not visible yet, and is not dropped.          *)
(***************************************************************************)
Present(m) == \E p \in Part : effect[m][p] # 0
Visible == {m \in Migrations : Present(m)} \cup (IF table THEN {MigrationTable} ELSE {})

ListTables(r) ==
    /\ pc[r] = "tables"
    /\ drops' = [drops EXCEPT ![r] = Visible]
    /\ Goto(r, "dropping")
    /\ UNCHANGED <<database, op, phases, files, steps, todo, cur, work, answer, calls, torn>>

WaitsFor(r, S) == \E q \in Runners \ {r}, m \in S : Holds(q, m) /\ Present(m)

\* DROP TABLE IF EXISTS for the tables in S; the rows go with their table.
DropTables(r, S) ==
    /\ ~WaitsFor(r, S \ {MigrationTable})
    /\ effect' = [m \in Migrations |-> IF m \in S THEN Undone(m) ELSE effect[m]]
    /\ IF MigrationTable \in S
       THEN table' = FALSE /\ appliedAt' = [m \in Migrations |-> 0]
       ELSE UNCHANGED <<table, appliedAt>>
    /\ drops' = [drops EXCEPT ![r] = @ \ S]

Drop(r) ==
    /\ pc[r] = "dropping" /\ drops[r] # {}
    /\ IF FreshInTxn THEN DropTables(r, drops[r])
                     ELSE \E x \in drops[r] : DropTables(r, {x})
    /\ UNCHANGED <<pc, op, phases, files, steps, todo, cur, work, answer, calls, torn>>

EndDrop(r) ==
    /\ pc[r] = "dropping" /\ drops[r] = {}
    /\ EndPhase(r)
    /\ UNCHANGED <<database, op, files, steps, todo, cur, work, drops, calls, torn>>

\* uninstall: DROP TABLE IF EXISTS seaql_migrations.
Uninstall(r) ==
    /\ pc[r] = "uninstall"
    /\ table' = FALSE
    /\ appliedAt' = [m \in Migrations |-> 0]
    /\ EndPhase(r)
    /\ torn' = torn \cup {m \in Migrations : Present(m)}
    /\ UNCHANGED <<effect, op, files, steps, todo, cur, work, drops, calls>>

\* The runner stops: a statement is refused or fails, a row has no file, down is
\* not defined, the process crashes.  An open transaction is rolled back.
Stop(r) ==
    /\ pc[r] # "idle"
    /\ Goto(r, "idle")
    /\ answer' = [answer EXCEPT ![r] = "failed"]
    /\ torn' = torn \cup (IF pc[r] = "body" /\ ~InTxn(r) /\ work[r] > 0 THEN {cur[r]} ELSE {})
                    \cup (IF pc[r] = "dropping" /\ ~FreshInTxn THEN Migrations ELSE {})
    /\ work' = [work EXCEPT ![r] = 0]
    /\ drops' = [drops EXCEPT ![r] = {}]
    /\ UNCHANGED <<database, op, phases, files, steps, todo, cur, calls>>

Next ==
    \E r \in Runners :
       \/ \E o \in Operations, fs \in Builds, n \in StepChoices : Start(r, o, fs, n)
       \/ Install(r) \/ List(r) \/ EndLoop(r) \/ Body(r) \/ Record(r)
       \/ \E m \in Migrations : Begin(r, m)
       \/ ListTables(r) \/ Drop(r) \/ EndDrop(r) \/ Uninstall(r) \/ Stop(r)

Spec == Init /\ [][Next]_vars

(***************************************************************************)
(* Properties                                                              *)
(***************************************************************************)
Consistent(m) == effect[m] = IF m \in Recorded THEN Done(m) ELSE Undone(m)

\* A migration that runs in a transaction is recorded exactly when all of its
\* statements took effect, once: whatever crashes, and however many runners
\* apply and undo at the same time (exec_up_with, exec_down_with).
TxnAtomic == \A m \in Transactional : Consistent(m)

\* The record and the schema differ only where a runner is at work or stopped
\* half way outside a transaction: never on a migration nobody touched, never on
\* two because of one runner, never because two runners apply the same one.
Accounted ==
    \A m \in Migrations \ torn :
       \/ Consistent(m)
       \/ \E r \in Runners : pc[r] = "dropping" \/ (pc[r] = "body" /\ cur[r] = m)

\* Migrations are applied in list order and undone from the end: what is recorded
\* is always a prefix of the list, so a migration never runs before one it builds on.
PrefixKept ==
    \A fs \in Builds : \A i, j \in DOMAIN fs :
       i < j /\ fs[j] \in Recorded => fs[i] \in Recorded

\* What Ok promises when it is returned: after up every file has a record; after
\* down and reset there is none; after fresh the schema is whole again too,
\* whatever earlier crashes left half done.
FinishesOk(r) == pc[r] # "idle" /\ pc'[r] = "idle" /\ answer'[r] = "ok" /\ steps[r] = NoLimit
OkMeansDone ==
    [][\A r \in Runners : FinishesOk(r) =>
          CASE op[r] = "up"      -> FileSet(files[r]) \subseteq Recorded'
            [] op[r] = "refresh" -> Recorded' = FileSet(files[r])
            [] op[r] = "fresh"   -> /\ Recorded' = FileSet(files[r])
                                    /\ \A m \in Migrations : Consistent(m)'
            [] op[r] = "down"    -> Recorded' = {}
            [] OTHER             -> Recorded' = {} /\ ~table']_vars
=============================================================================
